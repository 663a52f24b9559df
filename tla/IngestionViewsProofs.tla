------------------------ MODULE IngestionViewsProofs ------------------------
(***************************************************************************)
(* Proofs about the views of ingestion that MCIngestion puts side by side, *)
(* for any texts, any feeds of any size, any number of clicks and of runs. *)
(***************************************************************************)
EXTENDS MCIngestion, WatermarkProofs, OrdersProofs

-----------------------------------------------------------------------------
(* Chunking. CutInv says how far the chunks have come: in order, up to the  *)
(* current chunk or window, with every paragraph that fits in one of them   *)
(* or in the current one.                                                  *)

Chunk == [first : Nat, last : Nat]
CutRecord ==
  [pc : {"packing", "sliding", "done"}, text : Texts, target : Targets, overlap : Overlaps,
   next : Nat \ {0}, current : Nat, start : Nat, chunks : Seq(Chunk)]

InOrder(c, n) ==
  /\ c \in Seq(Chunk)
  /\ \A k \in DOMAIN c : c[k].first >= 1 /\ c[k].last - c[k].first \in 0..n - 1
  /\ \A j, k \in DOMAIN c : j < k => c[j].first < c[k].first /\ c[j].last < c[k].last
Covers(c, n) == \A w \in 1..n : \E k \in DOMAIN c : w \in c[k].first..c[k].last
HasWhole(c, v, w) == \E k \in DOMAIN c : c[k].first <= v /\ w <= c[k].last

\* A paragraph that fits is in the current chunk or in one that is finished.
FitsWhole(c, p) ==
  Chunks!WordsBy(cut.text, p) - Chunks!WordsBy(cut.text, p - 1) <= cut.target =>
    HasWhole(c, Chunks!WordsBy(cut.text, p - 1) + 1, Chunks!WordsBy(cut.text, p))

CutInv ==
  /\ cut \in CutRecord
  /\ cut.next <= Len(cut.text) + 1
  /\ cut.current <= cut.target /\ cut.current <= Chunks!Words
  /\ InOrder(cut.chunks, cut.target)
  /\ cut.pc # "sliding" =>
       /\ cut.start = 0
       /\ \A k \in DOMAIN cut.chunks : cut.chunks[k].last <= Chunks!Words - cut.current
       /\ Len(cut.chunks) <= Chunks!Words - cut.current
       /\ cut.overlap >= 0 => Covers(cut.chunks, Chunks!Words - cut.current)
  /\ cut.pc = "sliding" =>
       /\ cut.current = 0 /\ cut.next <= Len(cut.text)
       /\ cut.target < Chunks!Paragraph /\ cut.start < Chunks!Paragraph
       /\ \A k \in DOMAIN cut.chunks :
            /\ cut.chunks[k].first <= Chunks!Words + cut.start
            /\ cut.chunks[k].last < Chunks!Words + cut.start + cut.target
            /\ cut.chunks[k].last < Chunks!Words + Chunks!Paragraph
       /\ Len(cut.chunks) <= Chunks!Words + cut.start
       /\ cut.overlap >= 0 => Covers(cut.chunks, Chunks!Words + cut.start)
  /\ cut.pc = "done" => cut.next = Len(cut.text) + 1 /\ cut.current = 0
  /\ \A p \in 1..cut.next - 1 :
       Chunks!Words - cut.current <= Chunks!WordsBy(cut.text, p - 1) \/ FitsWhole(cut.chunks, p)

\* Every paragraph has a word.
LEMMA TextIs ==
  ASSUME cut \in CutRecord
  PROVE  /\ Len(cut.text) \in Nat
         /\ \A k \in 0..Len(cut.text) : Chunks!WordsBy(cut.text, k) \in Nat
         /\ \A j, k \in 0..Len(cut.text) : j < k => Chunks!WordsBy(cut.text, j) < Chunks!WordsBy(cut.text, k)
         /\ cut.target \in Nat \ {0} /\ cut.overlap \in Int
<1>1. /\ cut.text \in Seq(Nat \ {0})
      /\ \A j, k \in DOMAIN cut.text : j < k => cut.text[j] < cut.text[k]
      /\ cut.target \in Nat \ {0} /\ cut.overlap \in Int
  BY ChunksAssumption DEF Chunks!Assumptions, CutRecord
<1>2. Len(cut.text) \in Nat /\ DOMAIN cut.text = 1..Len(cut.text)
  BY <1>1
<1>3. \A k \in 1..Len(cut.text) : cut.text[k] \in Nat \ {0}
  BY <1>1
<1>4. ASSUME NEW k \in 0..Len(cut.text) PROVE Chunks!WordsBy(cut.text, k) \in Nat
  BY <1>2, <1>3 DEF Chunks!WordsBy
<1>5. ASSUME NEW j \in 0..Len(cut.text), NEW k \in 0..Len(cut.text), j < k
      PROVE  Chunks!WordsBy(cut.text, j) < Chunks!WordsBy(cut.text, k)
  <2>1. k \in 1..Len(cut.text) /\ Chunks!WordsBy(cut.text, k) = cut.text[k]
    BY <1>2, <1>5 DEF Chunks!WordsBy
  <2>2. CASE j = 0
    BY <1>3, <2>1, <2>2 DEF Chunks!WordsBy
  <2>3. CASE j # 0
    <3>1. j \in 1..Len(cut.text) /\ Chunks!WordsBy(cut.text, j) = cut.text[j]
      BY <1>2, <2>3 DEF Chunks!WordsBy
    <3> QED
      BY <1>1, <1>2, <1>5, <2>1, <3>1
  <2> QED
    BY <2>2, <2>3
<1> QED
  BY <1>1, <1>2, <1>4, <1>5

\* A chunk that is added behind the others.
LEMMA ChunkAdded ==
  ASSUME NEW n \in Nat \ {0}, NEW c, InOrder(c, n), NEW b \in Chunk,
         b.first >= 1, b.last - b.first \in 0..n - 1,
         \A k \in DOMAIN c : c[k].first < b.first /\ c[k].last < b.last
  PROVE  /\ InOrder(Append(c, b), n)
         /\ Len(Append(c, b)) = Len(c) + 1 /\ Len(c) \in Nat
         /\ \A k \in DOMAIN Append(c, b) : Append(c, b)[k].last <= b.last
                                           /\ Append(c, b)[k].first <= b.first
         /\ \A m \in Nat : Covers(c, m) /\ b.first <= m + 1 => Covers(Append(c, b), b.last)
         /\ \A v, w \in Nat : HasWhole(c, v, w) => HasWhole(Append(c, b), v, w)
         /\ \A v, w \in Nat : b.first <= v /\ w <= b.last => HasWhole(Append(c, b), v, w)
<1> DEFINE d == Append(c, b)
<1>1. c \in Seq(Chunk)
  BY DEF InOrder
<1>2. /\ Len(c) \in Nat /\ d \in Seq(Chunk) /\ Len(d) = Len(c) + 1
      /\ DOMAIN c = 1..Len(c) /\ DOMAIN d = 1..(Len(c) + 1)
      /\ d[Len(c) + 1] = b
      /\ \A k \in 1..Len(c) : d[k] = c[k]
  BY <1>1
<1> HIDE DEF d
<1>3. \A k \in 1..(Len(c) + 1) : k \in 1..Len(c) \/ k = Len(c) + 1
  BY <1>2
<1>4. /\ \A k \in 1..Len(c) : c[k].first \in Nat /\ c[k].last \in Nat
      /\ b.first \in Nat /\ b.last \in Nat
  <2>1. \A k \in 1..Len(c) : c[k] \in Chunk
    BY <1>1, <1>2
  <2> QED
    BY <2>1 DEF Chunk
<1>5. \A k \in DOMAIN d : d[k].first >= 1 /\ d[k].last - d[k].first \in 0..n - 1
  BY <1>2, <1>3 DEF InOrder
<1>6. ASSUME NEW j \in DOMAIN d, NEW k \in DOMAIN d, j < k
      PROVE  d[j].first < d[k].first /\ d[j].last < d[k].last
  <2>1. j \in 1..Len(c)
    BY <1>2, <1>6
  <2>2. CASE k \in 1..Len(c)
    BY <1>2, <1>6, <2>1, <2>2 DEF InOrder
  <2>3. CASE k = Len(c) + 1
    BY <1>2, <2>1, <2>3
  <2> QED
    BY <1>2, <1>3, <2>2, <2>3
<1>7. InOrder(d, n)
  BY <1>2, <1>5, <1>6 DEF InOrder
<1>8. \A k \in DOMAIN d : d[k].last <= b.last /\ d[k].first <= b.first
  BY <1>2, <1>3, <1>4
<1>9. ASSUME NEW m \in Nat, Covers(c, m), b.first <= m + 1 PROVE Covers(d, b.last)
  <2> SUFFICES ASSUME NEW w \in 1..b.last PROVE \E k \in DOMAIN d : w \in d[k].first..d[k].last
    BY DEF Covers
  <2>1. CASE w <= m
    <3>1. PICK k \in DOMAIN c : w \in c[k].first..c[k].last
      BY <1>9, <2>1 DEF Covers
    <3> QED
      BY <1>2, <3>1
  <2>2. CASE w > m
    BY <1>2, <1>4, <1>9, <2>2
  <2> QED
    BY <1>4, <1>9, <2>1, <2>2
<1>10. /\ \A v, w \in Nat : HasWhole(c, v, w) => HasWhole(d, v, w)
       /\ \A v, w \in Nat : b.first <= v /\ w <= b.last => HasWhole(d, v, w)
  BY <1>2 DEF HasWhole
<1> QED
  BY <1>2, <1>7, <1>8, <1>9, <1>10 DEF d

\* With the current chunk, the chunks reach up to the next paragraph.
LEMMA FlushedIs ==
  ASSUME CutInv, cut.pc = "packing"
  PROVE  /\ InOrder(Chunks!Flushed, cut.target)
         /\ \A k \in DOMAIN Chunks!Flushed : Chunks!Flushed[k].last <= Chunks!Words
         /\ Len(Chunks!Flushed) \in Nat /\ Len(Chunks!Flushed) <= Chunks!Words
         /\ cut.overlap >= 0 => Covers(Chunks!Flushed, Chunks!Words)
         /\ \A p \in 1..cut.next - 1 : FitsWhole(Chunks!Flushed, p)
<1> DEFINE W == Chunks!Words
           c == cut.chunks
<1>1. /\ cut \in CutRecord /\ cut.next \in Nat \ {0} /\ cut.current \in Nat /\ c \in Seq(Chunk)
      /\ cut.next <= Len(cut.text) + 1 /\ cut.current <= W /\ cut.current <= cut.target
      /\ InOrder(c, cut.target)
      /\ \A k \in DOMAIN c : c[k].last <= W - cut.current
      /\ Len(c) <= W - cut.current
      /\ cut.overlap >= 0 => Covers(c, W - cut.current)
  BY DEF CutInv, CutRecord
<1>2. \A p \in 1..cut.next - 1 : W - cut.current <= Chunks!WordsBy(cut.text, p - 1) \/ FitsWhole(c, p)
  BY DEF CutInv
<1>3. W \in Nat /\ W - cut.current \in Nat /\ cut.target \in Nat \ {0}
  <2>1. cut.next - 1 \in 0..Len(cut.text)
    BY <1>1, TextIs
  <2> QED
    BY <1>1, <2>1, TextIs DEF Chunks!Words
<1>4. ASSUME NEW p \in 1..cut.next - 1
      PROVE  /\ Chunks!WordsBy(cut.text, p - 1) \in Nat /\ Chunks!WordsBy(cut.text, p) \in Nat
             /\ Chunks!WordsBy(cut.text, p - 1) < Chunks!WordsBy(cut.text, p) /\ Chunks!WordsBy(cut.text, p) <= W
  <2>1. p - 1 \in 0..Len(cut.text) /\ p \in 0..Len(cut.text) /\ cut.next - 1 \in 0..Len(cut.text)
    BY <1>1, TextIs
  <2>2. p = cut.next - 1 \/ p < cut.next - 1
    BY <1>1
  <2> QED
    BY <1>1, <2>1, <2>2, TextIs DEF Chunks!Words
<1>5. Len(c) \in Nat /\ \A k \in DOMAIN c : c[k].first \in Nat /\ c[k].last \in Nat
  <2>1. Len(c) \in Nat /\ \A k \in DOMAIN c : c[k] \in Chunk
    BY <1>1
  <2> QED
    BY <2>1 DEF Chunk
<1>6. CASE cut.current = 0
  <2>1. Chunks!Flushed = c /\ W - cut.current = W
    BY <1>3, <1>6 DEF Chunks!Flushed
  <2>2. \A p \in 1..cut.next - 1 : FitsWhole(c, p)
    BY <1>2, <1>3, <1>4, <2>1
  <2> QED
    BY <1>1, <1>5, <2>1, <2>2
<1>7. CASE cut.current # 0
  <2> DEFINE b == [first |-> W - cut.current + 1, last |-> W]
             d == Append(c, b)
  <2>1. Chunks!Flushed = d
    BY <1>7 DEF Chunks!Flushed
  <2>2. /\ b.first = W - cut.current + 1 /\ b.last = W
        /\ b.first \in Nat /\ b.last \in Nat
    BY <1>3
  <2>3. b \in Chunk
    BY <2>2 DEF Chunk
  <2> HIDE DEF b
  <2>4. b.first >= 1 /\ b.last - b.first \in 0..cut.target - 1
    BY <1>1, <1>3, <1>7, <2>2
  <2>5. ASSUME NEW k \in DOMAIN c PROVE c[k].first < b.first /\ c[k].last < b.last
    <3>1. c[k].last <= W - cut.current /\ c[k].last - c[k].first \in 0..cut.target - 1
      BY <1>1 DEF InOrder
    <3>2. c[k].first \in Nat /\ c[k].last \in Nat
      BY <1>5
    <3> HIDE DEF c, W
    <3>3. W \in Nat /\ cut.current \in Nat \ {0} /\ cut.target \in Nat
      BY <1>1, <1>3, <1>7
    <3> QED
      BY <2>2, <3>1, <3>2, <3>3
  <2>6. /\ InOrder(d, cut.target) /\ Len(d) = Len(c) + 1
        /\ \A k \in DOMAIN d : d[k].last <= b.last
        /\ \A m \in Nat : Covers(c, m) /\ b.first <= m + 1 => Covers(d, b.last)
        /\ \A v, w \in Nat : HasWhole(c, v, w) => HasWhole(d, v, w)
        /\ \A v, w \in Nat : b.first <= v /\ w <= b.last => HasWhole(d, v, w)
    BY <1>1, <1>3, <2>3, <2>4, <2>5, ChunkAdded
  <2> HIDE DEF d
  <2>7. cut.overlap >= 0 => Covers(d, W)
    BY <1>1, <1>3, <2>2, <2>6
  <2>8. ASSUME NEW p \in 1..cut.next - 1 PROVE FitsWhole(d, p)
    <3>1. Chunks!WordsBy(cut.text, p - 1) + 1 \in Nat /\ Chunks!WordsBy(cut.text, p) \in Nat
      BY <1>4
    <3>2. CASE W - cut.current <= Chunks!WordsBy(cut.text, p - 1)
      BY <1>3, <1>4, <2>2, <2>6, <3>1, <3>2 DEF FitsWhole
    <3>3. CASE FitsWhole(c, p)
      BY <2>6, <3>1, <3>3 DEF FitsWhole
    <3> QED
      BY <1>2, <3>2, <3>3
  <2> QED
    BY <1>1, <1>3, <1>5, <1>7, <2>1, <2>2, <2>6, <2>7, <2>8
<1> QED
  BY <1>6, <1>7

\* The numbers that a step compares.
LEMMA CutNumbers ==
  ASSUME CutInv
  PROVE  /\ cut.next \in Nat \ {0} /\ cut.current \in Nat /\ cut.start \in Nat
         /\ cut.target \in Nat \ {0} /\ cut.overlap \in Int
         /\ Len(cut.text) \in Nat /\ cut.next - 1 \in 0..Len(cut.text)
         /\ Chunks!Words \in Nat
         /\ Len(cut.chunks) \in Nat
         /\ \A k \in DOMAIN cut.chunks :
              cut.chunks[k].first \in Nat /\ cut.chunks[k].last \in Nat
         /\ cut.next <= Len(cut.text) =>
              /\ Chunks!Paragraph \in Nat \ {0}
              /\ Chunks!WordsBy(cut.text, cut.next) = Chunks!Words + Chunks!Paragraph
<1>1. cut \in CutRecord /\ cut.next <= Len(cut.text) + 1
  BY DEF CutInv
<1>2. /\ cut.next \in Nat \ {0} /\ cut.current \in Nat /\ cut.start \in Nat
      /\ cut.chunks \in Seq(Chunk)
  BY <1>1 DEF CutRecord
<1>3. /\ cut.target \in Nat \ {0} /\ cut.overlap \in Int
      /\ Len(cut.text) \in Nat /\ cut.next - 1 \in 0..Len(cut.text)
  BY <1>1, <1>2, TextIs
<1>4. Chunks!Words \in Nat
  BY <1>1, <1>3, TextIs DEF Chunks!Words
<1>5. /\ Len(cut.chunks) \in Nat
      /\ \A k \in DOMAIN cut.chunks : cut.chunks[k] \in Chunk
  BY <1>2
<1>6. ASSUME cut.next <= Len(cut.text)
      PROVE  /\ Chunks!Paragraph \in Nat \ {0}
             /\ Chunks!WordsBy(cut.text, cut.next) = Chunks!Words + Chunks!Paragraph
  <2>1. cut.next \in 0..Len(cut.text) /\ cut.next - 1 < cut.next
    BY <1>2, <1>3, <1>6
  <2>2. /\ Chunks!WordsBy(cut.text, cut.next) \in Nat
        /\ Chunks!WordsBy(cut.text, cut.next - 1) < Chunks!WordsBy(cut.text, cut.next)
    BY <1>1, <1>3, <2>1, TextIs
  <2> QED
    BY <1>4, <2>2 DEF Chunks!Paragraph, Chunks!Words
<1> QED
  BY <1>2, <1>3, <1>4, <1>5, <1>6 DEF Chunk

\* Before the first paragraph there is no chunk, and nothing to cover.
LEMMA CutInit == ASSUME Chunks!Init PROVE CutInv
<1>1. PICK text \in Texts, target \in Targets, overlap \in Overlaps :
        cut = [pc |-> "packing", text |-> text, target |-> target, overlap |-> overlap,
               next |-> 1, current |-> 0, start |-> 0, chunks |-> <<>>]
  BY DEF Chunks!Init
<1>2. /\ cut.pc = "packing" /\ cut.text = text /\ cut.target = target
      /\ cut.overlap = overlap /\ cut.next = 1 /\ cut.current = 0 /\ cut.start = 0
      /\ cut.chunks = <<>>
  BY <1>1
<1>3. cut \in CutRecord
  BY <1>1 DEF CutRecord
<1>4. Chunks!Words = 0 /\ cut.target \in Nat /\ Len(cut.text) \in Nat
  BY <1>2, <1>3, TextIs DEF Chunks!Words, Chunks!WordsBy
<1>5. InOrder(cut.chunks, cut.target)
  BY <1>2 DEF InOrder
<1>6. Covers(cut.chunks, 0) /\ DOMAIN cut.chunks = {} /\ Len(cut.chunks) = 0
  BY <1>2 DEF Covers
<1> QED
  BY <1>2, <1>3, <1>4, <1>5, <1>6 DEF CutInv

\* A paragraph is packed, with or without a chunk that is finished before it.
LEMMA CutPacks ==
  ASSUME CutInv, Chunks!PackParagraph
  PROVE  CutInv'
<1> DEFINE W == Chunks!Words
           P == Chunks!Paragraph
           c == cut.chunks
           f == cut.current + P <= cut.target
           n == cut.next + 1
           u == IF f THEN cut.current + P ELSE P
           d == IF f THEN c ELSE Chunks!Flushed
<1>1. /\ cut \in CutRecord /\ cut.pc = "packing" /\ cut.next <= Len(cut.text)
      /\ P <= cut.target
      /\ cut' = [cut EXCEPT !.next = n, !.current = u, !.chunks = d]
  BY DEF CutInv, Chunks!PackParagraph, Chunks!MoreParagraphs
<1>2. /\ W \in Nat /\ P \in Nat \ {0} /\ cut.current \in Nat /\ cut.target \in Nat \ {0}
      /\ cut.next \in Nat \ {0} /\ Chunks!WordsBy(cut.text, cut.next) = W + P /\ Len(cut.text) \in Nat
      /\ cut.current <= W
  BY <1>1, CutNumbers DEF CutInv
<1>3. n \in Nat \ {0} /\ n <= Len(cut.text) + 1 /\ u \in Nat /\ u <= cut.target /\ u <= W + P
      /\ W + P - u \in Nat
  <2>1. n \in Nat \ {0} /\ n <= Len(cut.text) + 1
    BY <1>1, <1>2
  <2>2. u \in Nat /\ u <= cut.target /\ u <= W + P
    <3>1. CASE f
      BY <1>1, <1>2, <3>1
    <3>2. CASE ~f
      BY <1>1, <1>2, <3>2
    <3> QED
      BY <3>1, <3>2
  <2> HIDE DEF W, P, u
  <2> QED
    BY <1>2, <2>1, <2>2
<1>4. InOrder(d, cut.target)
  BY <1>1, FlushedIs DEF CutInv
<1>5. /\ \A k \in DOMAIN d : d[k].last <= W + P - u
      /\ Len(d) <= W + P - u
      /\ cut.overlap >= 0 => Covers(d, W + P - u)
  <2>1. CASE f
    <3>1. W + P - u = W - cut.current
      BY <1>2, <2>1
    <3> QED
      BY <1>1, <2>1, <3>1 DEF CutInv
  <2>2. CASE ~f
    <3>1. W + P - u = W
      BY <1>2, <2>2
    <3> QED
      BY <1>1, <2>2, <3>1, FlushedIs
  <2> QED
    BY <2>1, <2>2
<1>6. ASSUME NEW p \in 1..n - 1
      PROVE  W + P - u <= Chunks!WordsBy(cut.text, p - 1) \/ FitsWhole(d, p)
  <2>1. CASE p = cut.next
    <3>1. W = Chunks!WordsBy(cut.text, p - 1) /\ W + P - u <= W
      BY <1>2, <2>1 DEF Chunks!Words
    <3> QED
      BY <3>1
  <2>2. CASE p # cut.next
    <3>1. p \in 1..cut.next - 1
      BY <1>2, <2>2
    <3>2. CASE f
      <4>1. W + P - u = W - cut.current
        BY <1>2, <3>2
      <4> QED
        BY <3>1, <3>2, <4>1 DEF CutInv
    <3>3. CASE ~f
      BY <1>1, <3>1, <3>3, FlushedIs
    <3> QED
      BY <3>2, <3>3
  <2> QED
    BY <2>1, <2>2
<1>7. cut.start = 0 /\ d \in Seq(Chunk)
  BY <1>1, <1>4 DEF CutInv, InOrder
<1> HIDE DEF n, u, d
<1>8. /\ cut'.pc = "packing" /\ cut'.text = cut.text /\ cut'.target = cut.target
      /\ cut'.overlap = cut.overlap /\ cut'.next = n /\ cut'.current = u
      /\ cut'.start = cut.start /\ cut'.chunks = d
  BY <1>1 DEF CutRecord
<1>9. cut' \in CutRecord
  <2> DEFINE v == [cut EXCEPT !.next = n, !.current = u]
  <2>1. v \in CutRecord
    BY <1>1, <1>3 DEF CutRecord
  <2>2. cut' = [v EXCEPT !.chunks = d]
    BY <1>1
  <2> HIDE DEF v
  <2> QED
    BY <1>7, <2>1, <2>2 DEF CutRecord
<1>10. Chunks!Words' = W + P
  <2>1. n - 1 = cut.next
    BY <1>2 DEF n
  <2> QED
    BY <1>2, <1>8, <2>1 DEF Chunks!Words, Chunks!WordsBy
<1> HIDE DEF W, P
<1>11. (cut.next <= Len(cut.text) + 1)' /\ (cut.current <= cut.target)'
       /\ (cut.current <= Chunks!Words)' /\ InOrder(cut.chunks, cut.target)'
  BY <1>3, <1>4, <1>8, <1>10
<1> DEFINE left == W + P - u
<1>12. Chunks!Words' - cut'.current = left
  BY <1>2, <1>3, <1>8, <1>10
<1>13. /\ \A k \in DOMAIN d : d[k].last <= left
       /\ Len(d) <= left
       /\ cut.overlap >= 0 => Covers(d, left)
  BY <1>5 DEF left
<1>14. \A p \in 1..n - 1 : left <= Chunks!WordsBy(cut.text, p - 1) \/ FitsWhole(d, p)
  BY <1>6 DEF left
<1> HIDE DEF left
<1>15. /\ (cut.start = 0)'
       /\ (\A k \in DOMAIN cut.chunks : cut.chunks[k].last <= Chunks!Words - cut.current)'
       /\ (Len(cut.chunks) <= Chunks!Words - cut.current)'
       /\ (cut.overlap >= 0 => Covers(cut.chunks, Chunks!Words - cut.current))'
  <2>1. (cut.start = 0)' /\ (Len(cut.chunks) <= Chunks!Words - cut.current)'
    BY <1>7, <1>8, <1>12, <1>13
  <2>2. (\A k \in DOMAIN cut.chunks : cut.chunks[k].last <= Chunks!Words - cut.current)'
    BY <1>8, <1>12, <1>13
  <2>3. (cut.overlap >= 0 => Covers(cut.chunks, Chunks!Words - cut.current))'
    BY <1>8, <1>12, <1>13
  <2> QED
    BY <2>1, <2>2, <2>3
<1>16. (\A p \in 1..cut.next - 1 :
          Chunks!Words - cut.current <= Chunks!WordsBy(cut.text, p - 1)
          \/ FitsWhole(cut.chunks, p))'
  BY <1>8, <1>12, <1>14 DEF FitsWhole
<1> QED
  BY <1>8, <1>9, <1>11, <1>15, <1>16 DEF CutInv

\* The current chunk is finished, and the next paragraph, or nothing, is up.
LEMMA CutFlushes ==
  ASSUME CutInv, Chunks!OpenWindows \/ Chunks!Return
  PROVE  CutInv'
<1> DEFINE W == Chunks!Words
           d == Chunks!Flushed
           p == IF Chunks!OpenWindows THEN "sliding" ELSE "done"
<1>1. /\ cut \in CutRecord /\ cut.pc = "packing" /\ cut.start = 0
      /\ cut' = [cut EXCEPT !.pc = p, !.current = 0, !.chunks = d]
      /\ p = "sliding" => cut.next <= Len(cut.text) /\ cut.target < Chunks!Paragraph
      /\ p = "done" => cut.next > Len(cut.text)
      /\ cut.next <= Len(cut.text) + 1
  <2>1. cut \in CutRecord /\ cut.pc = "packing" /\ cut.start = 0 /\ cut.next <= Len(cut.text) + 1
    BY DEF CutInv, Chunks!OpenWindows, Chunks!Return
  <2>2. [cut EXCEPT !.pc = "sliding", !.start = 0, !.current = 0, !.chunks = d]
          = [cut EXCEPT !.pc = "sliding", !.current = 0, !.chunks = d]
    BY <2>1 DEF CutRecord
  <2>3. CASE Chunks!OpenWindows
    <3>1. cut' = [cut EXCEPT !.pc = p, !.current = 0, !.chunks = d]
      BY <2>2, <2>3 DEF Chunks!OpenWindows
    <3>2. p = "sliding" /\ cut.next <= Len(cut.text) /\ Chunks!Paragraph > cut.target
      BY <2>3 DEF Chunks!OpenWindows, Chunks!MoreParagraphs
    <3>3. cut.target < Chunks!Paragraph
      BY <3>2, CutNumbers
    <3> QED
      BY <2>1, <3>1, <3>2, <3>3
  <2>4. CASE ~Chunks!OpenWindows
    <3>1. Chunks!Return /\ p = "done"
      BY <2>4
    <3>2. cut' = [cut EXCEPT !.pc = p, !.current = 0, !.chunks = d] /\ ~(cut.next <= Len(cut.text))
      BY <3>1 DEF Chunks!Return, Chunks!MoreParagraphs
    <3>3. cut.next > Len(cut.text)
      BY <3>2, CutNumbers
    <3> QED
      BY <2>1, <3>1, <3>2, <3>3
  <2> QED
    BY <2>3, <2>4
<1>2. /\ W \in Nat /\ cut.next \in Nat \ {0} /\ Len(cut.text) \in Nat
      /\ cut.target \in Nat \ {0}
      /\ cut.next <= Len(cut.text) => Chunks!Paragraph \in Nat \ {0}
  BY CutNumbers
<1>3. /\ InOrder(d, cut.target)
      /\ \A k \in DOMAIN d : d[k].last <= W
      /\ Len(d) \in Nat /\ Len(d) <= W
      /\ cut.overlap >= 0 => Covers(d, W)
      /\ \A q \in 1..cut.next - 1 : FitsWhole(d, q)
  BY <1>1, FlushedIs
<1>4. d \in Seq(Chunk)
  BY <1>3 DEF InOrder
<1>5. ASSUME NEW k \in DOMAIN d
      PROVE  /\ d[k].first \in Nat /\ d[k].last \in Nat
             /\ d[k].first <= d[k].last
  <2>1. d[k] \in Chunk /\ d[k].last - d[k].first \in 0..cut.target - 1
    BY <1>3, <1>4 DEF InOrder
  <2> QED
    BY <1>2, <2>1 DEF Chunk
<1>6. p \in {"sliding", "done"}
  OBVIOUS
<1> HIDE DEF d, p
<1>7. /\ cut'.pc = p /\ cut'.text = cut.text /\ cut'.target = cut.target
      /\ cut'.overlap = cut.overlap /\ cut'.next = cut.next /\ cut'.current = 0
      /\ cut'.start = 0 /\ cut'.chunks = d
  BY <1>1 DEF CutRecord
<1>8. cut' \in CutRecord
  <2> DEFINE v == [cut EXCEPT !.pc = p, !.current = 0]
  <2>1. v \in CutRecord
    BY <1>1, <1>6 DEF CutRecord
  <2>2. cut' = [v EXCEPT !.chunks = d]
    BY <1>1
  <2> HIDE DEF v
  <2> QED
    BY <1>4, <2>1, <2>2 DEF CutRecord
<1>9. Chunks!Words' = W /\ Chunks!Paragraph' = Chunks!Paragraph
  BY <1>7 DEF Chunks!Words, Chunks!Paragraph
<1> HIDE DEF W
<1>10. W - 0 = W /\ W + 0 = W
  BY <1>2
<1>11. (\A q \in 1..cut.next - 1 :
          Chunks!Words - cut.current <= Chunks!WordsBy(cut.text, q - 1)
          \/ FitsWhole(cut.chunks, q))'
  BY <1>3, <1>7 DEF FitsWhole
<1>12. (cut.next <= Len(cut.text) + 1)' /\ (cut.current <= cut.target)'
       /\ (cut.current <= Chunks!Words)' /\ InOrder(cut.chunks, cut.target)'
  BY <1>1, <1>2, <1>3, <1>7, <1>9
<1>13. CASE p = "sliding"
  <2>1. (/\ cut.current = 0 /\ cut.next <= Len(cut.text)
         /\ cut.target < Chunks!Paragraph /\ cut.start < Chunks!Paragraph)'
    BY <1>1, <1>2, <1>7, <1>9, <1>13
  <2>2. ASSUME NEW k \in DOMAIN d
        PROVE  /\ d[k].first <= W + 0
               /\ d[k].last < W + 0 + cut.target
               /\ d[k].last < W + Chunks!Paragraph
    BY <1>1, <1>2, <1>3, <1>5, <1>13
  <2>3. (\A k \in DOMAIN cut.chunks :
           /\ cut.chunks[k].first <= Chunks!Words + cut.start
           /\ cut.chunks[k].last < Chunks!Words + cut.start + cut.target
           /\ cut.chunks[k].last < Chunks!Words + Chunks!Paragraph)'
    BY <1>7, <1>9, <2>2
  <2>4. (/\ Len(cut.chunks) <= Chunks!Words + cut.start
         /\ cut.overlap >= 0 => Covers(cut.chunks, Chunks!Words + cut.start))'
    BY <1>3, <1>7, <1>9, <1>10
  <2> QED
    BY <1>7, <1>8, <1>11, <1>12, <1>13, <2>1, <2>3, <2>4 DEF CutInv
<1>14. CASE p = "done"
  <2>1. (cut.next = Len(cut.text) + 1)'
    BY <1>1, <1>2, <1>7, <1>14
  <2>2. (/\ \A k \in DOMAIN cut.chunks : cut.chunks[k].last <= Chunks!Words - cut.current
         /\ Len(cut.chunks) <= Chunks!Words - cut.current
         /\ cut.overlap >= 0 => Covers(cut.chunks, Chunks!Words - cut.current))'
    BY <1>3, <1>7, <1>9, <1>10
  <2> QED
    BY <1>7, <1>8, <1>11, <1>12, <1>14, <2>1, <2>2 DEF CutInv
<1> QED
  BY <1>6, <1>13, <1>14

\* A window is cut off, and the next one is further on, or the next paragraph.
LEMMA CutSlides ==
  ASSUME CutInv, Chunks!CutWindow
  PROVE  CutInv'
<1> DEFINE W == Chunks!Words
           P == Chunks!Paragraph
           T == cut.target
           c == cut.chunks
           s == cut.start
           step == Chunks!WindowStep
           end == s + T
           later == s + step
           last == W + (IF end < P THEN end ELSE P)
           b == [first |-> W + s + 1, last |-> last]
           d == Append(c, b)
<1>1. /\ cut \in CutRecord /\ cut.pc = "sliding" /\ cut.next <= Len(cut.text)
      /\ cut.current = 0 /\ T < P /\ s < P
      /\ \A k \in DOMAIN c : /\ c[k].first <= W + s
                             /\ c[k].last < W + end
                             /\ c[k].last < W + P
      /\ Len(c) <= W + s
      /\ cut.overlap >= 0 => Covers(c, W + s)
      /\ InOrder(c, T)
      /\ \A p \in 1..cut.next - 1 : W - 0 <= Chunks!WordsBy(cut.text, p - 1) \/ FitsWhole(c, p)
  <2>1. cut.pc = "sliding"
    BY DEF Chunks!CutWindow
  <2>2. W + s + T = W + end
    BY CutNumbers
  <2> QED
    BY <2>1, <2>2 DEF CutInv
<1>2. /\ W \in Nat /\ P \in Nat \ {0} /\ T \in Nat \ {0} /\ s \in Nat
      /\ cut.overlap \in Int /\ cut.next \in Nat \ {0} /\ Len(cut.text) \in Nat
      /\ Chunks!WordsBy(cut.text, cut.next) = W + P
      /\ Len(c) \in Nat /\ \A k \in DOMAIN c : c[k].first \in Nat /\ c[k].last \in Nat
  BY <1>1, CutNumbers
<1>3. step \in Nat \ {0} /\ (cut.overlap >= 0 => step <= T)
  BY <1>2 DEF Chunks!WindowStep
<1> HIDE DEF step, W, P, T, c, s
<1>4. /\ later \in Nat /\ s + 1 <= later
      /\ cut.overlap >= 0 => later <= end
      /\ end \in Nat /\ s + 1 <= end /\ end = s + T
      /\ last \in Nat /\ last <= W + P /\ last <= W + end /\ W + s + 1 <= last
      /\ end < P => last = W + end
      /\ ~(end < P) => last = W + P
  <2>1. /\ later \in Nat /\ s + 1 <= later
        /\ cut.overlap >= 0 => later <= end
        /\ end \in Nat /\ s + 1 <= end /\ end = s + T
    BY <1>1, <1>2, <1>3
  <2> HIDE DEF later, end
  <2>2. /\ end < P => last = W + end
        /\ ~(end < P) => last = W + P
    OBVIOUS
  <2> HIDE DEF last
  <2>3. W \in Nat /\ P \in Nat /\ s \in Nat /\ s < P
    BY <1>1, <1>2
  <2>4. end \in Nat /\ s + 1 <= end
    BY <2>1
  <2>5. last \in Nat /\ last <= W + P /\ last <= W + end /\ W + s + 1 <= last
    <3> HIDE DEF end
    <3> QED
      BY <2>2, <2>3, <2>4
  <2> QED
    BY <2>1, <2>2, <2>5
<1>5. /\ b \in Chunk /\ b.first = W + s + 1 /\ b.last = last
  BY <1>2, <1>4 DEF Chunk
<1> HIDE DEF b, last, later, end, d
<1>6. b.first >= 1 /\ b.last - b.first \in 0..T - 1
  <2>1. /\ W \in Nat /\ s \in Nat /\ T \in Nat /\ last \in Nat
        /\ W + s + 1 <= last /\ last <= W + (s + T)
    BY <1>2, <1>4
  <2> QED
    BY <1>5, <2>1
<1>7. \A k \in DOMAIN c : c[k].first < b.first /\ c[k].last < b.last
  <2> SUFFICES ASSUME NEW k \in DOMAIN c PROVE c[k].first < b.first /\ c[k].last < b.last
    OBVIOUS
  <2>1. /\ c[k].first <= W + s /\ c[k].last < W + end /\ c[k].last < W + P
        /\ c[k].first \in Nat /\ c[k].last \in Nat
    BY <1>1, <1>2
  <2> QED
    BY <1>2, <1>4, <1>5, <2>1
<1>8. /\ InOrder(d, T) /\ Len(d) = Len(c) + 1
      /\ \A k \in DOMAIN d : d[k].last <= b.last /\ d[k].first <= b.first
      /\ \A m \in Nat : Covers(c, m) /\ b.first <= m + 1 => Covers(d, b.last)
      /\ \A v, w \in Nat : HasWhole(c, v, w) => HasWhole(d, v, w)
  BY <1>1, <1>2, <1>5, <1>6, <1>7, ChunkAdded DEF d
<1>9. cut.overlap >= 0 => Covers(d, last)
  <2>1. W + s \in Nat /\ b.first <= (W + s) + 1
    BY <1>2, <1>4, <1>5
  <2> QED
    BY <1>1, <1>5, <1>8, <2>1
<1>10. d \in Seq(Chunk) /\ \A k \in DOMAIN d : d[k].first \in Nat /\ d[k].last \in Nat
  <2>1. d \in Seq(Chunk)
    BY <1>8 DEF InOrder
  <2>2. \A k \in DOMAIN d : d[k] \in Chunk
    BY <2>1
  <2> QED
    BY <2>1, <2>2 DEF Chunk
<1>11. ASSUME NEW p \in 1..cut.next - 1 PROVE FitsWhole(d, p)
  <2>1. p - 1 \in 0..Len(cut.text) /\ p \in 0..Len(cut.text) /\ p - 1 < p
        /\ (p < cut.next - 1 \/ p = cut.next - 1) /\ cut.next - 1 \in 0..Len(cut.text)
    <3>1. cut.next \in Nat /\ Len(cut.text) \in Nat /\ cut.next <= Len(cut.text)
      BY <1>1, <1>2
    <3> QED
      BY <3>1
  <2>2. /\ Chunks!WordsBy(cut.text, p - 1) \in Nat /\ Chunks!WordsBy(cut.text, p) \in Nat
        /\ Chunks!WordsBy(cut.text, p - 1) < Chunks!WordsBy(cut.text, p)
        /\ Chunks!WordsBy(cut.text, p) <= W
    BY <1>1, <2>1, TextIs DEF W, Chunks!Words
  <2>3. FitsWhole(c, p)
    BY <1>1, <1>2, <2>2
  <2>4. Chunks!WordsBy(cut.text, p - 1) + 1 \in Nat
    BY <2>2
  <2> QED
    BY <1>8, <2>2, <2>3, <2>4 DEF FitsWhole
<1> DEFINE here == [cut EXCEPT !.chunks = d]
<1>12. here \in CutRecord /\ here.next = cut.next
  BY <1>1, <1>10 DEF CutRecord
<1>13. \/ (end < P /\ later < P) /\ cut' = [here EXCEPT !.start = later]
       \/ ~(end < P /\ later < P)
          /\ cut' = [here EXCEPT !.pc = "packing", !.start = 0, !.next = cut.next + 1]
  <2>1. Append(cut.chunks, [first |-> Chunks!Words + cut.start + 1,
                            last |-> Chunks!Words + IF cut.start + cut.target < Chunks!Paragraph
                                                    THEN cut.start + cut.target
                                                    ELSE Chunks!Paragraph]) = d
    BY DEF d, b, last, end, W, P, T, c, s
  <2>2. cut' = IF end < P /\ later < P THEN [here EXCEPT !.start = later]
               ELSE [here EXCEPT !.pc = "packing", !.start = 0, !.next = here.next + 1]
    BY <2>1 DEF Chunks!CutWindow, end, later, P, T, s, step
  <2> QED
    BY <1>12, <2>2
<1>14. CASE (end < P /\ later < P) /\ cut' = [here EXCEPT !.start = later]
  <2>1. cut' \in CutRecord
    BY <1>4, <1>12, <1>14 DEF CutRecord
  <2>2. /\ cut'.pc = cut.pc /\ cut'.text = cut.text /\ cut'.target = T
        /\ cut'.overlap = cut.overlap /\ cut'.next = cut.next /\ cut'.current = cut.current
        /\ cut'.start = later /\ cut'.chunks = d
    BY <1>1, <1>14 DEF CutRecord, T
  <2>3. Chunks!Words' = W /\ Chunks!Paragraph' = P
    BY <2>2 DEF W, P, Chunks!Words, Chunks!Paragraph
  <2>4. ASSUME NEW k \in DOMAIN d
        PROVE  d[k].first <= W + later /\ d[k].last < W + later + T /\ d[k].last < W + P
    <3>1. /\ d[k].first \in Nat /\ d[k].last \in Nat
          /\ d[k].first <= W + s + 1 /\ d[k].last <= last
      BY <1>5, <1>8, <1>10
    <3>2. last = W + end /\ end = s + T /\ end < P
      BY <1>4, <1>14
    <3> QED
      BY <1>2, <1>4, <3>1, <3>2
  <2>5. Len(d) <= W + later
    BY <1>1, <1>2, <1>4, <1>8
  <2>6. cut.overlap >= 0 => Covers(d, W + later)
    <3> SUFFICES ASSUME cut.overlap >= 0 PROVE Covers(d, W + later)
      OBVIOUS
    <3>1. 1..(W + later) \subseteq 1..last
      BY <1>2, <1>4, <1>14
    <3> QED
      BY <1>9, <3>1 DEF Covers
  <2>7. (\A p \in 1..cut.next - 1 : FitsWhole(cut.chunks, p))'
    BY <1>11, <2>2 DEF FitsWhole, T
  <2>8. (/\ cut.next <= Len(cut.text) + 1 /\ cut.current <= cut.target
         /\ cut.current <= Chunks!Words /\ InOrder(cut.chunks, cut.target)
         /\ cut.current = 0 /\ cut.next <= Len(cut.text) /\ cut.pc = "sliding"
         /\ cut.target < Chunks!Paragraph /\ cut.start < Chunks!Paragraph)'
    BY <1>1, <1>2, <1>8, <1>14, <2>2, <2>3
  <2>9. (/\ \A k \in DOMAIN cut.chunks :
             /\ cut.chunks[k].first <= Chunks!Words + cut.start
             /\ cut.chunks[k].last < Chunks!Words + cut.start + cut.target
             /\ cut.chunks[k].last < Chunks!Words + Chunks!Paragraph
         /\ Len(cut.chunks) <= Chunks!Words + cut.start
         /\ cut.overlap >= 0 => Covers(cut.chunks, Chunks!Words + cut.start))'
    BY <2>2, <2>3, <2>4, <2>5, <2>6
  <2> QED
    BY <2>1, <2>7, <2>8, <2>9 DEF CutInv
<1>15. CASE ~(end < P /\ later < P)
            /\ cut' = [here EXCEPT !.pc = "packing", !.start = 0, !.next = cut.next + 1]
  <2> DEFINE n == cut.next + 1
  <2>1. n \in Nat \ {0} /\ cut' = [here EXCEPT !.pc = "packing", !.start = 0, !.next = n]
        /\ n - 1 = cut.next /\ n <= Len(cut.text) + 1
    BY <1>1, <1>2, <1>15
  <2> HIDE DEF n, here
  <2>2. /\ cut'.pc = "packing" /\ cut'.text = here.text /\ cut'.target = here.target
        /\ cut'.overlap = here.overlap /\ cut'.next = n /\ cut'.current = here.current
        /\ cut'.start = 0 /\ cut'.chunks = here.chunks
    BY <1>12, <2>1 DEF CutRecord
  <2>3. cut' \in CutRecord
    BY <1>12, <2>1 DEF CutRecord
  <2>4. /\ here.text = cut.text /\ here.target = cut.target /\ here.overlap = cut.overlap
        /\ here.current = 0 /\ here.chunks = d
    BY <1>1 DEF CutRecord, here
  <2>5. Chunks!Words' = W + P
    BY <1>2, <2>1, <2>2, <2>4 DEF Chunks!Words
  <2>6. W + P \in Nat /\ (W + P) - 0 = W + P
    BY <1>2
  <2>7. \A k \in DOMAIN d : d[k].last <= W + P
    BY <1>4, <1>5, <1>8, <1>10, <2>6
  <2>8. Len(d) <= W + P
    BY <1>1, <1>2, <1>4, <1>8
  <2>9. cut.overlap >= 0 => Covers(d, W + P)
    BY <1>2, <1>4, <1>9, <1>15
  <2>10. ASSUME NEW p \in 1..n - 1 PROVE FitsWhole(d, p)
    <3>1. CASE p = cut.next
      <4>1. Chunks!WordsBy(cut.text, p) - Chunks!WordsBy(cut.text, p - 1) = P
        BY <1>2, <3>1 DEF P, W, Chunks!Paragraph, Chunks!Words
      <4> QED
        BY <1>1, <1>2, <4>1 DEF FitsWhole, T, P
    <3>2. CASE p # cut.next
      <4>1. p \in 1..cut.next - 1
        BY <1>2, <2>1, <3>2
      <4> QED
        BY <1>11, <4>1
    <3> QED
      BY <3>1, <3>2
  <2>11. (\A p \in 1..cut.next - 1 : FitsWhole(cut.chunks, p))'
    BY <2>2, <2>4, <2>10 DEF FitsWhole
  <2>12. (/\ cut.next <= Len(cut.text) + 1 /\ cut.current <= cut.target
          /\ cut.current <= Chunks!Words /\ InOrder(cut.chunks, cut.target)
          /\ cut.pc = "packing" /\ cut.start = 0)'
    <3>1. cut'.target = T /\ 0 <= T /\ 0 <= W + P
      BY <1>2, <2>2, <2>4, <2>6 DEF T
    <3> QED
      BY <1>8, <2>1, <2>2, <2>4, <2>5, <3>1
  <2>13. (/\ \A k \in DOMAIN cut.chunks : cut.chunks[k].last <= Chunks!Words - cut.current
          /\ Len(cut.chunks) <= Chunks!Words - cut.current
          /\ cut.overlap >= 0 => Covers(cut.chunks, Chunks!Words - cut.current))'
    BY <2>2, <2>4, <2>5, <2>6, <2>7, <2>8, <2>9
  <2> QED
    BY <2>3, <2>11, <2>12, <2>13 DEF CutInv
<1> QED
  BY <1>13, <1>14, <1>15

\* Every step of chunk_text() keeps the invariant.
LEMMA CutNext == ASSUME CutInv, Chunks!Next \/ UNCHANGED cut PROVE CutInv'
<1>1. CASE UNCHANGED cut
  BY <1>1 DEF CutInv, FitsWhole, Chunks!Words, Chunks!Paragraph
<1> QED
  BY <1>1, CutPacks, CutFlushes, CutSlides DEF Chunks!Next

\* At the end, the chunks cover all the words.
LEMMA CutCovers == ASSUME CutInv PROVE Chunks!ChunksCoverTheText
<1> DEFINE c == cut.chunks
           n == Chunks!WordsBy(cut.text, Len(cut.text))
<1>1. /\ cut \in CutRecord /\ InOrder(c, cut.target)
      /\ cut.next - 1 \in 0..Len(cut.text) /\ Len(cut.text) \in Nat
      /\ Chunks!Words \in Nat /\ Len(c) \in Nat
      /\ cut.current \in Nat /\ cut.start \in Nat
  BY CutNumbers DEF CutInv
<1>2. n \in Nat /\ Chunks!Words <= n
  <2>1. Len(cut.text) \in 0..Len(cut.text)
    BY <1>1
  <2>2. cut.next - 1 = Len(cut.text) \/ cut.next - 1 < Len(cut.text)
    BY <1>1
  <2> QED
    BY <1>1, <2>1, <2>2, TextIs DEF Chunks!Words
<1>3. Len(c) <= n
  <2>1. CASE cut.pc = "sliding"
    <3>1. /\ Chunks!Paragraph \in Nat \ {0} /\ cut.start < Chunks!Paragraph
          /\ Chunks!WordsBy(cut.text, cut.next) = Chunks!Words + Chunks!Paragraph
          /\ Len(c) <= Chunks!Words + cut.start
          /\ cut.next <= Len(cut.text) /\ cut.next \in Nat \ {0}
      BY <2>1, CutNumbers DEF CutInv
    <3>2. Chunks!WordsBy(cut.text, cut.next) <= n
      <4>1. /\ cut.next \in 0..Len(cut.text) /\ Len(cut.text) \in 0..Len(cut.text)
            /\ cut.next = Len(cut.text) \/ cut.next < Len(cut.text)
        BY <1>1, <3>1
      <4>2. Chunks!WordsBy(cut.text, cut.next) \in Nat
        BY <1>1, <4>1, TextIs
      <4> QED
        BY <1>1, <1>2, <4>1, <4>2, TextIs
    <3> QED
      BY <1>1, <1>2, <3>1, <3>2
  <2>2. CASE cut.pc # "sliding"
    <3>1. Len(c) <= Chunks!Words - cut.current
      BY <2>2 DEF CutInv
    <3> QED
      BY <1>1, <1>2, <3>1
  <2> QED
    BY <2>1, <2>2
<1>4. /\ \A k \in DOMAIN c : c[k].last - c[k].first \in 0..cut.target - 1
      /\ \A j, k \in DOMAIN c : j < k => c[j].first < c[k].first /\ c[j].last < c[k].last
  BY <1>1 DEF InOrder
<1>5. ASSUME cut.pc = "done"
      PROVE  /\ cut.overlap >= 0 =>
                  \A w \in 1..n : \E k \in DOMAIN c : w \in c[k].first..c[k].last
             /\ \A p \in DOMAIN cut.text :
                  Chunks!WordsBy(cut.text, p) - Chunks!WordsBy(cut.text, p - 1) <= cut.target =>
                    \E k \in DOMAIN c : /\ c[k].first <= Chunks!WordsBy(cut.text, p - 1) + 1
                                        /\ Chunks!WordsBy(cut.text, p) <= c[k].last
  <2>1. cut.next = Len(cut.text) + 1 /\ cut.current = 0
    BY <1>5 DEF CutInv
  <2>2. Chunks!Words = n /\ Chunks!Words - cut.current = n /\ cut.next - 1 = Len(cut.text)
    BY <1>1, <1>2, <2>1 DEF Chunks!Words
  <2>3. cut.overlap >= 0 => Covers(c, n)
    BY <1>5, <2>2 DEF CutInv
  <2>4. ASSUME NEW p \in DOMAIN cut.text PROVE FitsWhole(c, p)
    <3>1. p \in 1..Len(cut.text)
      BY <1>1, ChunksAssumption DEF CutRecord, Chunks!Assumptions
    <3>2. /\ p - 1 \in 0..Len(cut.text) /\ Len(cut.text) \in 0..Len(cut.text)
          /\ p - 1 < Len(cut.text)
      BY <1>1, <3>1
    <3>3. Chunks!WordsBy(cut.text, p - 1) < n /\ Chunks!WordsBy(cut.text, p - 1) \in Nat
      BY <1>1, <3>2, TextIs
    <3>4. n <= Chunks!WordsBy(cut.text, p - 1) \/ FitsWhole(c, p)
      BY <2>2, <3>1 DEF CutInv
    <3> QED
      BY <1>2, <3>3, <3>4
  <2> QED
    BY <2>3, <2>4 DEF Covers, FitsWhole, HasWhole
<1> QED
  BY <1>3, <1>4, <1>5 DEF Chunks!ChunksCoverTheText

\* chunk_text(), for every text, target and overlap: the chunks are in order and none
\* is longer than the target, there are no more of them than words, together they are
\* the text, and a paragraph that fits is in one piece.
THEOREM ChunksAreTheText == ViewsSpec => []ChunksCoverTheText
<1>1. ViewsInit => CutInv
  BY CutInit DEF ViewsInit
<1>2. CutInv /\ [ViewsNext]_<<view, vars, feedVars, cutVars, pollVars>> => CutInv'
  BY CutNext DEF ViewsNext, cutVars
<1>3. CutInv => ChunksCoverTheText
  BY CutCovers DEF ChunksCoverTheText
<1> QED
  BY <1>1, <1>2, <1>3, PTL DEF ViewsSpec

-----------------------------------------------------------------------------
(* Following a triggered run. Every answer on its way, and the one shown,   *)
(* is true of the runs: over only if the run is, and of no older run than   *)
(* the trigger's own.                                                      *)

\* The greatest of some numbers up to a bound.
LEMMA GreatestIs ==
  ASSUME NEW n \in Nat, NEW T \in SUBSET (0..n), T # {}
  PROVE  Polling!Max(T) \in T /\ \A y \in T : y <= Polling!Max(T)
<1> DEFINE D == {n - x : x \in T}
<1>1. D \in SUBSET Nat /\ D # {}
  <2>1. \A x \in T : x \in 0..n /\ n - x \in Nat
    OBVIOUS
  <2> QED
    BY <2>1
<1> HIDE DEF D
<1>2. PICK d \in D : \A y \in D : ~(<<y, d>> \in OpToRel(<, Nat))
  BY <1>1, NatLessThanWellFounded, WFMin
<1>3. PICK x \in T : d = n - x
  BY DEF D
<1>4. ASSUME NEW y \in T PROVE y <= x
  <2>1. n - y \in D /\ n - y \in Nat /\ d \in Nat
    BY <1>1 DEF D
  <2>2. <<n - y, d>> \in OpToRel(<, Nat) <=> n - y < d
    BY <2>1 DEF OpToRel
  <2>3. ~(n - y < d)
    BY <1>2, <2>1, <2>2, Zenon
  <2>4. x \in 0..n /\ y \in 0..n
    OBVIOUS
  <2> QED
    BY <1>3, <2>3, <2>4
<1>5. \A y \in T : y <= x /\ y \in Nat /\ x \in Nat
  BY <1>4
<1> QED
  BY <1>5 DEF Polling!Max

\* An answer, and what is shown of it, is true of the runs.
True(a) ==
  /\ a.own <= a.run
  /\ a.over => a.run \in DOMAIN runs /\ runs[a.run].over
PollInv ==
  /\ Polling!TypeOK
  /\ \A k \in Triggers : True(poll[k].answer)
  /\ True(screen.answer)
  /\ screen.by # Polling!Nobody /\ ~screen.answer.over =>
       poll[screen.by].pc \in Polling!Underway \cup Polling!GaveUp

PollRecord ==
  [pc : {"idle", "posting", "spawned", "refused", "reported", "cleared"}
          \cup Polling!Underway \cup Polling!GaveUp,
   from : 1..MaxRuns + 1, attempt : 0..MaxPolls, answer : Polling!Answer]

\* The variables of the browser and of the table of runs have these types.
LEMMA PollType ==
  ASSUME Polling!TypeOK
  PROVE  /\ runs \in Seq(Polling!Run) /\ Len(runs) \in Nat /\ Len(runs) <= MaxRuns
         /\ DOMAIN runs = 1..Len(runs)
         /\ launched \subseteq Triggers
         /\ poll \in [Triggers -> PollRecord]
         /\ timer \in Triggers \cup {0}
         /\ screen \in [by : Triggers \cup {0}, answer : Polling!Answer]
         /\ Triggers \subseteq Nat \ {0} /\ MaxRuns \in Nat /\ MaxPolls \in Nat
BY PollingAssumption DEF Polling!TypeOK, PollRecord, Polling!Nobody, Polling!Assumptions

\* What is shown before any answer is of no run, and not over.
LEMMA NoAnswerIs ==
  /\ Polling!NoAnswer \in Polling!Answer /\ ~Polling!NoAnswer.over
  /\ Polling!NoAnswer.own = 0 /\ Polling!NoAnswer.run = 0 /\ True(Polling!NoAnswer)
BY PollingAssumption DEF Polling!NoAnswer, Polling!Answer, Polling!NoRun, True,
   Polling!Assumptions

\* Before the first click there is no run, and none is followed.
LEMMA PollInit == ASSUME Polling!Init PROVE PollInv
<1>1. Polling!TypeOK
  BY NoAnswerIs, PollingAssumption
     DEF Polling!Init, Polling!TypeOK, Polling!Assumptions, Polling!Nobody, Polling!Run,
         Polling!Underway, Polling!GaveUp
<1> QED
  BY <1>1, NoAnswerIs DEF Polling!Init, PollInv

\* Runs that are added to, or end, leave the answers true.
LEMMA PollRuns ==
  ASSUME PollInv,
         \/ \E k \in Triggers \cup {0} : Polling!StartRun(k)
         \/ \E r \in DOMAIN runs : Polling!EndRun(r)
         \/ Polling!Reset
  PROVE  PollInv'
<1>1. /\ runs \in Seq(Polling!Run) /\ Len(runs) \in Nat /\ Len(runs) <= MaxRuns
      /\ DOMAIN runs = 1..Len(runs) /\ launched \subseteq Triggers
  BY PollType DEF PollInv
<1>2. UNCHANGED <<poll, timer, screen>>
  BY DEF Polling!StartRun, Polling!EndRun, Polling!Reset
<1> DEFINE RunsGoOn ==
      /\ runs' \in Seq(Polling!Run) /\ Len(runs') <= MaxRuns
      /\ launched' \subseteq Triggers
      /\ \A s \in DOMAIN runs : s \in DOMAIN runs' /\ (runs[s].over => runs'[s].over)
<1>3. RunsGoOn
  <2>1. ASSUME NEW k \in Triggers \cup {0}, Polling!StartRun(k) PROVE RunsGoOn
    <3> DEFINE row == [by |-> k, over |-> FALSE, there |-> TRUE]
    <3>1. row \in Polling!Run /\ runs' = Append(runs, row) /\ Len(runs) < MaxRuns
          /\ launched' \subseteq launched
      BY <2>1 DEF Polling!StartRun, Polling!Run, Polling!Nobody
    <3> HIDE DEF row
    <3>2. MaxRuns \in Nat
      BY PollType DEF PollInv
    <3> QED
      BY <1>1, <3>1, <3>2
  <2>2. ASSUME NEW r \in DOMAIN runs, Polling!EndRun(r) PROVE RunsGoOn
    <3>1. runs[r] \in Polling!Run /\ runs' = [runs EXCEPT ![r].over = TRUE]
          /\ launched' = launched
      BY <1>1, <2>2 DEF Polling!EndRun
    <3> DEFINE row == [runs[r] EXCEPT !.over = TRUE]
    <3>2. row \in Polling!Run /\ row.over
      BY <3>1 DEF Polling!Run
    <3>3. runs' = [runs EXCEPT ![r] = row]
      BY <3>1
    <3> HIDE DEF row
    <3>4. /\ runs' \in [1..Len(runs) -> Polling!Run]
          /\ \A s \in 1..Len(runs) : runs[s].over => runs'[s].over
      BY <1>1, <3>2, <3>3
    <3>5. runs' \in Seq(Polling!Run) /\ Len(runs') = Len(runs) /\ DOMAIN runs' = 1..Len(runs)
      BY <1>1, <3>4
    <3> QED
      BY <1>1, <3>1, <3>4, <3>5
  <2>3. CASE Polling!Reset
    <3>1. runs' = [s \in 1..Len(runs) |-> [runs[s] EXCEPT !.there = FALSE]]
          /\ launched' = launched
      BY <1>1, <2>3 DEF Polling!Reset
    <3>2. \A s \in 1..Len(runs) : /\ [runs[s] EXCEPT !.there = FALSE] \in Polling!Run
                                 /\ [runs[s] EXCEPT !.there = FALSE].over = runs[s].over
      <4> TAKE s \in 1..Len(runs)
      <4>1. runs[s] \in Polling!Run
        BY <1>1
      <4> QED
        BY <4>1 DEF Polling!Run
    <3>3. /\ runs' \in [1..Len(runs) -> Polling!Run]
          /\ \A s \in 1..Len(runs) : runs'[s].over = runs[s].over
      BY <3>1, <3>2
    <3>4. runs' \in Seq(Polling!Run) /\ Len(runs') = Len(runs) /\ DOMAIN runs' = 1..Len(runs)
      BY <1>1, <3>3
    <3> QED
      BY <1>1, <3>1, <3>3, <3>4
  <2> QED
    BY <2>1, <2>2, <2>3
<1>4. Polling!TypeOK'
  BY <1>2, <1>3 DEF PollInv, Polling!TypeOK
<1> QED
  BY <1>2, <1>3, <1>4 DEF PollInv, True

\* An answer in which the own run is the last one or an earlier one is true.
LEMMA ServedIsTrue ==
  ASSUME PollInv, NEW k \in Triggers,
         NEW a, a = [run |-> Polling!LastRun, own |-> Polling!OwnRun(k),
                     over |-> IF Polling!LastRun = Polling!NoRun THEN FALSE
                              ELSE runs[Polling!LastRun].over]
  PROVE  a \in Polling!Answer /\ True(a)
<1> DEFINE S == {0} \cup {r \in DOMAIN runs : runs[r].there}
           Own == {0} \cup {r \in DOMAIN runs : runs[r].by = k /\ runs[r].there}
<1>1. /\ runs \in Seq(Polling!Run) /\ Len(runs) \in Nat /\ Len(runs) <= MaxRuns
      /\ DOMAIN runs = 1..Len(runs) /\ MaxRuns \in Nat
  BY PollType DEF PollInv
<1>2. S \in SUBSET (0..Len(runs)) /\ S # {} /\ Own \in SUBSET S /\ Own # {}
      /\ S \ {0} \subseteq DOMAIN runs /\ Own \in SUBSET (0..Len(runs))
  BY <1>1
<1>3. Polling!LastRun = Polling!Max(S) /\ Polling!OwnRun(k) = Polling!Max(Own)
  BY DEF Polling!LastRun, Polling!OwnRun, Polling!NoRun
<1> HIDE DEF S, Own
<1>4. /\ Polling!LastRun \in S /\ Polling!OwnRun(k) \in Own
      /\ Polling!OwnRun(k) <= Polling!LastRun
  BY <1>1, <1>2, <1>3, GreatestIs
<1> DEFINE l == Polling!LastRun
           o == IF l = 0 THEN FALSE ELSE runs[l].over
<1>5. l \in 0..MaxRuns /\ Polling!OwnRun(k) \in 0..MaxRuns /\ (l = 0 \/ l \in DOMAIN runs)
  <2> DEFINE m == Polling!OwnRun(k)
  <2>1. l \in S /\ m \in Own
    BY <1>4
  <2> HIDE DEF l, m
  <2>2. l \in 0..Len(runs) /\ m \in 0..Len(runs) /\ (l = 0 \/ l \in S \ {0})
    BY <1>2, <2>1
  <2>3. l \in 0..MaxRuns /\ m \in 0..MaxRuns /\ (l = 0 \/ l \in DOMAIN runs)
    BY <1>1, <1>2, <2>2
  <2> QED
    BY <2>3 DEF m
<1> HIDE DEF l
<1>6. o \in BOOLEAN /\ (o => l \in DOMAIN runs /\ runs[l].over)
  <2>1. CASE l = 0
    BY <2>1
  <2>2. CASE l # 0
    <3>1. runs[l] \in Polling!Run /\ l \in DOMAIN runs
      BY <1>1, <1>5, <2>2
    <3> QED
      BY <2>2, <3>1 DEF Polling!Run
  <2> QED
    BY <2>1, <2>2
<1>7. a = [run |-> l, own |-> Polling!OwnRun(k), over |-> o]
  BY DEF Polling!NoRun, l
<1>8. Polling!OwnRun(k) <= l
  BY <1>4 DEF l
<1> DEFINE m == Polling!OwnRun(k)
           b == [run |-> l, own |-> m, over |-> o]
<1>9. a = b /\ m \in 0..MaxRuns /\ m <= l
  BY <1>5, <1>7, <1>8
<1> HIDE DEF o, m
<1>10. b \in Polling!Answer /\ b.own = m /\ b.run = l /\ b.over = o
  BY <1>5, <1>6, <1>9 DEF Polling!Answer
<1>11. True(b)
  BY <1>6, <1>9, <1>10 DEF True
<1> HIDE DEF b
<1> QED
  BY <1>9, <1>10, <1>11, Zenon

\* A step that changes the polling of one trigger, to p, and may show its answer.
LEMMA PollOne ==
  ASSUME PollInv, NEW k \in Triggers, NEW p \in PollRecord,
         poll' = [poll EXCEPT ![k] = p], UNCHANGED runs, launched' \subseteq Triggers,
         timer' \in Triggers \cup {0},
         True(p.answer),
         \/ screen' = screen /\ (poll[k].pc \in Polling!Underway \cup Polling!GaveUp =>
                                   p.pc \in Polling!Underway \cup Polling!GaveUp)
         \/ /\ screen' \in [by : {k}, answer : Polling!Answer] /\ True(screen'.answer)
            /\ ~screen'.answer.over => p.pc \in Polling!Underway \cup Polling!GaveUp
         \/ screen' = screen /\ screen.by # k
  PROVE  PollInv'
<1>1. /\ runs \in Seq(Polling!Run) /\ Len(runs) <= MaxRuns
      /\ poll \in [Triggers -> PollRecord]
      /\ screen \in [by : Triggers \cup {0}, answer : Polling!Answer]
  BY PollType DEF PollInv
<1>2. poll' \in [Triggers -> PollRecord] /\ poll'[k] = p
      /\ \A j \in Triggers : j # k => poll'[j] = poll[j]
  BY <1>1
<1>3. screen' \in [by : Triggers \cup {0}, answer : Polling!Answer]
  BY <1>1
<1>4. Polling!TypeOK'
  BY <1>1, <1>2, <1>3 DEF Polling!TypeOK, PollRecord, Polling!Nobody
<1>5. ASSUME NEW j \in Triggers PROVE True(poll[j].answer)'
  BY <1>2 DEF PollInv, True
<1>6. True(screen.answer)'
  BY DEF PollInv, True
<1>7. ASSUME (screen.by # 0 /\ ~screen.answer.over)'
      PROVE  (poll[screen.by].pc \in Polling!Underway \cup Polling!GaveUp)'
  <2>1. CASE screen' = screen
    <3>1. screen.by \in Triggers /\ poll[screen.by].pc \in Polling!Underway \cup Polling!GaveUp
      BY <1>1, <1>7, <2>1 DEF PollInv, Polling!Nobody
    <3>2. CASE screen.by # k
      <4>1. poll'[screen.by] = poll[screen.by]
        BY <1>2, <3>1, <3>2
      <4> QED
        BY <2>1, <3>1, <4>1
    <3>3. CASE screen.by = k
      <4>1. p.pc \in Polling!Underway \cup Polling!GaveUp
        BY <1>7, <2>1, <3>1, <3>3
      <4> QED
        BY <1>2, <2>1, <3>3, <4>1
    <3> QED
      BY <3>2, <3>3
  <2>2. CASE screen' # screen
    <3>1. screen'.by = k /\ p.pc \in Polling!Underway \cup Polling!GaveUp
      BY <1>7, <2>2
    <3> QED
      BY <1>2, <3>1
  <2> QED
    BY <2>1, <2>2
<1> QED
  BY <1>4, <1>5, <1>6, <1>7 DEF PollInv, Polling!Nobody

\* The polling of one trigger goes on in the machine or in the browser.
LEMMA PollServes ==
  ASSUME PollInv, NEW k \in Triggers, Polling!Trigger(k) \/ Polling!Serve(k)
  PROVE  PollInv'
<1> DEFINE q == poll[k]
<1>1. /\ poll \in [Triggers -> PollRecord] /\ q \in PollRecord
      /\ Len(runs) \in Nat /\ Len(runs) <= MaxRuns /\ MaxRuns \in Nat
      /\ launched \subseteq Triggers /\ timer \in Triggers \cup {0}
      /\ True(q.answer)
  BY PollType DEF PollInv
<1>2. screen' = screen /\ timer' = timer /\ runs' = runs
  BY DEF Polling!Trigger, Polling!Serve, Polling!Spawn, Polling!Refuse, Polling!ServeStatus
<1>3. CASE Polling!Trigger(k)
  <2>1. PICK from \in 1..Len(runs) + 1 : poll' = [poll EXCEPT ![k].pc = "posting", ![k].from = from]
    BY <1>3 DEF Polling!Trigger
  <2> DEFINE p == [q EXCEPT !.pc = "posting", !.from = from]
  <2>2. poll' = [poll EXCEPT ![k] = p]
    BY <1>1, <2>1
  <2>3. from \in 1..MaxRuns + 1
    BY <1>1
  <2>4. p \in PollRecord /\ p.answer = q.answer
    BY <1>1, <2>3 DEF PollRecord
  <2>5. q.pc = "idle" /\ launched' = launched
    BY <1>3 DEF Polling!Trigger
  <2> HIDE DEF p
  <2>6. ~(poll[k].pc \in Polling!Underway \cup Polling!GaveUp)
    BY <2>5 DEF Polling!Underway, Polling!GaveUp
  <2> QED
    BY <1>1, <1>2, <2>2, <2>4, <2>5, <2>6, PollOne
<1>4. CASE Polling!Spawn(k) \/ Polling!Refuse(k)
  <2>1. PICK a \in {"spawned", "refused"} : poll' = [poll EXCEPT ![k].pc = a]
    BY <1>4 DEF Polling!Spawn, Polling!Refuse
  <2> DEFINE p == [q EXCEPT !.pc = a]
  <2>2. poll' = [poll EXCEPT ![k] = p]
    BY <1>1, <2>1
  <2>3. p \in PollRecord /\ p.answer = q.answer
    BY <1>1 DEF PollRecord
  <2>4. q.pc = "posting" /\ launched' \subseteq Triggers
    BY <1>1, <1>4 DEF Polling!Spawn, Polling!Refuse
  <2> HIDE DEF p
  <2>5. ~(poll[k].pc \in Polling!Underway \cup Polling!GaveUp)
    BY <2>4 DEF Polling!Underway, Polling!GaveUp
  <2> QED
    BY <1>1, <1>2, <2>2, <2>3, <2>4, <2>5, PollOne
<1>5. CASE Polling!ServeStatus(k)
  <2> DEFINE a == [run |-> Polling!LastRun, own |-> Polling!OwnRun(k),
                   over |-> IF Polling!LastRun = Polling!NoRun THEN FALSE
                            ELSE runs[Polling!LastRun].over]
             p == [q EXCEPT !.pc = "answered", !.answer = a]
  <2>1. poll' = [poll EXCEPT ![k].pc = "answered", ![k].answer = a] /\ launched' = launched
    BY <1>5 DEF Polling!ServeStatus
  <2>2. a \in Polling!Answer /\ True(a)
    BY ServedIsTrue
  <2> HIDE DEF a
  <2>3. poll' = [poll EXCEPT ![k] = p]
    BY <1>1, <2>1
  <2>4. "answered" \in Polling!Underway
    BY DEF Polling!Underway
  <2>5. p \in PollRecord /\ p.answer = a /\ p.pc = "answered"
    BY <1>1, <2>2, <2>4 DEF PollRecord
  <2>6. True(p.answer)
    BY <2>2, <2>5, Zenon
  <2> HIDE DEF p
  <2>7. p.pc \in Polling!Underway \cup Polling!GaveUp
    BY <2>4, <2>5
  <2> QED
    BY <1>1, <1>2, <2>1, <2>3, <2>5, <2>6, <2>7, PollOne
<1> QED
  BY <1>3, <1>4, <1>5 DEF Polling!Serve

\* The timer fires, the status request fails or its answer is taken: a run that is
\* shown as running goes on being followed, or the polling has given up.
LEMMA PollFollows ==
  ASSUME PollInv, NEW k \in Triggers, Polling!TimerFires(k) \/ Polling!StatusFails(k)
                                      \/ Polling!TakeStatus(k)
  PROVE  PollInv'
<1> DEFINE q == poll[k]
<1>1. /\ poll \in [Triggers -> PollRecord] /\ q \in PollRecord
      /\ launched \subseteq Triggers /\ timer \in Triggers \cup {0}
      /\ MaxPolls \in Nat /\ True(q.answer) /\ q.answer \in Polling!Answer
      /\ Triggers \subseteq Nat \ {0}
  BY PollType DEF PollInv, PollRecord
<1>2. /\ "waiting" \in Polling!Underway /\ "asking" \in Polling!Underway
      /\ "slow" \in Polling!GaveUp /\ "silent" \in Polling!GaveUp
  BY DEF Polling!Underway, Polling!GaveUp
<1>3. runs' = runs /\ launched' = launched
  BY DEF Polling!TimerFires, Polling!StatusFails, Polling!TakeStatus
<1>4. CASE Polling!TimerFires(k)
  <2> DEFINE p == [q EXCEPT !.pc = "asking"]
  <2>1. poll' = [poll EXCEPT ![k] = p]
    BY <1>1, <1>4 DEF Polling!TimerFires
  <2>2. p \in PollRecord /\ p.answer = q.answer /\ p.pc = "asking"
    BY <1>1, <1>2 DEF PollRecord
  <2>3. screen' = screen /\ timer' = timer
    BY <1>4 DEF Polling!TimerFires
  <2> HIDE DEF p
  <2> QED
    BY <1>1, <1>2, <1>3, <2>1, <2>2, <2>3, PollOne
\* The polling that goes on, or gives up, and the one that is over.
<1>5. ASSUME NEW end \in {"slow", "silent"}, Polling!PollAgain(k, end)
      PROVE  \E p \in PollRecord :
               /\ poll' = [poll EXCEPT ![k] = p] /\ timer' \in Triggers \cup {0}
               /\ True(p.answer) /\ p.pc \in Polling!Underway \cup Polling!GaveUp
  <2>1. CASE q.attempt < MaxPolls
    <3> DEFINE n == q.attempt + 1
               p == [q EXCEPT !.pc = "waiting", !.attempt = n, !.answer = Polling!NoAnswer]
    <3>1. n \in 0..MaxPolls
      BY <1>1, <2>1 DEF PollRecord
    <3>2. poll' = [poll EXCEPT ![k] = p] /\ timer' = k
      BY <1>1, <1>5, <2>1 DEF Polling!PollAgain
    <3> HIDE DEF n
    <3>3. p \in PollRecord
      <4> DEFINE v == [q EXCEPT !.pc = "waiting", !.attempt = n]
      <4>1. v \in PollRecord
        BY <1>1, <1>2, <3>1 DEF PollRecord
      <4>2. p = [v EXCEPT !.answer = Polling!NoAnswer]
        BY <1>1
      <4> HIDE DEF v, p
      <4> QED
        BY <4>1, <4>2, NoAnswerIs DEF PollRecord
    <3>4. p.answer = Polling!NoAnswer /\ p.pc = "waiting"
      BY <1>1 DEF PollRecord
    <3> HIDE DEF p
    <3> QED
      BY <1>2, <3>2, <3>3, <3>4, NoAnswerIs
  <2>2. CASE ~(q.attempt < MaxPolls)
    <3> DEFINE p == [q EXCEPT !.pc = end, !.answer = Polling!NoAnswer]
    <3>1. poll' = [poll EXCEPT ![k] = p] /\ timer' = timer
      BY <1>1, <1>5, <2>2 DEF Polling!PollAgain
    <3>2. p \in PollRecord /\ p.answer = Polling!NoAnswer /\ p.pc = end
      BY <1>1, <1>2, NoAnswerIs DEF PollRecord
    <3> HIDE DEF p
    <3> QED
      BY <1>1, <1>2, <3>1, <3>2, NoAnswerIs
  <2> QED
    BY <2>1, <2>2
<1>6. ASSUME Polling!Report(k)
      PROVE  \E p \in PollRecord :
               poll' = [poll EXCEPT ![k] = p] /\ timer' = timer /\ True(p.answer)
  <2> DEFINE p == [q EXCEPT !.pc = "reported", !.answer = Polling!NoAnswer]
  <2>1. poll' = [poll EXCEPT ![k] = p] /\ timer' = timer
    BY <1>1, <1>6 DEF Polling!Report
  <2>2. p \in PollRecord /\ p.answer = Polling!NoAnswer
    BY <1>1, NoAnswerIs DEF PollRecord
  <2> HIDE DEF p
  <2> QED
    BY <2>1, <2>2, NoAnswerIs
<1>7. CASE Polling!StatusFails(k)
  <2>1. PICK p \in PollRecord :
          /\ poll' = [poll EXCEPT ![k] = p] /\ timer' \in Triggers \cup {0}
          /\ True(p.answer) /\ p.pc \in Polling!Underway \cup Polling!GaveUp
    BY <1>5, <1>7 DEF Polling!StatusFails
  <2>2. screen' = screen
    BY <1>7 DEF Polling!StatusFails
  <2> QED
    BY <1>1, <1>3, <2>1, <2>2, PollOne
<1>8. CASE Polling!TakeStatus(k)
  <2>1. CASE Polling!IsThisRun(k) /\ q.answer.over
    <3>1. PICK p \in PollRecord :
            poll' = [poll EXCEPT ![k] = p] /\ timer' = timer /\ True(p.answer)
      BY <1>6, <1>8, <2>1 DEF Polling!TakeStatus
    <3>2. screen' = [by |-> k, answer |-> q.answer]
      BY <1>8, <2>1 DEF Polling!TakeStatus
    <3>3. screen' \in [by : {k}, answer : Polling!Answer] /\ screen'.answer = q.answer
      BY <1>1, <3>2
    <3> QED
      BY <1>1, <1>3, <2>1, <3>1, <3>3, PollOne
  <2>2. CASE ~(Polling!IsThisRun(k) /\ q.answer.over)
    <3>1. PICK p \in PollRecord :
            /\ poll' = [poll EXCEPT ![k] = p] /\ timer' \in Triggers \cup {0}
            /\ True(p.answer) /\ p.pc \in Polling!Underway \cup Polling!GaveUp
      <4>1. Polling!PollAgain(k, "slow")
        BY <1>8, <2>2 DEF Polling!TakeStatus
      <4> QED
        BY <1>5, <4>1
    <3>2. CASE Polling!IsThisRun(k)
      <4>1. screen' = [by |-> k, answer |-> q.answer]
        BY <1>8, <3>2 DEF Polling!TakeStatus
      <4>2. screen' \in [by : {k}, answer : Polling!Answer] /\ screen'.answer = q.answer
        BY <1>1, <4>1
      <4> QED
        BY <1>1, <1>3, <3>1, <4>2, PollOne
    <3>3. CASE ~Polling!IsThisRun(k)
      <4>1. screen' = screen
        BY <1>8, <3>3 DEF Polling!TakeStatus
      <4> QED
        BY <1>1, <1>3, <3>1, <4>1, PollOne
    <3> QED
      BY <3>2, <3>3
  <2> QED
    BY <2>1, <2>2
<1> QED
  BY <1>4, <1>7, <1>8

\* A polling that begins takes over the screen and the timer: what it clears is
\* no longer shown.
LEMMA PollBegins ==
  ASSUME PollInv, NEW k \in Triggers, Polling!BeginPolling(k)
  PROVE  PollInv'
<1> DEFINE Begun(j) == IF j = k THEN [poll[k] EXCEPT !.pc = "asking"]
                       ELSE IF j = timer /\ poll[j].pc = "waiting"
                            THEN [poll[j] EXCEPT !.pc = "cleared"] ELSE poll[j]
<1>1. /\ runs \in Seq(Polling!Run) /\ Len(runs) <= MaxRuns
      /\ poll \in [Triggers -> PollRecord] /\ launched \subseteq Triggers
      /\ timer \in Triggers \cup {0}
  BY PollType DEF PollInv
<1>2. /\ screen' = [by |-> k, answer |-> Polling!NoAnswer]
      /\ poll' = [j \in Triggers |-> Begun(j)]
      /\ UNCHANGED <<runs, launched, timer>>
  BY DEF Polling!BeginPolling
<1>3. "asking" \in Polling!Underway
  BY DEF Polling!Underway
<1>4. ASSUME NEW j \in Triggers
      PROVE  /\ Begun(j) \in PollRecord /\ Begun(j).answer = poll[j].answer
             /\ j = k => Begun(j).pc = "asking"
  <2>1. poll[j] \in PollRecord
    BY <1>1
  <2>2. /\ [poll[j] EXCEPT !.pc = "asking"] \in PollRecord
        /\ [poll[j] EXCEPT !.pc = "asking"].answer = poll[j].answer
        /\ [poll[j] EXCEPT !.pc = "asking"].pc = "asking"
    BY <1>3, <2>1 DEF PollRecord
  <2>3. /\ [poll[j] EXCEPT !.pc = "cleared"] \in PollRecord
        /\ [poll[j] EXCEPT !.pc = "cleared"].answer = poll[j].answer
    BY <2>1 DEF PollRecord
  <2> QED
    BY <2>1, <2>2, <2>3
<1> HIDE DEF Begun
<1>5. /\ poll' \in [Triggers -> PollRecord] /\ poll'[k].pc = "asking"
      /\ \A j \in Triggers : poll'[j].answer = poll[j].answer
  BY <1>2, <1>4
<1>6. /\ screen' \in [by : Triggers \cup {0}, answer : Polling!Answer]
      /\ screen'.by = k /\ screen'.answer = Polling!NoAnswer
  BY <1>2, NoAnswerIs
<1>7. Polling!TypeOK'
  BY <1>1, <1>2, <1>5, <1>6 DEF Polling!TypeOK, PollRecord, Polling!Nobody
<1>8. ASSUME NEW j \in Triggers PROVE True(poll[j].answer)'
  BY <1>2, <1>5 DEF PollInv, True
<1>9. True(screen.answer)'
  BY <1>6, NoAnswerIs DEF True
<1>10. (poll[screen.by].pc \in Polling!Underway \cup Polling!GaveUp)'
  BY <1>3, <1>5, <1>6
<1> QED
  BY <1>7, <1>8, <1>9, <1>10 DEF PollInv

\* Every step of a run, of the server or of the browser keeps the invariant.
LEMMA PollNext == ASSUME PollInv, Polling!Next \/ UNCHANGED pollVars PROVE PollInv'
<1>1. CASE UNCHANGED pollVars
  BY <1>1 DEF pollVars, PollInv, Polling!TypeOK, True
<1>2. CASE Polling!Next
  BY <1>2, PollRuns, PollServes, PollFollows, PollBegins
     DEF Polling!Next, Polling!Follow, Polling!Nobody
<1> QED
  BY <1>1, <1>2

\* The Settings screen, for any number of clicks, polls and runs: a run it shows as
\* running is being polled for or was given up, one that it shows as over is over,
\* and the run of the click itself, if it was in the table, is not a later one.
THEOREM ShownRunStaysFollowed == ViewsSpec => []ShownRunIsFollowed
<1>1. ViewsInit => PollInv
  BY PollInit DEF ViewsInit
<1>2. PollInv /\ [ViewsNext]_<<view, vars, feedVars, cutVars, pollVars>> => PollInv'
  BY PollNext DEF ViewsNext
<1>3. PollInv => ShownRunIsFollowed
  BY DEF PollInv, True, ShownRunIsFollowed, Polling!ShownRunIsFollowed
<1> QED
  BY <1>1, <1>2, <1>3, PTL DEF ViewsSpec

-----------------------------------------------------------------------------
(* The extractors. FeedInv says what a run holds of the feed while it goes  *)
(* on: exactly what is new, as long as nothing disturbs it, and otherwise   *)
(* all that is new and has no cause of its own to be missing.              *)

\* What the extractor is to find, where it stands in the listing, and what it has
\* yet to list and to read.
NewOnes == {e \in Feed!Listing : Feed!Wanted(e)}
Place == [e \in Entries |-> Feed!Position(e)]
Unseen ==
  IF run.pc # "listing" THEN {}
  ELSE IF kind \in Feed!Numbered THEN {e \in Entries : Place[e] > (run.page - 1) * PerPage}
  ELSE IF kind \in Feed!Cursors /\ run.page = 2 THEN run.todo
  ELSE Entries
Awaited == Unseen \cup run.found

\* The times: what is stored is no newer than the watermark, and what the extractor
\* holds or will read is newer.
Times ==
  /\ since <= clock
  /\ \A e \in Entries :
       /\ captured[e] <= since /\ run.got[e] <= clock
       /\ feed[e].made <= feed[e].changed /\ feed[e].changed <= clock
       /\ feed[e].there => feed[e].made >= 1
       /\ kind = "star" => feed[e].made = feed[e].changed
       /\ run.got[e] # 0 => run.got[e] > run.since \/ e \in run.undated
       /\ kind \in {"mail", "page"} /\ e \in run.found => feed[e].changed > run.since
       /\ kind \in {"mail", "event"} /\ run.page = 2 /\ e \in run.todo =>
            feed[e].changed > run.since

\* The run: its window is that of its start, and its parts fit together.
Window ==
  /\ kind \notin Feed!Numbered => range = Feed!NoRange
  /\ run.pc = "idle" => run = Feed!IdleRun
  /\ run.pc # "idle" =>
       /\ run.since = Feed!EffectiveSince(run.today) /\ run.until = Feed!Until(run.today)
       /\ run.today <= clock
  /\ run.page >= 1
  /\ kind \notin Feed!ReadLater => run.found = {}
  /\ run.pc \in {"idle", "listed"} => run.found = {}
  /\ run.undated # {} => kind = "repo"
  /\ run.page = 1 => run.found = {}
  /\ kind \in Feed!Cursors => run.page \in {1, 2}
  /\ run.pc = "reading" => kind \in Feed!ReadLater
  /\ kind \in Feed!Cursors /\ run.page = 2 => run.found \cap run.todo = {}

\* A listing that nothing disturbed has what is new, but for what is awaited.
ExactlyNew ==
  run.pc # "idle" /\ ~run.disturbed =>
    /\ run.found \subseteq Feed!Listing
    /\ kind = "page" => run.found \subseteq NewOnes
    /\ kind \in Feed!Cursors /\ run.page = 2 => run.todo \subseteq Feed!Listing
    /\ \A e \in Entries :
         IF e \in Awaited THEN run.got[e] = 0
         ELSE cause[e] # "skipped" /\ e \notin run.undated =>
                (run.got[e] # 0 <=> e \in NewOnes)

\* What has changed and gone on unharmed is held or awaited if it is to be found.
NewIsHeld ==
  /\ run.pc # "idle" =>
       \A e \in Entries :
         feed[e].there /\ feed[e].changed > since =>
           /\ cause[e] # "outside"
           /\ cause[e] = "none" => /\ e \in NewOnes => e \in Awaited \/ run.got[e] # 0
                                   /\ feed[e].changed <= run.today + LocalLag
  /\ \A e \in Entries :
       /\ run.got[e] # 0 /\ feed[e].there /\ run.got[e] # feed[e].changed =>
            cause[e] \in {"raced", "skipped"}
       /\ cause[e] = "shifted" => kind \in Feed!Numbered

Excused(e) ==
  \/ cause[e] \in {"raced", "skipped"}
  \/ cause[e] = "shifted" /\ kind \in Feed!Numbered
  \/ kind \in {"pull", "commit", "repo"} /\ feed[e].made < feed[e].changed
  \/ cause[e] = "outside" /\ kind = "event"
  \/ cause[e] = "outside" /\ kind = "mail" /\ LocalLag > 0
LossIsExcused ==
  \A e \in Entries :
    feed[e].there /\ feed[e].changed <= since /\ captured[e] # feed[e].changed =>
      Excused(e) \/ (kind # "event" /\ ~Feed!InScope(e))
FeedInv == Feed!TypeOK /\ Times /\ Window /\ ExactlyNew /\ NewIsHeld /\ LossIsExcused

EntryTime == 0..MaxFeedTime

\* The variables of the feed have these types.
LEMMA FeedTyped ==
  ASSUME Feed!TypeOK
  PROVE  /\ Entries \subseteq Nat /\ IsFiniteSet(Entries) /\ PerPage \in Nat \ {0}
         /\ {Back, Ahead, LocalLag, MaxFeedTime} \subseteq Nat
         /\ kind \in Feed!AllKinds /\ kind \in Kinds
         /\ range.floor \in EntryTime /\ range.ceiling \in EntryTime
         /\ clock \in EntryTime /\ since \in EntryTime
         /\ feed \in [Entries -> Feed!Entry] /\ captured \in [Entries -> EntryTime]
         /\ \A e \in Entries :
              /\ feed[e].there \in BOOLEAN /\ feed[e].made \in EntryTime
              /\ feed[e].changed \in EntryTime /\ feed[e].on \in EntryTime
              /\ captured[e] \in EntryTime
         /\ run \in Feed!Run
         /\ run.pc \in {"idle", "listing", "reading", "listed"}
         /\ run.since \in EntryTime /\ run.until \in EntryTime /\ run.today \in Int
         /\ run.page \in Nat /\ run.todo \in SUBSET Entries /\ run.found \in SUBSET Entries
         /\ run.got \in [Entries -> EntryTime] /\ run.undated \in SUBSET Entries
         /\ run.disturbed \in BOOLEAN
         /\ cause \in [Entries -> Feed!Causes]
<1>1. /\ range \in [floor : EntryTime, ceiling : EntryTime]
      /\ feed \in [Entries -> Feed!Entry]
      /\ run \in Feed!Run
  BY DEF Feed!TypeOK, Feed!Time, EntryTime
<1>2. /\ run.pc \in {"idle", "listing", "reading", "listed"}
      /\ run.since \in EntryTime /\ run.until \in EntryTime /\ run.today \in Int
      /\ run.page \in Nat /\ run.todo \in SUBSET Entries /\ run.found \in SUBSET Entries
      /\ run.got \in [Entries -> EntryTime] /\ run.undated \in SUBSET Entries
      /\ run.disturbed \in BOOLEAN
  BY <1>1 DEF Feed!Run, Feed!Time, EntryTime
<1>3. ASSUME NEW e \in Entries
      PROVE  /\ feed[e].there \in BOOLEAN /\ feed[e].made \in EntryTime
             /\ feed[e].changed \in EntryTime /\ feed[e].on \in EntryTime
  <2>1. feed[e] \in Feed!Entry
    BY <1>1
  <2> QED
    BY <2>1 DEF Feed!Entry, Feed!Time, EntryTime
<1>4. /\ Entries \subseteq Nat /\ IsFiniteSet(Entries) /\ PerPage \in Nat \ {0}
      /\ {Back, Ahead, LocalLag, MaxFeedTime} \subseteq Nat
      /\ kind \in Feed!AllKinds /\ kind \in Kinds
  <2>1. Feed!IsFiniteSet(Entries) <=> IsFiniteSet(Entries)
    BY DEF Feed!IsFiniteSet, IsFiniteSet
  <2> QED
    BY <2>1, FeedAssumption DEF Feed!TypeOK, Feed!Assumptions
<1>5. /\ range.floor \in EntryTime /\ range.ceiling \in EntryTime
  BY <1>1
<1>6. /\ clock \in EntryTime /\ since \in EntryTime
      /\ captured \in [Entries -> EntryTime] /\ cause \in [Entries -> Feed!Causes]
  BY DEF Feed!TypeOK, Feed!Time, EntryTime
<1>7. \A e \in Entries : captured[e] \in EntryTime
  BY <1>6
<1> QED
  BY <1>1, <1>2, <1>3, <1>4, <1>5, <1>6, <1>7

\* Where the listing puts its entries: each in a place of its own, newest first.
ListingOrder == {p \in Feed!Listing \X Feed!Listing : Feed!Before(p[1], p[2])}

\* The order of the listing is strict, and the place of an entry in it is one more than
\* the number of entries before it.
LEMMA ListingIsOrdered ==
  ASSUME Feed!TypeOK
  PROVE  /\ Feed!Listing \subseteq Entries /\ IsFiniteSet(Feed!Listing)
         /\ StrictOrder(Feed!Listing, ListingOrder)
         /\ \A e \in Feed!Listing :
              Place[e] = Cardinality(Preceding(Feed!Listing, ListingOrder, e)) + 1
         /\ \A e \in Entries : Place[e] \in Nat /\ Place[e] >= 1
<1>1. Feed!Listing \subseteq Entries
  BY DEF Feed!Listing, Feed!Present
<1>2. IsFiniteSet(Feed!Listing)
  BY <1>1, FeedTyped, FS_Subset
<1>3. \A e \in Entries : e \in Nat /\ feed[e].made \in Nat
  BY FeedTyped DEF EntryTime
<1>4. /\ \A e \in Entries : ~Feed!Before(e, e)
      /\ \A e, f, g \in Entries : Feed!Before(e, f) /\ Feed!Before(f, g) => Feed!Before(e, g)
      /\ \A e, f \in Entries : e # f => Feed!Before(e, f) \/ Feed!Before(f, e)
  BY <1>3 DEF Feed!Before
<1>5. StrictOrder(Feed!Listing, ListingOrder)
  <2>1. \A e, f \in Feed!Listing : <<e, f>> \in ListingOrder <=> Feed!Before(e, f)
    BY DEF ListingOrder
  <2> QED
    BY <1>1, <1>4, <2>1 DEF StrictOrder
<1>6. ASSUME NEW e \in Feed!Listing
      PROVE  Place[e] = Cardinality(Preceding(Feed!Listing, ListingOrder, e)) + 1
  <2>1. {f \in Feed!Listing : Feed!Before(f, e)} = Preceding(Feed!Listing, ListingOrder, e)
    BY DEF Preceding, ListingOrder
  <2> QED
    BY <1>1, <2>1 DEF Place, Feed!Position, Feed!Cardinality, Cardinality
<1>7. ASSUME NEW e \in Entries PROVE Place[e] \in Nat /\ Place[e] >= 1
  <2> DEFINE P == {f \in Feed!Listing : Feed!Before(f, e)}
  <2>1. IsFiniteSet(P)
    BY <1>2, FS_Subset
  <2>2. Cardinality(P) \in Nat
    BY <2>1, FS_CardinalityType
  <2>3. Place[e] = Cardinality(P) + 1
    BY DEF Place, Feed!Position, Feed!Cardinality, Cardinality
  <2> QED
    BY <2>2, <2>3
<1> QED
  BY <1>1, <1>2, <1>5, <1>6, <1>7

\* What is listed, and where, depends on the feed and the run's window alone.
LEMMA ListingStays ==
  ASSUME kind' = kind, feed' = feed, run'.since = run.since, run'.until = run.until,
         run'.today = run.today
  PROVE  /\ Feed!Listing' = Feed!Listing /\ NewOnes' = NewOnes /\ Place' = Place
         /\ \A e \in Entries : Feed!Wanted(e)' <=> Feed!Wanted(e)
<1>1. Feed!Listing' = Feed!Listing
  BY DEF Feed!Listing, Feed!Present, Feed!Asked, Feed!CommitAsked, Feed!IssueAsked,
         Feed!MailAsked, Feed!EventAsked
<1>2. \A e \in Entries : Feed!Wanted(e)' <=> Feed!Wanted(e)
  BY DEF Feed!Wanted, Feed!PullWanted, Feed!IssueWanted, Feed!StarWanted,
         Feed!ReadmeWanted, Feed!PageWanted, Feed!FileWanted, Feed!VisitWanted
<1>3. NewOnes' = NewOnes
  BY <1>1, <1>2 DEF NewOnes, Feed!Listing, Feed!Present
<1>4. Place' = Place
  BY <1>1 DEF Place, Feed!Position, Feed!Before
<1> QED
  BY <1>1, <1>2, <1>3, <1>4

\* A page has what its places say; behind the last one is nothing that is new.
LEMMA PageIs ==
  ASSUME Feed!TypeOK, kind \in Feed!Numbered, run.page >= 1
  PROVE  LET S == Feed!NumberedPage(run.page) IN
         /\ S = {e \in Feed!Listing : /\ (run.page - 1) * PerPage < Place[e]
                                      /\ Place[e] <= run.page * PerPage}
         /\ Feed!IsLast(S) => \A e \in NewOnes : Place[e] <= run.page * PerPage
<1> DEFINE L == Feed!Listing
           S == Feed!NumberedPage(run.page)
           lo == (run.page - 1) * PerPage
           hi == run.page * PerPage
<1>1. lo \in Nat /\ hi \in Nat /\ hi = lo + PerPage /\ PerPage \in Nat \ {0}
  <2>1. run.page \in Nat /\ PerPage \in Nat \ {0}
    BY FeedTyped
  <2>2. hi = lo + PerPage /\ hi \in Int /\ lo \in Int
    BY <2>1
  <2>3. run.page - 1 \in Nat
    BY <2>1
  <2>4. lo >= 0
    BY <2>1, <2>3
  <2> QED
    BY <2>1, <2>2, <2>4
<1>2. /\ L \subseteq Entries /\ IsFiniteSet(L) /\ StrictOrder(L, ListingOrder)
      /\ \A e \in L : Place[e] = Cardinality(Preceding(L, ListingOrder, e)) + 1
      /\ \A e \in Entries : Place[e] \in Nat /\ Place[e] >= 1
  BY ListingIsOrdered
<1>3. S = {e \in L : lo < Place[e] /\ Place[e] <= hi}
  <2>1. S = {e \in L : Place[e] \in (lo + 1)..hi}
    BY <1>2 DEF Feed!NumberedPage, Place
  <2> HIDE DEF lo, hi, L
  <2> QED
    BY <1>1, <1>2, <2>1
<1> HIDE DEF lo, hi, L, S
<1>4. ASSUME NEW x \in L, Place[x] > hi
      PROVE  ~(Cardinality(S) < PerPage)
  <2>1. /\ Cardinality(L) \in Nat
        /\ \A y \in L : Cardinality(Preceding(L, ListingOrder, y)) \in 0..(Cardinality(L) - 1)
    BY <1>2, Places
  <2>2. Place[x] <= Cardinality(L)
    BY <1>2, <2>1
  <2>3. ASSUME NEW n \in (lo + 1)..hi PROVE \E y \in S : Place[y] = n
    <3>1. n \in 1..Cardinality(L)
      BY <1>1, <1>2, <1>4, <2>1, <2>2
    <3>2. PICK y \in L : y = Sorted(L, ListingOrder)[n]
      BY <1>2, <3>1, SortedIs
    <3>3. Cardinality(Preceding(L, ListingOrder, y)) = n - 1
      BY <1>2, <3>1, <3>2, SortedIs
    <3>4. Place[y] = n
      BY <1>1, <1>2, <3>3
    <3> QED
      BY <1>1, <1>3, <3>4
  <2> DEFINE f == [y \in S |-> Place[y]]
  <2>4. S \subseteq L /\ IsFiniteSet(S)
    BY <1>2, <1>3, FS_Subset
  <2>5. f \in Surjection(S, (lo + 1)..hi)
    <3>1. \A y \in S : Place[y] \in (lo + 1)..hi
      BY <1>1, <1>2, <1>3
    <3> QED
      BY <2>3, <3>1 DEF Surjection
  <2>6. Cardinality((lo + 1)..hi) <= Cardinality(S)
    BY <2>4, <2>5, FS_Surjection
  <2>7. Cardinality((lo + 1)..hi) = PerPage
    <3>1. lo + 1 \in Int /\ hi \in Int
      BY <1>1
    <3>2. Cardinality((lo + 1)..hi) = IF lo + 1 > hi THEN 0 ELSE hi - (lo + 1) + 1
      BY <3>1, FS_Interval
    <3> QED
      BY <1>1, <3>2
  <2>8. Cardinality(S) \in Nat
    BY <2>4, FS_CardinalityType
  <2> QED
    BY <1>1, <2>6, <2>7, <2>8
<1>5. ASSUME NEW x \in NewOnes, NEW y \in S, Feed!PastCutoff(y)
      PROVE  ~(Place[x] > hi)
  <2>1. x \in L /\ Feed!Wanted(x) /\ x \in Entries /\ y \in L /\ y \in Entries
    BY <1>2, <1>3 DEF NewOnes, L
  <2>2. kind = "pull" /\ feed[y].made <= run.since /\ feed[x].made > run.since
    BY <1>5, <2>1 DEF Feed!PastCutoff, Feed!Wanted, Feed!PullWanted
  <2>3. /\ feed[y].made \in Nat /\ feed[x].made \in Nat /\ run.since \in Nat
        /\ x \in Nat /\ y \in Nat
    BY <2>1, FeedTyped DEF EntryTime
  <2>4. Feed!Before(x, y)
    BY <2>2, <2>3 DEF Feed!Before
  <2>5. <<x, y>> \in ListingOrder
    BY <2>1, <2>4 DEF ListingOrder, L
  <2>6. /\ Cardinality(Preceding(L, ListingOrder, x)) < Cardinality(Preceding(L, ListingOrder, y))
        /\ Cardinality(Preceding(L, ListingOrder, x)) \in Int
        /\ Cardinality(Preceding(L, ListingOrder, y)) \in Int
        /\ Cardinality(L) \in Nat
    BY <1>2, <2>1, <2>5, Places
  <2>7. Place[x] < Place[y]
    BY <1>2, <2>1, <2>6
  <2> QED
    BY <1>1, <1>2, <1>3, <2>1, <2>7
<1>6. ASSUME Feed!IsLast(S), NEW x \in NewOnes PROVE Place[x] <= hi
  <2>1. x \in L
    BY DEF NewOnes, L
  <2>2. Feed!Cardinality(S) = Cardinality(S)
    BY DEF Feed!Cardinality, Cardinality
  <2>3. ~(Place[x] > hi)
    BY <1>4, <1>5, <1>6, <2>1, <2>2 DEF Feed!IsLast
  <2> QED
    BY <1>1, <1>2, <2>1, <2>3
<1> QED
  BY <1>3, <1>6 DEF S, L, lo, hi

\* The window of a run begins no earlier than the watermark, and, but for a range
\* that is set, no later than now.
LEMMA WindowIs ==
  ASSUME Feed!TypeOK, Times, Window, run.pc # "idle"
  PROVE  /\ run.since >= since /\ run.today <= clock
         /\ kind \notin Feed!Numbered => run.since <= clock
         /\ kind \in Feed!Numbered =>
              (run.since = since \/ run.since = range.floor) /\ run.until = range.ceiling
         /\ kind \in {"event", "page", "file", "visit"} => run.since = since
         /\ kind = "mail" => /\ run.since \in {since, 0, run.today - Back}
                             /\ run.until >= run.today
<1>1. /\ since \in Nat /\ clock \in Nat /\ since <= clock /\ run.today \in Int /\ Back \in Nat
      /\ range.floor \in Nat /\ MaxFeedTime \in Nat /\ kind \in Feed!AllKinds
  <2>1. since <= clock
    BY DEF Times
  <2> QED
    BY <2>1, FeedTyped DEF EntryTime
<1>2. /\ run.since = IF since < Feed!Floor(run.today) THEN Feed!Floor(run.today) ELSE since
      /\ run.until = IF kind = "mail" THEN (IF 0 < run.today THEN run.today ELSE 0)
                     ELSE range.ceiling
      /\ Feed!Floor(run.today) = IF kind = "mail"
                                 THEN (IF 0 < run.today - Back THEN run.today - Back ELSE 0)
                                 ELSE range.floor
      /\ run.today <= clock
  BY DEF Window, Feed!EffectiveSince, Feed!Until, Feed!Floor, Feed!Later
<1>3. kind \notin Feed!Numbered => range.floor = 0
  BY DEF Window, Feed!NoRange
<1>4. CASE kind = "mail"
  <2>1. kind \notin Feed!Numbered
    BY <1>4 DEF Feed!Numbered
  <2> QED
    BY <1>1, <1>2, <1>4, <2>1
<1>5. CASE kind # "mail"
  <2>1. kind \in {"event", "page", "file", "visit"} => kind \notin Feed!Numbered
    BY DEF Feed!Numbered
  <2> HIDE DEF Feed!Numbered
  <2> QED
    BY <1>1, <1>2, <1>3, <1>5, <2>1
<1> QED
  BY <1>4, <1>5

\* A step of a run that has begun leaves its window, and what was lost before, as it
\* is.
LEMMA ListingGoesOn ==
  ASSUME FeedInv, UNCHANGED <<kind, range, clock, feed, since, captured>>,
         run' \in Feed!Run, run.pc # "idle", run'.pc # "idle",
         run'.since = run.since, run'.until = run.until, run'.today = run.today,
         cause' \in [Entries -> Feed!Causes],
         \A e \in Entries : cause'[e] \in {cause[e], "skipped"}
  PROVE  /\ Feed!TypeOK' /\ LossIsExcused'
         /\ run'.since = Feed!EffectiveSince(run.today)'
         /\ run'.until = Feed!Until(run.today)' /\ run'.today <= clock'
<1>1. Feed!TypeOK'
  BY DEF FeedInv, Feed!TypeOK
<1>2. LossIsExcused'
  <2>1. ASSUME NEW e \in Entries, Excused(e) PROVE Excused(e)'
    <3>1. cause'[e] = cause[e] \/ cause'[e] = "skipped"
      OBVIOUS
    <3> QED
      BY <2>1, <3>1 DEF Excused
  <2>2. \A e \in Entries : Feed!InScope(e)' <=> Feed!InScope(e)
    BY DEF Feed!InScope
  <2>3. LossIsExcused
    BY DEF FeedInv
  <2>4. kind' = kind /\ feed' = feed /\ since' = since /\ captured' = captured
    OBVIOUS
  <2> QED
    BY <2>1, <2>2, <2>3, <2>4 DEF LossIsExcused
<1>3. /\ run'.since = Feed!EffectiveSince(run.today)'
      /\ run'.until = Feed!Until(run.today)' /\ run'.today <= clock'
  <2>1. /\ run.since = Feed!EffectiveSince(run.today) /\ run.until = Feed!Until(run.today)
        /\ run.today <= clock
    BY DEF FeedInv, Window
  <2> QED
    BY <2>1 DEF Feed!EffectiveSince, Feed!Until, Feed!Floor, Feed!Later
<1> QED
  BY <1>1, <1>2, <1>3

\* What the run's steps that list and read need of the state they begin in.
LEMMA RunIs ==
  ASSUME FeedInv
  PROVE  /\ Feed!TypeOK /\ Times /\ Window
         /\ run \in Feed!Run /\ run.page >= 1 /\ run.page \in Nat
         /\ \A e \in Entries :
              /\ feed[e].changed \in Nat /\ feed[e].made \in Nat /\ run.got[e] \in Nat
              /\ feed[e].changed <= clock /\ feed[e].made <= feed[e].changed
              /\ feed[e].there => feed[e].changed # 0
         /\ run.since \in Nat
         /\ NewOnes \subseteq Feed!Listing /\ Feed!Listing \subseteq Entries
         /\ \A e \in Feed!Listing : feed[e].there
<1>1. Feed!TypeOK /\ Times /\ Window
  BY DEF FeedInv
<1>2. run \in Feed!Run /\ run.page >= 1 /\ run.page \in Nat /\ run.since \in Nat
  BY <1>1, FeedTyped DEF Window, EntryTime
<1>3. ASSUME NEW e \in Entries
      PROVE  /\ feed[e].changed \in Nat /\ feed[e].made \in Nat /\ run.got[e] \in Nat
             /\ feed[e].changed <= clock /\ feed[e].made <= feed[e].changed
             /\ feed[e].there => feed[e].changed # 0
  <2>1. feed[e].changed \in Nat /\ feed[e].made \in Nat /\ run.got[e] \in Nat
    BY <1>1, FeedTyped DEF EntryTime
  <2>2. /\ feed[e].changed <= clock /\ feed[e].made <= feed[e].changed
        /\ feed[e].there => feed[e].made >= 1
    BY <1>1 DEF Times
  <2> QED
    BY <2>1, <2>2
<1>4. /\ NewOnes \subseteq Feed!Listing /\ Feed!Listing \subseteq Entries
      /\ \A e \in Feed!Listing : feed[e].there
  BY DEF NewOnes, Feed!Listing, Feed!Present
<1> QED
  BY <1>1, <1>2, <1>3, <1>4

\* A numbered page: what is on it is held, or found and yet to be read; what is new and
\* behind it is on a later page.
LEMMA FeedPages == ASSUME FeedInv, Feed!FetchNumberedPage PROVE FeedInv'
<1> DEFINE S == Feed!NumberedPage(run.page)
           G == Feed!Take(S)
           F == Feed!Find(S)
           p == Feed!AfterPage(S, Feed!IsLast(S))
           v == [run EXCEPT !.got = G, !.found = F]
<1>1. /\ Feed!TypeOK /\ Times /\ Window
      /\ run \in Feed!Run /\ run.page >= 1 /\ run.page \in Nat
      /\ \A e \in Entries :
           /\ feed[e].changed \in Nat /\ feed[e].made \in Nat /\ run.got[e] \in Nat
           /\ feed[e].changed <= clock /\ feed[e].made <= feed[e].changed
           /\ feed[e].there => feed[e].changed # 0
      /\ run.since \in Nat
      /\ NewOnes \subseteq Feed!Listing /\ Feed!Listing \subseteq Entries
      /\ \A e \in Feed!Listing : feed[e].there
  BY RunIs
<1>2. /\ run.pc = "listing" /\ kind \in Feed!Numbered
      /\ run' = [run EXCEPT !.got = G, !.found = F, !.page = run.page + 1, !.pc = p]
      /\ UNCHANGED <<kind, range, clock, feed, since, captured>> /\ cause' = cause
  BY DEF Feed!FetchNumberedPage, Feed!sourceVars
<1>3. /\ S = {e \in Feed!Listing : /\ (run.page - 1) * PerPage < Place[e]
                                   /\ Place[e] <= run.page * PerPage}
      /\ Feed!IsLast(S) => \A e \in NewOnes : Place[e] <= run.page * PerPage
  BY <1>1, <1>2, PageIs
<1>4. \A e \in Entries : G[e] = IF e \in S /\ kind # "repo" /\ Feed!Wanted(e)
                                THEN feed[e].changed ELSE run.got[e]
  BY <1>2 DEF Feed!Take, Feed!ReadLater, Feed!Numbered
<1>5. F = IF kind = "repo" THEN run.found \cup S ELSE {}
  BY <1>2 DEF Feed!Find, Feed!ReadLater, Feed!Numbered
<1>6. p = IF ~Feed!IsLast(S) THEN "listing" ELSE IF F # {} THEN "reading" ELSE "listed"
  BY DEF Feed!AfterPage
<1>7. G \in [Entries -> EntryTime] /\ F \in SUBSET Entries
  <2>1. \A e \in Entries : feed[e].changed \in EntryTime /\ run.got[e] \in EntryTime
    BY <1>1, FeedTyped
  <2>2. run.found \in SUBSET Entries
    BY <1>1, FeedTyped
  <2> QED
    BY <1>1, <1>3, <1>5, <2>1, <2>2 DEF Feed!Take
<1> HIDE DEF S, G, F, p
<1>8. v \in Feed!Run /\ v.got = G /\ v.found = F /\ v.pc = run.pc /\ v.page = run.page
      /\ v.since = run.since /\ v.until = run.until /\ v.today = run.today
      /\ v.todo = run.todo /\ v.undated = run.undated /\ v.disturbed = run.disturbed
  BY <1>1, <1>7 DEF Feed!Run, Feed!Time, EntryTime
<1>9. run' = [v EXCEPT !.page = run.page + 1, !.pc = p]
  BY <1>2
<1>10. p \in {"listing", "reading", "listed"} /\ run.page + 1 \in Nat
  BY <1>1, <1>6
<1> HIDE DEF v
<1>11. run' \in Feed!Run /\ run'.got = G /\ run'.found = F /\ run'.pc = p
       /\ run'.page = run.page + 1
       /\ run'.since = run.since /\ run'.until = run.until /\ run'.today = run.today
       /\ run'.todo = run.todo /\ run'.undated = run.undated /\ run'.disturbed = run.disturbed
  BY <1>8, <1>9, <1>10 DEF Feed!Run
<1>12. run'.pc # "idle" /\ cause' \in [Entries -> Feed!Causes]
  <2>1. cause \in [Entries -> Feed!Causes]
    BY <1>1, FeedTyped
  <2> QED
    BY <1>2, <1>10, <1>11, <2>1
<1>13. /\ Feed!TypeOK' /\ LossIsExcused'
       /\ run'.since = Feed!EffectiveSince(run.today)'
       /\ run'.until = Feed!Until(run.today)' /\ run'.today <= clock'
  BY <1>2, <1>11, <1>12, ListingGoesOn
<1>14. /\ Feed!Listing' = Feed!Listing /\ NewOnes' = NewOnes /\ Place' = Place
  BY <1>2, <1>11, ListingStays
<1>15. \A e \in NewOnes : e \in Entries /\ Feed!Wanted(e) /\ feed[e].changed > run.since
  <2>1. ASSUME NEW e \in NewOnes PROVE feed[e].changed > run.since
    <3>1. e \in Entries /\ Feed!Wanted(e) /\ Feed!Asked(e)
      BY <1>1 DEF NewOnes, Feed!Listing
    <3>2. feed[e].made > run.since \/ feed[e].changed > run.since
      BY <1>2, <3>1 DEF Feed!Numbered, Feed!Asked, Feed!Wanted, Feed!CommitAsked,
         Feed!IssueAsked, Feed!PullWanted, Feed!StarWanted, Feed!ReadmeWanted
    <3> QED
      BY <1>1, <3>1, <3>2
  <2> QED
    BY <1>1, <2>1 DEF NewOnes
<1>16. \A e \in S : Feed!Wanted(e) <=> e \in NewOnes
  BY <1>3 DEF NewOnes
<1>17. \A e \in Entries : G[e] = IF e \in S /\ kind # "repo" /\ e \in NewOnes
                                 THEN feed[e].changed ELSE run.got[e]
  BY <1>4, <1>16
<1>18. S \subseteq Entries /\ S \subseteq Feed!Listing
  BY <1>1, <1>3
<1>19. Times'
  <2>1. kind' \notin {"mail", "page", "event"}
    BY <1>2 DEF Feed!Numbered
  <2>2. ASSUME NEW e \in Entries
        PROVE  G[e] <= clock /\ (G[e] # 0 => G[e] > run.since \/ e \in run.undated)
    BY <1>1, <1>15, <1>17 DEF Times
  <2> QED
    BY <1>1, <1>2, <1>11, <2>1, <2>2 DEF Times
<1>20. Window'
  <2>1. /\ run'.page >= 1 /\ run'.page # 1
    BY <1>1, <1>11
  <2>2. kind' \notin Feed!Cursors /\ kind' \in Feed!Numbered
    BY <1>2 DEF Feed!Numbered, Feed!Cursors
  <2>3. kind \notin Feed!ReadLater <=> kind # "repo"
    BY <1>2 DEF Feed!Numbered, Feed!ReadLater
  <2>4. run.undated # {} => kind = "repo"
    BY <1>1 DEF Window
  <2>5. p = "listed" => F = {}
    BY <1>6
  <2>6. p = "reading" => kind \in Feed!ReadLater
    BY <1>5, <1>6, <2>3
  <2> QED
    BY <1>2, <1>5, <1>10, <1>11, <1>12, <1>13, <2>1, <2>2, <2>3, <2>4, <2>5, <2>6 DEF Window
<1> DEFINE a == (run.page - 1) * PerPage
           b == run.page * PerPage
<1>21. (run'.page - 1) * PerPage = b
  BY <1>1, <1>11
<1>22. a \in Int /\ b \in Int /\ a <= b
  <2>1. PerPage \in Nat \ {0}
    BY <1>1, FeedTyped
  <2>2. b = a + PerPage /\ a \in Int /\ b \in Int
    BY <1>1, <2>1
  <2> QED
    BY <2>1, <2>2
<1>23. Unseen = {e \in Entries : Place[e] > a}
  BY <1>2 DEF Unseen
<1>24. Unseen' = IF p # "listing" THEN {} ELSE {e \in Entries : Place[e] > b}
  BY <1>2, <1>11, <1>14, <1>21 DEF Unseen
<1>25. \A e \in Entries : Place[e] \in Int
  BY <1>1, ListingIsOrdered
<1>26. /\ S = {e \in Feed!Listing : a < Place[e] /\ Place[e] <= b}
       /\ p # "listing" => \A e \in NewOnes : Place[e] <= b
  BY <1>3, <1>6
<1> HIDE DEF a, b
<1>27. ExactlyNew'
  <2> SUFFICES ASSUME ~run.disturbed
               PROVE  /\ F \subseteq Feed!Listing
                      /\ \A e \in Entries :
                           IF e \in Unseen' \cup F THEN G[e] = 0
                           ELSE cause[e] # "skipped" /\ e \notin run.undated =>
                                  (G[e] # 0 <=> e \in NewOnes)
    <3>1. kind' # "page" /\ kind' \notin Feed!Cursors
      BY <1>2 DEF Feed!Numbered, Feed!Cursors
    <3> QED
      BY <1>2, <1>11, <1>14, <3>1 DEF ExactlyNew, Awaited
  <2>1. /\ run.found \subseteq Feed!Listing
        /\ \A e \in Entries :
             IF e \in Unseen \cup run.found THEN run.got[e] = 0
             ELSE cause[e] # "skipped" /\ e \notin run.undated =>
                    (run.got[e] # 0 <=> e \in NewOnes)
    BY <1>2 DEF FeedInv, ExactlyNew, Awaited
  <2>2. kind # "repo" => run.found = {}
    BY <1>1, <1>2 DEF Window, Feed!Numbered, Feed!ReadLater
  <2>3. F \subseteq Feed!Listing
    BY <1>5, <1>18, <2>1
  <2>4. ASSUME NEW e \in Entries, e \in Unseen' \cup F PROVE G[e] = 0
    <3>1. e \notin S \/ kind = "repo"
      BY <1>5, <1>22, <1>24, <1>25, <1>26, <2>4
    <3>2. G[e] = run.got[e]
      BY <1>17, <3>1
    <3>3. e \in Unseen \cup run.found
      BY <1>5, <1>22, <1>23, <1>24, <1>25, <1>26, <2>4
    <3> QED
      BY <2>1, <3>2, <3>3
  <2>5. ASSUME NEW e \in Entries, e \notin Unseen' \cup F, cause[e] # "skipped",
               e \notin run.undated
        PROVE  G[e] # 0 <=> e \in NewOnes
    <3>1. CASE e \in S
      <4>1. kind # "repo"
        BY <1>5, <2>5, <3>1
      <4>2. run.got[e] = 0
        BY <1>23, <1>26, <2>1, <3>1
      <4> QED
        BY <1>1, <1>17, <3>1, <4>1, <4>2
    <3>2. CASE e \notin S
      <4>1. G[e] = run.got[e]
        BY <1>17, <3>2
      <4>2. CASE e \in Unseen
        <5>1. e \notin NewOnes
          BY <1>1, <1>22, <1>23, <1>24, <1>25, <1>26, <2>5, <3>2, <4>2
        <5> QED
          BY <2>1, <4>1, <4>2, <5>1
      <4>3. CASE e \notin Unseen
        <5>1. e \notin run.found
          BY <1>5, <2>2, <2>5
        <5> QED
          BY <2>1, <2>5, <4>1, <4>3, <5>1
      <4> QED
        BY <4>2, <4>3
    <3> QED
      BY <3>1, <3>2
  <2> QED
    BY <2>3, <2>4, <2>5
<1>28. NewIsHeld'
  <2>1. /\ \A e \in Entries :
             feed[e].there /\ feed[e].changed > since =>
               /\ cause[e] # "outside"
               /\ cause[e] = "none" => /\ e \in NewOnes => e \in Unseen \cup run.found \/ run.got[e] # 0
                                       /\ feed[e].changed <= run.today + LocalLag
        /\ \A e \in Entries :
             /\ run.got[e] # 0 /\ feed[e].there /\ run.got[e] # feed[e].changed =>
                  cause[e] \in {"raced", "skipped"}
             /\ cause[e] = "shifted" => kind \in Feed!Numbered
    BY <1>2 DEF FeedInv, NewIsHeld, Awaited
  <2>2. ASSUME NEW e \in NewOnes, e \in Unseen \cup run.found \/ run.got[e] # 0
        PROVE  e \in Unseen' \cup F \/ G[e] # 0
    <3>1. CASE run.got[e] # 0
      BY <1>1, <1>15, <1>17, <3>1
    <3>2. CASE e \in run.found
      <4>1. kind = "repo"
        BY <1>1, <1>2, <3>2 DEF Window, Feed!Numbered, Feed!ReadLater
      <4> QED
        BY <1>5, <3>2, <4>1
    <3>3. CASE e \in Unseen /\ e \in S
      BY <1>1, <1>5, <1>15, <1>17, <3>3
    <3>4. CASE e \in Unseen /\ e \notin S
      BY <1>1, <1>22, <1>23, <1>24, <1>25, <1>26, <3>4
    <3> QED
      BY <2>2, <3>1, <3>2, <3>3, <3>4
  <2>3. ASSUME NEW e \in Entries, G[e] # 0, feed[e].there, G[e] # feed[e].changed
        PROVE  cause[e] \in {"raced", "skipped"}
    BY <1>17, <2>1, <2>3
  <2> QED
    BY <1>2, <1>11, <1>14, <2>1, <2>2, <2>3 DEF NewIsHeld, Awaited
<1> QED
  BY <1>13, <1>19, <1>20, <1>27, <1>28 DEF FeedInv

\* A cursor is opened: it will list what the listing has, and no more.
LEMMA FeedOpens == ASSUME FeedInv, Feed!OpenCursor PROVE FeedInv'
<1>1. /\ Feed!TypeOK /\ Times /\ Window
      /\ run \in Feed!Run /\ run.page >= 1 /\ run.page \in Nat
      /\ NewOnes \subseteq Feed!Listing /\ Feed!Listing \subseteq Entries
  BY RunIs
<1>2. /\ run.pc = "listing" /\ kind \in Feed!Cursors /\ run.page = 1
      /\ run' = [run EXCEPT !.todo = Feed!Listing, !.page = 2]
      /\ UNCHANGED <<kind, range, clock, feed, since, captured>> /\ cause' = cause
  BY DEF Feed!OpenCursor, Feed!sourceVars
<1>3. run' \in Feed!Run /\ run'.got = run.got /\ run'.found = run.found /\ run'.pc = run.pc
      /\ run'.page = 2 /\ run'.todo = Feed!Listing
      /\ run'.since = run.since /\ run'.until = run.until /\ run'.today = run.today
      /\ run'.undated = run.undated /\ run'.disturbed = run.disturbed
  BY <1>1, <1>2 DEF Feed!Run
<1>4. run'.pc # "idle" /\ cause' \in [Entries -> Feed!Causes]
  <2>1. cause \in [Entries -> Feed!Causes]
    BY <1>1, FeedTyped
  <2> QED
    BY <1>2, <1>3, <2>1
<1>5. /\ Feed!TypeOK' /\ LossIsExcused'
      /\ run'.since = Feed!EffectiveSince(run.today)'
      /\ run'.until = Feed!Until(run.today)' /\ run'.today <= clock'
  BY <1>2, <1>3, <1>4, ListingGoesOn
<1>6. /\ Feed!Listing' = Feed!Listing /\ NewOnes' = NewOnes /\ Place' = Place
  BY <1>2, <1>3, ListingStays
<1>7. run.found = {} /\ kind \notin Feed!Numbered
  BY <1>1, <1>2 DEF Window, Feed!Cursors, Feed!Numbered
<1>8. Times'
  <2>1. \A e \in Feed!Listing : kind \in {"mail", "event"} => feed[e].changed > run.since
    BY DEF Feed!Listing, Feed!Asked, Feed!MailAsked, Feed!EventAsked
  <2> QED
    BY <1>1, <1>2, <1>3, <1>7, <2>1 DEF Times
<1>9. Window'
  BY <1>1, <1>2, <1>3, <1>4, <1>5, <1>7 DEF Window
<1>10. Unseen = Entries /\ Unseen' = Feed!Listing
  BY <1>2, <1>3, <1>7 DEF Unseen
<1>11. ExactlyNew'
  <2>1. ~run.disturbed => \A e \in Entries : run.got[e] = 0
    BY <1>2, <1>10 DEF FeedInv, ExactlyNew, Awaited
  <2> QED
    BY <1>1, <1>2, <1>3, <1>6, <1>7, <1>10, <2>1 DEF ExactlyNew, Awaited
<1>12. NewIsHeld'
  <2>1. NewIsHeld
    BY DEF FeedInv
  <2> QED
    BY <1>1, <1>2, <1>3, <1>6, <1>7, <1>10, <2>1 DEF NewIsHeld, Awaited
<1> QED
  BY <1>5, <1>8, <1>9, <1>11, <1>12 DEF FeedInv

\* The browser's history is all there.
LEMMA FeedCopies == ASSUME FeedInv, Feed!CopyHistory PROVE FeedInv'
<1> DEFINE G == Feed!Take(Feed!Present)
<1>1. /\ Feed!TypeOK /\ Times /\ Window
      /\ run \in Feed!Run /\ run.page >= 1 /\ run.page \in Nat
      /\ \A e \in Entries :
           /\ feed[e].changed \in Nat /\ feed[e].made \in Nat /\ run.got[e] \in Nat
           /\ feed[e].changed <= clock /\ feed[e].made <= feed[e].changed
           /\ feed[e].there => feed[e].changed # 0
      /\ run.since \in Nat
  BY RunIs
<1>2. /\ run.pc = "listing" /\ kind = "visit"
      /\ run' = [run EXCEPT !.got = G, !.pc = "listed"]
      /\ UNCHANGED <<kind, range, clock, feed, since, captured>> /\ cause' = cause
  BY DEF Feed!CopyHistory, Feed!sourceVars
<1>3. /\ kind \notin Feed!Numbered /\ kind \notin Feed!Cursors /\ kind \notin Feed!ReadLater
  BY <1>2 DEF Feed!Numbered, Feed!Cursors, Feed!ReadLater
<1>4. NewOnes = {e \in Entries : feed[e].there /\ feed[e].changed > run.since}
  BY <1>2 DEF NewOnes, Feed!Listing, Feed!Present, Feed!Asked, Feed!Wanted, Feed!VisitWanted
<1>5. \A e \in Entries : G[e] = IF e \in NewOnes THEN feed[e].changed ELSE run.got[e]
  BY <1>2, <1>3, <1>4 DEF Feed!Take, Feed!Present, Feed!Wanted, Feed!VisitWanted
<1>6. G \in [Entries -> EntryTime]
  <2>1. \A e \in Entries : feed[e].changed \in EntryTime /\ run.got[e] \in EntryTime
    BY <1>1, FeedTyped
  <2> QED
    BY <2>1 DEF Feed!Take
<1> HIDE DEF G
<1>7. run' \in Feed!Run /\ run'.got = G /\ run'.found = run.found /\ run'.pc = "listed"
      /\ run'.page = run.page /\ run'.todo = run.todo
      /\ run'.since = run.since /\ run'.until = run.until /\ run'.today = run.today
      /\ run'.undated = run.undated /\ run'.disturbed = run.disturbed
  BY <1>1, <1>2, <1>6 DEF Feed!Run, Feed!Time, EntryTime
<1>8. run'.pc # "idle" /\ cause' \in [Entries -> Feed!Causes]
  <2>1. cause \in [Entries -> Feed!Causes]
    BY <1>1, FeedTyped
  <2> QED
    BY <1>2, <1>7, <2>1
<1>9. /\ Feed!TypeOK' /\ LossIsExcused'
      /\ run'.since = Feed!EffectiveSince(run.today)'
      /\ run'.until = Feed!Until(run.today)' /\ run'.today <= clock'
  BY <1>2, <1>7, <1>8, ListingGoesOn
<1>10. /\ Feed!Listing' = Feed!Listing /\ NewOnes' = NewOnes /\ Place' = Place
  BY <1>2, <1>7, ListingStays
<1>11. run.found = {}
  BY <1>1, <1>3 DEF Window
<1>12. Unseen = Entries /\ Unseen' = {}
  BY <1>2, <1>3, <1>7 DEF Unseen
<1>13. Times'
  <2>1. \A e \in Entries : /\ G[e] <= clock
                           /\ G[e] # 0 => G[e] > run.since \/ e \in run.undated
    BY <1>1, <1>4, <1>5 DEF Times
  <2> QED
    BY <1>1, <1>2, <1>7, <1>11, <2>1 DEF Times
<1>14. Window'
  BY <1>1, <1>2, <1>3, <1>7, <1>8, <1>9, <1>11 DEF Window
<1>15. ExactlyNew'
  <2>1. ~run.disturbed => \A e \in Entries : run.got[e] = 0
    BY <1>2, <1>12 DEF FeedInv, ExactlyNew, Awaited
  <2>2. ~run.disturbed => \A e \in Entries : G[e] # 0 <=> e \in NewOnes
    BY <1>1, <1>4, <1>5, <2>1
  <2> QED
    BY <1>2, <1>3, <1>7, <1>10, <1>11, <1>12, <2>2 DEF ExactlyNew, Awaited
<1>16. NewIsHeld'
  <2>1. NewIsHeld
    BY DEF FeedInv
  <2>2. \A e \in NewOnes : G[e] # 0
    BY <1>1, <1>4, <1>5
  <2>3. \A e \in Entries : G[e] # 0 /\ G[e] # feed[e].changed => G[e] = run.got[e]
    BY <1>5
  <2> QED
    BY <1>2, <1>7, <1>10, <2>1, <2>2, <2>3 DEF NewIsHeld
<1> QED
  BY <1>9, <1>13, <1>14, <1>15, <1>16 DEF FeedInv

\* A category is lost: all that was new in it is skipped.
LEMMA FeedLoses == ASSUME FeedInv, Feed!LoseCategory PROVE FeedInv'
<1> DEFINE v == [run EXCEPT !.pc = "listed", !.got = Feed!Nothing]
<1>1. /\ Feed!TypeOK /\ Times /\ Window
      /\ run \in Feed!Run /\ run.page >= 1 /\ run.page \in Nat
  BY RunIs
<1>2. /\ run.pc = "listing" /\ kind \in {"commit", "pull", "issue", "star"}
      /\ run' = [run EXCEPT !.pc = "listed", !.got = Feed!Nothing, !.disturbed = TRUE]
      /\ UNCHANGED <<kind, range, clock, feed, since, captured>>
      /\ cause' = [e \in Entries |-> IF feed[e].changed > since \/ run.got[e] # 0
                                     THEN "skipped" ELSE cause[e]]
  BY DEF Feed!LoseCategory, Feed!sourceVars
<1>3. Feed!Nothing \in [Entries -> EntryTime] /\ \A e \in Entries : Feed!Nothing[e] = 0
  BY <1>1, FeedTyped DEF Feed!Nothing, EntryTime
<1>4. v \in Feed!Run /\ v.got = Feed!Nothing /\ v.found = run.found /\ v.pc = "listed"
      /\ v.page = run.page /\ v.todo = run.todo
      /\ v.since = run.since /\ v.until = run.until /\ v.today = run.today
      /\ v.undated = run.undated
  BY <1>1, <1>3 DEF Feed!Run, Feed!Time, EntryTime
<1>5. run' = [v EXCEPT !.disturbed = TRUE]
  BY <1>2
<1> HIDE DEF v
<1>6. run' \in Feed!Run /\ run'.got = Feed!Nothing /\ run'.found = run.found
      /\ run'.pc = "listed" /\ run'.page = run.page /\ run'.todo = run.todo
      /\ run'.since = run.since /\ run'.until = run.until /\ run'.today = run.today
      /\ run'.undated = run.undated /\ run'.disturbed = TRUE
  BY <1>4, <1>5 DEF Feed!Run
<1>7. /\ run'.pc # "idle" /\ cause' \in [Entries -> Feed!Causes]
      /\ \A e \in Entries : cause'[e] \in {cause[e], "skipped"}
      /\ \A e \in Entries : feed[e].changed > since => cause'[e] = "skipped"
  <2>1. cause \in [Entries -> Feed!Causes]
    BY <1>1, FeedTyped
  <2> QED
    BY <1>2, <1>6, <2>1 DEF Feed!Causes
<1>8. /\ Feed!TypeOK' /\ LossIsExcused'
      /\ run'.since = Feed!EffectiveSince(run.today)'
      /\ run'.until = Feed!Until(run.today)' /\ run'.today <= clock'
  BY <1>2, <1>6, <1>7, ListingGoesOn
<1>9. /\ kind \notin Feed!Cursors /\ kind \notin Feed!ReadLater /\ kind \in Feed!Numbered
      /\ run.found = {}
  BY <1>1, <1>2 DEF Window, Feed!Cursors, Feed!ReadLater, Feed!Numbered
<1>10. Times'
  <2>1. clock >= 0
    BY <1>1, FeedTyped DEF EntryTime
  <2> QED
    BY <1>1, <1>2, <1>3, <1>6, <2>1 DEF Times
<1>11. Window'
  BY <1>1, <1>2, <1>6, <1>7, <1>8, <1>9 DEF Window
<1>12. ExactlyNew'
  BY <1>6 DEF ExactlyNew
<1>13. NewIsHeld'
  BY <1>2, <1>3, <1>6, <1>7, <1>9 DEF NewIsHeld
<1> QED
  BY <1>8, <1>10, <1>11, <1>12, <1>13 DEF FeedInv

\* A page of a cursor: what is on it is held, or found and yet to be read, or passed
\* over; the rest is still to come.
LEMMA FeedCursors == ASSUME FeedInv, Feed!FetchCursorPage PROVE FeedInv'
<1>1. /\ Feed!TypeOK /\ Times /\ Window
      /\ run \in Feed!Run /\ run.page >= 1 /\ run.page \in Nat
      /\ \A e \in Entries :
           /\ feed[e].changed \in Nat /\ feed[e].made \in Nat /\ run.got[e] \in Nat
           /\ feed[e].changed <= clock /\ feed[e].made <= feed[e].changed
           /\ feed[e].there => feed[e].changed # 0
      /\ run.since \in Nat
      /\ NewOnes \subseteq Feed!Listing /\ Feed!Listing \subseteq Entries
      /\ \A e \in Feed!Listing : feed[e].there
  BY RunIs
<1> PICK S \in SUBSET run.todo :
      /\ Feed!IsCursorPage(S)
      /\ \E bad \in Feed!Unparsed(S) :
           /\ run' = [run EXCEPT !.got = Feed!Take((S \cap Feed!Present) \ bad),
                                 !.found = Feed!Find(S), !.todo = run.todo \ S,
                                 !.pc = Feed!AfterPage(S, S = run.todo)]
           /\ cause' = Feed!Skip(bad)
  BY DEF Feed!FetchCursorPage
<1>2. PICK bad \in Feed!Unparsed(S) :
        /\ run' = [run EXCEPT !.got = Feed!Take((S \cap Feed!Present) \ bad),
                              !.found = Feed!Find(S), !.todo = run.todo \ S,
                              !.pc = Feed!AfterPage(S, S = run.todo)]
        /\ cause' = Feed!Skip(bad)
  OBVIOUS
<1>3. /\ run.pc = "listing" /\ kind \in Feed!Cursors /\ run.page = 2
      /\ UNCHANGED <<kind, range, clock, feed, since, captured>>
  BY DEF Feed!FetchCursorPage, Feed!sourceVars
<1> DEFINE G == Feed!Take((S \cap Feed!Present) \ bad)
           F == Feed!Find(S)
           D == run.todo \ S
           p == Feed!AfterPage(S, S = run.todo)
           v == [run EXCEPT !.got = G, !.found = F]
<1>4. kind \in {"mail", "event", "page", "file"} /\ kind \notin Feed!Numbered
  BY <1>3 DEF Feed!Cursors, Feed!Numbered
<1>5. kind \in Feed!ReadLater <=> kind # "event"
  BY <1>4 DEF Feed!ReadLater
<1>6. S \subseteq Entries /\ bad \subseteq S /\ (kind # "event" => bad = {})
  <2>1. run.todo \in SUBSET Entries
    BY <1>1, FeedTyped
  <2> QED
    BY <1>2, <2>1 DEF Feed!Unparsed
<1>7. \A e \in Entries :
        /\ kind \in {"page", "file"} => (Feed!Wanted(e) <=> feed[e].changed > run.since)
        /\ kind \in {"mail", "event"} => Feed!Wanted(e)
        /\ e \in NewOnes <=> e \in Feed!Listing /\ Feed!Wanted(e)
  BY <1>1, <1>4 DEF Feed!Wanted, Feed!PageWanted, Feed!FileWanted, NewOnes
<1>8. \A e \in Entries : G[e] = IF e \in S /\ kind = "event" /\ feed[e].there /\ e \notin bad
                                THEN feed[e].changed ELSE run.got[e]
  BY <1>5, <1>6, <1>7 DEF Feed!Take, Feed!Present
<1>9. F = IF kind = "event" THEN {}
          ELSE run.found \cup {e \in S : kind = "page" => feed[e].changed > run.since}
  BY <1>5, <1>6, <1>7 DEF Feed!Find
<1>10. p = IF ~(S = run.todo) THEN "listing" ELSE IF F # {} THEN "reading" ELSE "listed"
  BY DEF Feed!AfterPage
<1>11. /\ \A e \in Entries : cause'[e] = IF e \in bad THEN "skipped" ELSE cause[e]
       /\ cause' \in [Entries -> Feed!Causes]
  <2>1. cause \in [Entries -> Feed!Causes]
    BY <1>1, FeedTyped
  <2>2. \A e \in bad : Feed!Wanted(e)
    BY <1>6, <1>7
  <2> QED
    BY <1>2, <2>1, <2>2 DEF Feed!Skip, Feed!Causes
<1>12. /\ run.todo \in SUBSET Entries /\ run.found \in SUBSET Entries
       /\ run.got \in [Entries -> EntryTime]
       /\ \A e \in Entries : feed[e].changed \in EntryTime /\ run.got[e] \in EntryTime
  BY <1>1, FeedTyped
<1>13. G \in [Entries -> EntryTime] /\ F \in SUBSET Entries /\ D \in SUBSET Entries
  BY <1>6, <1>9, <1>12 DEF Feed!Take
<1> HIDE DEF G, F, D, p
<1>14. v \in Feed!Run /\ v.got = G /\ v.found = F /\ v.pc = run.pc /\ v.page = run.page
       /\ v.since = run.since /\ v.until = run.until /\ v.today = run.today
       /\ v.todo = run.todo /\ v.undated = run.undated /\ v.disturbed = run.disturbed
  BY <1>1, <1>13 DEF Feed!Run, Feed!Time, EntryTime
<1>15. run' = [v EXCEPT !.todo = D, !.pc = p]
  BY <1>2 DEF G, F, D, p
<1>16. p \in {"listing", "reading", "listed"}
  BY <1>10
<1> HIDE DEF v
<1>17. run' \in Feed!Run /\ run'.got = G /\ run'.found = F /\ run'.pc = p /\ run'.todo = D
       /\ run'.page = run.page
       /\ run'.since = run.since /\ run'.until = run.until /\ run'.today = run.today
       /\ run'.undated = run.undated /\ run'.disturbed = run.disturbed
  BY <1>13, <1>14, <1>15, <1>16 DEF Feed!Run
<1>18. run'.pc # "idle" /\ \A e \in Entries : cause'[e] \in {cause[e], "skipped"}
  BY <1>11, <1>16, <1>17
<1>19. /\ Feed!TypeOK' /\ LossIsExcused'
       /\ run'.since = Feed!EffectiveSince(run.today)'
       /\ run'.until = Feed!Until(run.today)' /\ run'.today <= clock'
  BY <1>3, <1>11, <1>17, <1>18, ListingGoesOn
<1>20. /\ Feed!Listing' = Feed!Listing /\ NewOnes' = NewOnes /\ Place' = Place
  BY <1>3, <1>17, ListingStays
<1>21. /\ kind = "event" => run.found = {}
       /\ run.found \cap run.todo = {}
       /\ \A e \in run.todo : kind \in {"mail", "event"} => feed[e].changed > run.since
  <2>1. \A e \in run.todo : e \in Entries
    BY <1>12
  <2> QED
    BY <1>1, <1>3, <1>5, <2>1 DEF Window, Times
<1>22. D = run.todo \ S /\ S \subseteq run.todo /\ (p # "listing" => D = {})
  BY <1>2, <1>10 DEF D
<1>23. Times'
  <2>1. ASSUME NEW e \in Entries
        PROVE  G[e] <= clock /\ (G[e] # 0 => G[e] > run.since \/ e \in run.undated)
    BY <1>1, <1>8, <1>21, <1>22 DEF Times
  <2>2. ASSUME NEW e \in F, kind \in {"mail", "page"} PROVE feed[e].changed > run.since
    <3>1. CASE e \in run.found
      BY <1>1, <1>12, <2>2, <3>1 DEF Times
    <3>2. CASE e \in S
      BY <1>9, <1>21, <1>22, <2>2, <3>1, <3>2
    <3> QED
      BY <1>9, <3>1, <3>2
  <2> QED
    BY <1>1, <1>3, <1>17, <1>21, <1>22, <2>1, <2>2 DEF Times
<1>24. Window'
  <2>1. F \cap D = {}
    BY <1>9, <1>21, <1>22
  <2>2. p = "listed" => F = {}
    BY <1>10
  <2>3. p = "reading" => kind \in Feed!ReadLater
    BY <1>5, <1>9, <1>10
  <2>4. kind \notin Feed!ReadLater => F = {}
    BY <1>5, <1>9
  <2> QED
    BY <1>1, <1>3, <1>17, <1>16, <1>19, <2>1, <2>2, <2>3, <2>4 DEF Window
<1>25. Awaited = run.todo \cup run.found /\ Awaited' = D \cup F
  BY <1>3, <1>4, <1>17, <1>22 DEF Awaited, Unseen
<1>26. ExactlyNew'
  <2> SUFFICES ASSUME ~run.disturbed
               PROVE  /\ F \subseteq Feed!Listing
                      /\ kind = "page" => F \subseteq NewOnes
                      /\ D \subseteq Feed!Listing
                      /\ \A e \in Entries :
                           IF e \in D \cup F THEN G[e] = 0
                           ELSE cause'[e] # "skipped" /\ e \notin run.undated =>
                                  (G[e] # 0 <=> e \in NewOnes)
    BY <1>3, <1>17, <1>20, <1>25 DEF ExactlyNew
  <2>1. /\ run.found \subseteq Feed!Listing /\ run.todo \subseteq Feed!Listing
        /\ kind = "page" => run.found \subseteq NewOnes
        /\ \A e \in Entries :
             IF e \in run.todo \cup run.found THEN run.got[e] = 0
             ELSE cause[e] # "skipped" /\ e \notin run.undated =>
                    (run.got[e] # 0 <=> e \in NewOnes)
    BY <1>3, <1>25 DEF FeedInv, ExactlyNew
  <2>2. F \subseteq Feed!Listing /\ D \subseteq Feed!Listing
    BY <1>9, <1>22, <2>1
  <2>3. ASSUME kind = "page", NEW e \in F PROVE e \in NewOnes
    BY <1>7, <1>9, <1>13, <2>1, <2>2, <2>3
  <2>4. ASSUME NEW e \in Entries, e \in D \cup F PROVE G[e] = 0
    <3>1. e \in run.todo \cup run.found
      BY <1>9, <1>22, <2>4
    <3>2. G[e] = run.got[e]
      BY <1>8, <1>9, <1>21, <1>22, <2>4
    <3> QED
      BY <2>1, <3>1, <3>2
  <2>5. ASSUME NEW e \in Entries, e \notin D \cup F, cause'[e] # "skipped",
               e \notin run.undated
        PROVE  G[e] # 0 <=> e \in NewOnes
    <3>1. CASE e \in S /\ kind = "event"
      <4>1. e \notin bad /\ e \in Feed!Listing
        BY <1>11, <1>22, <2>1, <2>5, <3>1
      <4> QED
        BY <1>1, <1>7, <1>8, <3>1, <4>1
    <3>2. CASE e \in S /\ kind # "event"
      <4>1. kind = "page" /\ ~(feed[e].changed > run.since)
        BY <1>9, <2>5, <3>2
      <4>2. G[e] = 0
        BY <1>8, <1>22, <2>1, <3>2
      <4>3. e \notin NewOnes
        BY <1>7, <4>1
      <4> QED
        BY <4>2, <4>3
    <3>3. CASE e \notin S
      <4>1. G[e] = run.got[e] /\ cause'[e] = cause[e]
        BY <1>6, <1>8, <1>11, <3>3
      <4>2. e \notin run.todo \cup run.found
        BY <1>9, <1>21, <1>22, <2>5, <3>3
      <4> QED
        BY <2>1, <2>5, <4>1, <4>2
    <3> QED
      BY <3>1, <3>2, <3>3
  <2> QED
    BY <2>2, <2>3, <2>4, <2>5
<1>27. NewIsHeld'
  <2>1. /\ \A e \in Entries :
             feed[e].there /\ feed[e].changed > since =>
               /\ cause[e] # "outside"
               /\ cause[e] = "none" => /\ e \in NewOnes => e \in run.todo \cup run.found \/ run.got[e] # 0
                                       /\ feed[e].changed <= run.today + LocalLag
        /\ \A e \in Entries :
             /\ run.got[e] # 0 /\ feed[e].there /\ run.got[e] # feed[e].changed =>
                  cause[e] \in {"raced", "skipped"}
             /\ cause[e] = "shifted" => kind \in Feed!Numbered
    BY <1>3, <1>25 DEF FeedInv, NewIsHeld
  <2>2. ASSUME NEW e \in NewOnes, cause'[e] = "none",
               e \in run.todo \cup run.found \/ run.got[e] # 0
        PROVE  e \in D \cup F \/ G[e] # 0
    <3>1. e \in Entries /\ feed[e].there /\ e \notin bad /\ feed[e].changed # 0
      BY <1>1, <1>11, <2>2
    <3>2. CASE run.got[e] # 0
      BY <1>8, <3>1, <3>2
    <3>3. CASE e \in run.found
      BY <1>9, <1>21, <3>3
    <3>4. CASE e \in run.todo /\ e \notin S
      BY <1>22, <3>4
    <3>5. CASE e \in S
      <4>1. kind = "event" => G[e] # 0
        BY <1>8, <3>1, <3>5
      <4>2. kind = "page" => feed[e].changed > run.since
        BY <1>7, <3>1
      <4> QED
        BY <1>9, <3>5, <4>1, <4>2
    <3> QED
      BY <2>2, <3>2, <3>3, <3>4, <3>5
  <2>3. ASSUME NEW e \in Entries, G[e] # 0, feed[e].there, G[e] # feed[e].changed
        PROVE  cause'[e] \in {"raced", "skipped"}
    BY <1>8, <1>11, <2>1, <2>3
  <2>4. ASSUME NEW e \in Entries, feed[e].there, feed[e].changed > since
        PROVE  /\ cause'[e] # "outside"
               /\ cause'[e] = "none" => /\ e \in NewOnes => e \in D \cup F \/ G[e] # 0
                                        /\ feed[e].changed <= run.today + LocalLag
    BY <1>18, <2>1, <2>2, <2>4
  <2>5. \A e \in Entries : cause'[e] = "shifted" => kind \in Feed!Numbered
    BY <1>18, <2>1
  <2> QED
    BY <1>3, <1>17, <1>20, <1>25, <2>3, <2>4, <2>5 DEF NewIsHeld
<1> QED
  BY <1>19, <1>23, <1>24, <1>26, <1>27 DEF FeedInv

\* One entry is read, or is gone, or fails on its own: it is held, was not new, or is
\* passed over.
LEMMA FeedReads == ASSUME FeedInv, Feed!ReadNext PROVE FeedInv'
<1>1. /\ Feed!TypeOK /\ Times /\ Window
      /\ run \in Feed!Run /\ run.page >= 1 /\ run.page \in Nat
      /\ \A e \in Entries :
           /\ feed[e].changed \in Nat /\ feed[e].made \in Nat /\ run.got[e] \in Nat
           /\ feed[e].changed <= clock /\ feed[e].made <= feed[e].changed
           /\ feed[e].there => feed[e].changed # 0
      /\ run.since \in Nat
      /\ NewOnes \subseteq Feed!Listing /\ Feed!Listing \subseteq Entries
      /\ \A e \in Feed!Listing : feed[e].there
  BY RunIs
<1>2. /\ run.found # {} /\ (run.pc = "reading" \/ kind = "page")
      /\ UNCHANGED <<kind, range, clock, feed, since, captured>>
  BY DEF Feed!ReadNext, Feed!sourceVars
<1>3. PICK e \in run.found, read \in BOOLEAN, undated \in BOOLEAN :
        LET new == e \in Feed!Present /\ (kind = "page" \/ undated \/ Feed!Wanted(e))
            left == run.found \ {e} IN
          /\ undated => kind = "repo" /\ read /\ e \in Feed!Present /\ ~Feed!Wanted(e)
          /\ run' = [run EXCEPT
                       !.found = left,
                       !.undated = IF undated THEN @ \cup {e} ELSE @,
                       !.got = IF read /\ new THEN [@ EXCEPT ![e] = feed[e].changed] ELSE @,
                       !.pc = IF @ = "reading" /\ left = {} THEN "listed" ELSE @]
          /\ cause' = IF read \/ ~new THEN cause ELSE [cause EXCEPT ![e] = "skipped"]
  BY DEF Feed!ReadNext
<1> DEFINE new == e \in Feed!Present /\ (kind = "page" \/ undated \/ Feed!Wanted(e))
           F == run.found \ {e}
           U == IF undated THEN run.undated \cup {e} ELSE run.undated
           G == IF read /\ new THEN [run.got EXCEPT ![e] = feed[e].changed] ELSE run.got
           p == IF run.pc = "reading" /\ F = {} THEN "listed" ELSE run.pc
           v == [run EXCEPT !.found = F, !.undated = U]
<1>4. /\ kind \in Feed!ReadLater /\ run.pc \in {"listing", "reading"}
      /\ run.page # 1 /\ e \in Entries
  <2>1. run.pc \in {"idle", "listing", "reading", "listed"} /\ run.found \in SUBSET Entries
    BY <1>1, FeedTyped
  <2> QED
    BY <1>1, <1>2, <2>1 DEF Window
<1>5. run.pc = "listing" => kind = "page" /\ kind \in Feed!Cursors /\ kind \notin Feed!Numbered /\ run.page = 2
  <2>1. kind = "page" => kind \in Feed!Cursors /\ kind \notin Feed!Numbered
    BY DEF Feed!Cursors, Feed!Numbered
  <2> QED
    BY <1>1, <1>2, <1>4, <2>1 DEF Window
<1>6. /\ run.found \in SUBSET Entries /\ run.got \in [Entries -> EntryTime]
      /\ run.undated \in SUBSET Entries /\ feed[e].changed \in EntryTime
  BY <1>1, <1>4, FeedTyped
<1>7. F \in SUBSET Entries /\ U \in SUBSET Entries /\ G \in [Entries -> EntryTime]
  BY <1>4, <1>6
<1>8. \A f \in Entries :
        /\ read /\ new /\ f = e => G[f] = feed[f].changed
        /\ ~(read /\ new /\ f = e) => G[f] = run.got[f]
  BY <1>4, <1>6
<1>9. p \in {"listing", "reading", "listed"} /\ (p = "listing" <=> run.pc = "listing")
      /\ (p = "listed" => F = {}) /\ (p = "reading" => run.pc = "reading")
  BY <1>4
<1>10. new => feed[e].there
  BY DEF Feed!Present
<1>11. undated => kind = "repo" /\ read /\ feed[e].there /\ ~Feed!Wanted(e) /\ new
  BY <1>3 DEF Feed!Present
<1>12. /\ \A f \in Entries : cause'[f] \in {cause[f], "skipped"}
       /\ \A f \in Entries : f # e \/ read \/ ~new => cause'[f] = cause[f]
       /\ new /\ cause'[e] # "skipped" => read
       /\ cause' \in [Entries -> Feed!Causes]
  <2>1. cause \in [Entries -> Feed!Causes]
    BY <1>1, FeedTyped
  <2>2. cause' = IF read \/ ~new THEN cause ELSE [cause EXCEPT ![e] = "skipped"]
    BY <1>3
  <2> HIDE DEF new
  <2> QED
    BY <1>4, <2>1, <2>2 DEF Feed!Causes
<1>13. run' = [run EXCEPT !.found = F, !.undated = U, !.got = G, !.pc = p]
  BY <1>3
<1>14. new <=> feed[e].there /\ (kind = "page" \/ undated \/ Feed!Wanted(e))
  BY <1>4 DEF Feed!Present
<1>15. F = run.found \ {e} /\ (undated => U = run.undated \cup {e})
       /\ (~undated => U = run.undated)
  OBVIOUS
<1> HIDE DEF new, F, U, G, p
<1>16. v \in Feed!Run /\ v.got = run.got /\ v.found = F /\ v.undated = U /\ v.pc = run.pc
       /\ v.page = run.page /\ v.todo = run.todo
       /\ v.since = run.since /\ v.until = run.until /\ v.today = run.today
       /\ v.disturbed = run.disturbed
  BY <1>1, <1>7 DEF Feed!Run
<1>17. run' = [v EXCEPT !.got = G, !.pc = p]
  BY <1>13
<1> HIDE DEF v
<1>18. run' \in Feed!Run /\ run'.got = G /\ run'.found = F /\ run'.undated = U /\ run'.pc = p
       /\ run'.page = run.page /\ run'.todo = run.todo
       /\ run'.since = run.since /\ run'.until = run.until /\ run'.today = run.today
       /\ run'.disturbed = run.disturbed
  BY <1>7, <1>9, <1>16, <1>17 DEF Feed!Run, Feed!Time, EntryTime
<1>19. /\ Feed!TypeOK' /\ LossIsExcused'
       /\ run'.since = Feed!EffectiveSince(run.today)'
       /\ run'.until = Feed!Until(run.today)' /\ run'.today <= clock'
  <2>1. run.pc # "idle" /\ run'.pc # "idle"
    BY <1>4, <1>9, <1>18
  <2> QED
    BY <1>2, <1>12, <1>18, <2>1, ListingGoesOn
<1>20. /\ Feed!Listing' = Feed!Listing /\ NewOnes' = NewOnes /\ Place' = Place
  BY <1>2, <1>18, ListingStays
<1>21. new => feed[e].changed > run.since \/ undated
  <2>1. kind \in {"mail", "page"} => feed[e].changed > run.since
    BY <1>1, <1>4 DEF Times
  <2>2. kind \in {"repo", "mail", "page", "file"}
    BY <1>4 DEF Feed!ReadLater
  <2>3. kind = "repo" /\ Feed!Wanted(e) => feed[e].made > run.since
    BY DEF Feed!Wanted, Feed!ReadmeWanted
  <2>4. kind = "file" /\ Feed!Wanted(e) => feed[e].changed > run.since
    BY DEF Feed!Wanted, Feed!FileWanted
  <2> QED
    BY <1>1, <1>4, <1>14, <2>1, <2>2, <2>3, <2>4
<1>22. Times'
  <2>1. ASSUME NEW f \in Entries
        PROVE  G[f] <= clock /\ (G[f] # 0 => G[f] > run.since \/ f \in U)
    <3>1. run.got[f] <= clock /\ (run.got[f] # 0 => run.got[f] > run.since \/ f \in run.undated)
      BY <1>1 DEF Times
    <3> QED
      BY <1>1, <1>8, <1>15, <1>21, <3>1
  <2> QED
    BY <1>1, <1>2, <1>15, <1>18, <2>1 DEF Times
<1>23. Window'
  <2>1. U # {} => kind = "repo"
    BY <1>1, <1>11, <1>15 DEF Window
  <2>2. kind \in Feed!Cursors /\ run.page = 2 => F \cap run.todo = {}
    BY <1>1, <1>15 DEF Window
  <2> QED
    BY <1>1, <1>2, <1>4, <1>9, <1>18, <1>19, <2>1, <2>2 DEF Window
<1>24. Unseen' = Unseen /\ Awaited = Unseen \cup run.found /\ Awaited' = Unseen \cup F
  <2>1. Unseen' = Unseen
    BY <1>2, <1>4, <1>5, <1>9, <1>18 DEF Unseen
  <2> QED
    BY <1>18, <2>1 DEF Awaited
<1>25. e \notin Unseen
  BY <1>1, <1>4, <1>5 DEF Unseen, Window
<1>26. e \in NewOnes => new /\ ~undated
  BY <1>1, <1>11, <1>14 DEF NewOnes
<1>27. ExactlyNew'
  <2> SUFFICES ASSUME ~run.disturbed
               PROVE  /\ F \subseteq Feed!Listing
                      /\ kind = "page" => F \subseteq NewOnes
                      /\ kind \in Feed!Cursors /\ run.page = 2 => run.todo \subseteq Feed!Listing
                      /\ \A f \in Entries :
                           IF f \in Unseen \cup F THEN G[f] = 0
                           ELSE cause'[f] # "skipped" /\ f \notin U =>
                                  (G[f] # 0 <=> f \in NewOnes)
    BY <1>2, <1>18, <1>20, <1>24 DEF ExactlyNew
  <2>1. /\ run.found \subseteq Feed!Listing
        /\ kind = "page" => run.found \subseteq NewOnes
        /\ kind \in Feed!Cursors /\ run.page = 2 => run.todo \subseteq Feed!Listing
        /\ \A f \in Entries :
             IF f \in Unseen \cup run.found THEN run.got[f] = 0
             ELSE cause[f] # "skipped" /\ f \notin run.undated =>
                    (run.got[f] # 0 <=> f \in NewOnes)
    BY <1>4, <1>24 DEF FeedInv, ExactlyNew
  <2>2. ASSUME NEW f \in Entries, f \in Unseen \cup F PROVE G[f] = 0
    BY <1>8, <1>15, <1>25, <2>1, <2>2
  <2>3. ASSUME NEW f \in Entries, f \notin Unseen \cup F, cause'[f] # "skipped", f \notin U
        PROVE  G[f] # 0 <=> f \in NewOnes
    <3>1. CASE f = e
      <4>1. run.got[e] = 0 /\ e \in Feed!Listing /\ ~undated
        BY <1>4, <1>15, <2>1, <2>3, <3>1
      <4>2. new => e \in NewOnes
        BY <1>14, <2>1, <4>1 DEF NewOnes
      <4>3. new => read
        BY <1>12, <2>3, <3>1
      <4> QED
        BY <1>1, <1>4, <1>8, <1>10, <1>26, <3>1, <4>1, <4>2, <4>3
    <3>2. CASE f # e
      BY <1>8, <1>12, <1>15, <2>1, <2>3, <3>2
    <3> QED
      BY <3>1, <3>2
  <2> QED
    BY <1>15, <2>1, <2>2, <2>3
<1>28. NewIsHeld'
  <2>1. /\ \A f \in Entries :
             feed[f].there /\ feed[f].changed > since =>
               /\ cause[f] # "outside"
               /\ cause[f] = "none" => /\ f \in NewOnes => f \in Unseen \cup run.found \/ run.got[f] # 0
                                       /\ feed[f].changed <= run.today + LocalLag
        /\ \A f \in Entries :
             /\ run.got[f] # 0 /\ feed[f].there /\ run.got[f] # feed[f].changed =>
                  cause[f] \in {"raced", "skipped"}
             /\ cause[f] = "shifted" => kind \in Feed!Numbered
    BY <1>4, <1>24 DEF FeedInv, NewIsHeld
  <2>2. ASSUME NEW f \in NewOnes, cause'[f] = "none",
               f \in Unseen \cup run.found \/ run.got[f] # 0
        PROVE  f \in Unseen \cup F \/ G[f] # 0
    <3>1. CASE f = e
      BY <1>1, <1>4, <1>8, <1>10, <1>12, <1>26, <2>2, <3>1
    <3>2. CASE f # e
      BY <1>1, <1>8, <1>15, <2>2, <3>2
    <3> QED
      BY <3>1, <3>2
  <2>3. ASSUME NEW f \in Entries, G[f] # 0, feed[f].there, G[f] # feed[f].changed
        PROVE  cause'[f] \in {"raced", "skipped"}
    BY <1>8, <1>12, <2>1, <2>3
  <2>4. ASSUME NEW f \in Entries, feed[f].there, feed[f].changed > since
        PROVE  /\ cause'[f] # "outside"
               /\ cause'[f] = "none" => /\ f \in NewOnes => f \in Unseen \cup F \/ G[f] # 0
                                        /\ feed[f].changed <= run.today + LocalLag
    BY <1>12, <2>1, <2>2, <2>4
  <2>5. \A f \in Entries : cause'[f] = "shifted" => kind \in Feed!Numbered
    BY <1>12, <2>1
  <2> QED
    BY <1>2, <1>18, <1>20, <1>24, <2>3, <2>4, <2>5 DEF NewIsHeld
<1> QED
  BY <1>19, <1>22, <1>23, <1>27, <1>28 DEF FeedInv

\* What an entry that appears or changes leaves of the feed: everything else.
LEMMA SourceMoves ==
  ASSUME FeedInv, NEW e \in Entries, Feed!Appear(e) \/ Feed!Edit(e)
  PROVE  /\ clock' = clock + 1 /\ clock' \in EntryTime
         /\ UNCHANGED <<kind, range, since, captured>>
         /\ feed' \in [Entries -> Feed!Entry]
         /\ \A f \in Entries \ {e} : feed'[f] = feed[f]
         /\ feed'[e].there /\ feed'[e].changed = clock'
         /\ feed'[e].made \in 1..clock' /\ (kind = "star" => feed'[e].made = clock')
         /\ feed[e].there /\ kind # "repo" => feed'[e].made = feed[e].made
         /\ cause' = [cause EXCEPT ![e] = IF run.pc = "idle" THEN "none" ELSE "raced"]
         /\ run' = [run EXCEPT !.disturbed = run.pc # "idle"]
<1>1. /\ clock \in EntryTime /\ MaxFeedTime \in Nat /\ feed \in [Entries -> Feed!Entry]
      /\ clock' = clock + 1 /\ clock < MaxFeedTime
  BY FeedTyped DEF FeedInv, Feed!Appear, Feed!Edit
<1>2. clock' \in EntryTime /\ clock' \in Nat /\ 1..clock' \subseteq EntryTime
  BY <1>1 DEF EntryTime
<1>3. /\ UNCHANGED <<kind, range, since, captured>>
      /\ cause' = [cause EXCEPT ![e] = IF run.pc = "idle" THEN "none" ELSE "raced"]
      /\ run' = [run EXCEPT !.disturbed = run.pc # "idle"]
  BY DEF Feed!Appear, Feed!Edit, Feed!CauseOfChange, Feed!Disturb
<1>4. CASE Feed!Appear(e)
  <2>1. PICK d \in 1..clock', o \in EntryTime :
          /\ kind \notin {"commit", "repo"} => d = clock'
          /\ feed' = [feed EXCEPT ![e] = [there |-> TRUE, made |-> d,
                                          changed |-> clock', on |-> o]]
    BY <1>4 DEF Feed!Appear, Feed!Time, EntryTime
  <2> DEFINE r == [there |-> TRUE, made |-> d, changed |-> clock', on |-> o]
  <2>2. r \in Feed!Entry /\ r.there /\ r.changed = clock' /\ r.made = d
    BY <1>2, <2>1 DEF Feed!Entry, Feed!Time, EntryTime
  <2> HIDE DEF r
  <2>3. feed' = [feed EXCEPT ![e] = r]
    BY <2>1 DEF r
  <2>4. /\ feed' \in [Entries -> Feed!Entry] /\ feed'[e] = r
        /\ \A f \in Entries \ {e} : feed'[f] = feed[f]
    BY <1>1, <2>2, <2>3
  <2>5. ~feed[e].there
    BY <1>4 DEF Feed!Appear
  <2> QED
    BY <1>1, <1>2, <1>3, <2>1, <2>2, <2>4, <2>5
<1>5. CASE Feed!Edit(e)
  <2>1. PICK d \in 1..clock' :
          /\ kind # "repo" => d = feed[e].made
          /\ feed' = [feed EXCEPT ![e].made = d, ![e].changed = clock']
    BY <1>5 DEF Feed!Edit
  <2> DEFINE r == [feed[e] EXCEPT !.made = d, !.changed = clock']
  <2>2. feed[e] \in Feed!Entry /\ feed[e].there /\ kind \notin {"commit", "star"}
    BY <1>1, <1>5 DEF Feed!Edit
  <2>3. r \in Feed!Entry /\ r.there /\ r.changed = clock' /\ r.made = d
    BY <1>2, <2>1, <2>2 DEF Feed!Entry, Feed!Time, EntryTime
  <2>4. feed' = [feed EXCEPT ![e] = r]
    BY <1>1, <2>1
  <2> HIDE DEF r
  <2>5. /\ feed' \in [Entries -> Feed!Entry] /\ feed'[e] = r
        /\ \A f \in Entries \ {e} : feed'[f] = feed[f]
    BY <1>1, <2>3, <2>4
  <2> QED
    BY <1>1, <1>2, <1>3, <2>1, <2>2, <2>3, <2>5
<1> QED
  BY <1>4, <1>5

\* Where pages are counted, an addition or an edit moves no entry of the listing up.
LEMMA PlacesGrow ==
  ASSUME FeedInv, NEW e \in Entries, Feed!Appear(e) \/ Feed!Edit(e),
         kind \in Feed!Numbered, NEW f \in Feed!Listing
  PROVE  Place'[f] \in Nat /\ Place[f] <= Place'[f]
<1>1. /\ clock' = clock + 1 /\ clock' \in EntryTime
      /\ UNCHANGED <<kind, range, since, captured>>
      /\ feed' \in [Entries -> Feed!Entry]
      /\ \A g \in Entries \ {e} : feed'[g] = feed[g]
      /\ feed'[e].there /\ feed'[e].changed = clock'
      /\ feed[e].there /\ kind # "repo" => feed'[e].made = feed[e].made
      /\ run' = [run EXCEPT !.disturbed = run.pc # "idle"]
  BY SourceMoves
<1>2. /\ run'.since = run.since /\ run'.until = run.until /\ run'.today = run.today
      /\ run.since \in Int
      /\ Feed!Listing \subseteq Entries /\ \A g \in Feed!Listing : feed[g].there
      /\ \A g \in Entries : feed[g].changed <= clock /\ feed[g].changed \in Nat
      /\ clock \in Nat
  <2>1. run' = [run EXCEPT !.disturbed = run.pc # "idle"] /\ run \in Feed!Run
    BY <1>1, RunIs
  <2>2. run'.since = run.since /\ run'.until = run.until /\ run'.today = run.today
    BY <2>1 DEF Feed!Run
  <2>3. clock \in Nat
    BY FeedTyped DEF FeedInv, EntryTime
  <2> QED
    BY <2>2, <2>3, RunIs
<1>3. \A g \in Feed!Listing : kind # "repo" => feed'[g].made = feed[g].made
  BY <1>1, <1>2
<1>4. Feed!Listing \subseteq Feed!Listing'
  <2>1. ASSUME NEW g \in Feed!Listing PROVE g \in Feed!Listing'
    <3>1. g \in Entries /\ feed[g].there /\ Feed!Asked(g)
      BY DEF Feed!Listing, Feed!Present
    <3>2. feed'[g].there /\ feed'[g].changed >= feed[g].changed /\ feed'[g].changed \in Nat
      BY <1>1, <1>2, <3>1
    <3>3. kind # "repo" => feed'[g].made = feed[g].made
      BY <1>3
    <3>4. kind' = kind /\ kind \notin {"mail", "event"}
      BY <1>1 DEF Feed!Numbered
    <3>5. kind = "commit" => Feed!CommitAsked(g)'
      BY <1>2, <3>1, <3>3 DEF Feed!Asked, Feed!CommitAsked
    <3>6. kind = "issue" => Feed!IssueAsked(g)'
      BY <1>2, <3>1, <3>2 DEF Feed!Asked, Feed!IssueAsked
    <3>7. Feed!Asked(g)'
      BY <3>4, <3>5, <3>6 DEF Feed!Asked
    <3> QED
      BY <3>1, <3>2, <3>7 DEF Feed!Listing, Feed!Present
  <2> QED
    BY <2>1
<1>5. \A g \in Feed!Listing : Feed!Before(g, f) => Feed!Before(g, f)'
  BY <1>1, <1>3 DEF Feed!Before
<1> DEFINE P == {g \in Feed!Listing : Feed!Before(g, f)}
           Q == {g \in Feed!Listing' : Feed!Before(g, f)'}
<1>6. P \subseteq Q
  BY <1>4, <1>5
<1>7. f \in Entries /\ Q \subseteq Entries
  BY <1>2 DEF Feed!Listing, Feed!Present
<1>8. IsFiniteSet(P) /\ IsFiniteSet(Q)
  <2>1. IsFiniteSet(Entries)
    BY FeedTyped DEF FeedInv
  <2> QED
    BY <1>6, <1>7, <2>1, FS_Subset
<1>9. Cardinality(P) \in Nat /\ Cardinality(Q) \in Nat /\ Cardinality(P) <= Cardinality(Q)
  BY <1>6, <1>8, FS_Subset, FS_CardinalityType
<1>10. Place[f] = Cardinality(P) + 1 /\ Place'[f] = Cardinality(Q) + 1
  BY <1>7 DEF Place, Feed!Position, Feed!Cardinality, Cardinality
<1> QED
  BY <1>9, <1>10

\* The run is disturbed, and keeps what it has.
LEMMA RunDisturbed ==
  ASSUME FeedInv, run' = [run EXCEPT !.disturbed = run.pc # "idle"]
  PROVE  /\ run' \in Feed!Run /\ run'.pc = run.pc /\ run'.since = run.since
         /\ run'.until = run.until /\ run'.today = run.today /\ run'.page = run.page
         /\ run'.todo = run.todo /\ run'.found = run.found /\ run'.got = run.got
         /\ run'.undated = run.undated /\ run'.disturbed = (run.pc # "idle")
         /\ run.pc = "idle" => run' = run
         /\ ExactlyNew'
<1>1. run \in Feed!Run
  BY RunIs
<1> DEFINE b == run.pc # "idle"
<1>2. b \in BOOLEAN /\ run' = [run EXCEPT !.disturbed = b]
  OBVIOUS
<1> HIDE DEF b
<1>3. /\ run' \in Feed!Run /\ run'.pc = run.pc /\ run'.since = run.since
      /\ run'.until = run.until /\ run'.today = run.today /\ run'.page = run.page
      /\ run'.todo = run.todo /\ run'.found = run.found /\ run'.got = run.got
      /\ run'.undated = run.undated /\ run'.disturbed = b
  BY <1>1, <1>2 DEF Feed!Run
<1>4. ASSUME run.pc = "idle" PROVE run' = run
  <2>1. run = Feed!IdleRun
    BY <1>4 DEF FeedInv, Window
  <2>2. run.disturbed = FALSE
    BY <2>1 DEF Feed!IdleRun
  <2>3. b = FALSE
    BY <1>4 DEF b
  <2> QED
    BY <1>1, <1>2, <2>2, <2>3 DEF Feed!Run
<1>5. ExactlyNew'
  <2>1. ~(run'.pc # "idle" /\ ~run'.disturbed)
    BY <1>3 DEF b
  <2> QED
    BY <2>1 DEF ExactlyNew
<1> QED
  BY <1>3, <1>4, <1>5 DEF b

\* What appears or changes while a run is going on may be missed, and has its cause; the
\* rest is as it was.
LEMMA FeedChanges ==
  ASSUME FeedInv, NEW e \in Entries, Feed!Appear(e) \/ Feed!Edit(e) PROVE FeedInv'
<1>1. /\ clock' = clock + 1 /\ clock' \in EntryTime
      /\ UNCHANGED <<kind, range, since, captured>>
      /\ feed' \in [Entries -> Feed!Entry]
      /\ \A f \in Entries \ {e} : feed'[f] = feed[f]
      /\ feed'[e].there /\ feed'[e].changed = clock'
      /\ feed'[e].made \in 1..clock' /\ (kind = "star" => feed'[e].made = clock')
      /\ cause' = [cause EXCEPT ![e] = IF run.pc = "idle" THEN "none" ELSE "raced"]
      /\ run' = [run EXCEPT !.disturbed = run.pc # "idle"]
  BY SourceMoves
<1>2. /\ run' \in Feed!Run /\ run'.pc = run.pc /\ run'.since = run.since
      /\ run'.until = run.until /\ run'.today = run.today /\ run'.page = run.page
      /\ run'.todo = run.todo /\ run'.found = run.found /\ run'.got = run.got
      /\ run'.undated = run.undated /\ (run.pc = "idle" => run' = run)
      /\ ExactlyNew'
  BY <1>1, RunDisturbed
<1>3. /\ Feed!TypeOK /\ Times /\ Window
      /\ \A f \in Entries :
           /\ feed[f].changed \in Nat /\ feed[f].made \in Nat /\ run.got[f] \in Nat
           /\ feed[f].changed <= clock
      /\ run.since \in Nat
  BY RunIs
<1>4. /\ clock \in Nat /\ clock' \in Nat /\ since \in Nat /\ since <= clock
      /\ \A f \in Entries : captured[f] \in Nat
      /\ cause \in [Entries -> Feed!Causes]
  BY <1>1, <1>3, FeedTyped DEF EntryTime, Times
<1>5. /\ cause'[e] = IF run.pc = "idle" THEN "none" ELSE "raced"
      /\ \A f \in Entries \ {e} : cause'[f] = cause[f]
      /\ cause' \in [Entries -> Feed!Causes]
  BY <1>1, <1>4 DEF Feed!Causes
<1>6. Feed!TypeOK'
  BY <1>1, <1>2, <1>3, <1>5 DEF Feed!TypeOK, Feed!Time, EntryTime
<1>7. run.pc = "idle" => run.found = {} /\ run.page = 1 /\ \A f \in Entries : run.got[f] = 0
  BY <1>3 DEF Window, Feed!IdleRun, Feed!Nothing
<1>8. Times'
  <2>1. ASSUME NEW f \in Entries
        PROVE  /\ captured[f] <= since /\ run.got[f] <= clock'
               /\ feed'[f].made <= feed'[f].changed /\ feed'[f].changed <= clock'
               /\ feed'[f].there => feed'[f].made >= 1
               /\ kind = "star" => feed'[f].made = feed'[f].changed
               /\ run.got[f] # 0 => run.got[f] > run.since \/ f \in run.undated
    <3>1. CASE f = e
      BY <1>1, <1>3, <1>4, <3>1 DEF Times
    <3>2. CASE f # e
      BY <1>1, <1>3, <1>4, <3>2 DEF Times
    <3> QED
      BY <3>1, <3>2
  <2>2. ASSUME NEW f \in Entries
        PROVE  /\ kind \in {"mail", "page"} /\ f \in run.found => feed'[f].changed > run.since
               /\ kind \in {"mail", "event"} /\ run.page = 2 /\ f \in run.todo =>
                    feed'[f].changed > run.since
    <3>1. CASE run.pc = "idle"
      BY <1>7, <3>1
    <3>2. CASE run.pc # "idle" /\ f = e
      <4>1. kind \in {"mail", "page", "event"} => run.since <= clock
        BY <1>3, <3>2, WindowIs DEF Feed!Numbered
      <4> QED
        BY <1>1, <1>3, <1>4, <3>2, <4>1
    <3>3. CASE f # e
      BY <1>1, <1>3, <3>3 DEF Times
    <3> QED
      BY <3>1, <3>2, <3>3
  <2>3. since <= clock'
    BY <1>1, <1>4
  <2> QED
    BY <1>1, <1>2, <2>1, <2>2, <2>3 DEF Times
<1>9. Window'
  <2>1. run.pc # "idle" =>
          /\ run.since = Feed!EffectiveSince(run.today)' /\ run.until = Feed!Until(run.today)'
          /\ run.today <= clock'
    <3>1. run.pc # "idle" =>
            /\ run.since = Feed!EffectiveSince(run.today) /\ run.until = Feed!Until(run.today)
            /\ run.today <= clock
      BY <1>3 DEF Window
    <3>2. run.today \in Int
      BY <1>3, FeedTyped
    <3>3. run.pc # "idle" => run.today <= clock'
      BY <1>1, <1>4, <3>1, <3>2
    <3> QED
      BY <1>1, <1>2, <3>1, <3>3 DEF Feed!EffectiveSince, Feed!Until, Feed!Floor, Feed!Later
  <2> QED
    BY <1>1, <1>2, <1>3, <2>1 DEF Window
<1>10. \A f \in Entries \ {e} : f \in NewOnes' <=> f \in NewOnes
  <2>1. ASSUME NEW f \in Entries \ {e}
        PROVE  Feed!Asked(f)' <=> Feed!Asked(f)
    BY <1>1, <1>2 DEF Feed!Asked, Feed!CommitAsked, Feed!IssueAsked,
         Feed!MailAsked, Feed!EventAsked
  <2>2. ASSUME NEW f \in Entries \ {e}
        PROVE  Feed!Wanted(f)' <=> Feed!Wanted(f)
    BY <1>1, <1>2 DEF Feed!Wanted, Feed!PullWanted, Feed!IssueWanted, Feed!StarWanted,
         Feed!ReadmeWanted, Feed!PageWanted, Feed!FileWanted, Feed!VisitWanted
  <2> QED
    BY <1>1, <2>1, <2>2 DEF NewOnes, Feed!Listing, Feed!Present
<1>11. ASSUME NEW f \in NewOnes, f \in Unseen PROVE f \in Unseen'
  <2>1. f \in Entries /\ f \in Feed!Listing
    BY RunIs
  <2>2. CASE run.pc = "listing" /\ kind \in Feed!Numbered
    <3>1. Place'[f] \in Nat /\ Place[f] <= Place'[f]
      BY <2>1, <2>2, PlacesGrow
    <3>2. Place[f] \in Nat
      BY <1>3, <2>1, ListingIsOrdered
    <3> DEFINE a == (run.page - 1) * PerPage
    <3>3. a \in Int
      <4>1. run.page \in Nat /\ PerPage \in Nat
        BY <1>3, FeedTyped
      <4> QED
        BY <4>1
    <3>4. Place[f] > a
      BY <1>11, <2>2 DEF Unseen
    <3>5. Unseen' = {g \in Entries : Place'[g] > a}
      BY <1>1, <1>2, <2>2 DEF Unseen
    <3> HIDE DEF a
    <3>6. Place'[f] > a
      BY <3>1, <3>2, <3>3, <3>4
    <3> QED
      BY <2>1, <3>5, <3>6
  <2>3. CASE ~(run.pc = "listing" /\ kind \in Feed!Numbered)
    BY <1>1, <1>2, <1>11, <2>3 DEF Unseen
  <2> QED
    BY <2>2, <2>3
<1>12. NewIsHeld'
  <2>1. ASSUME run.pc # "idle", NEW f \in Entries, feed'[f].there, feed'[f].changed > since
        PROVE  /\ cause'[f] # "outside"
               /\ cause'[f] = "none" => /\ f \in NewOnes' => f \in Unseen' \cup run.found \/ run.got[f] # 0
                                        /\ feed'[f].changed <= run.today + LocalLag
    <3>1. CASE f = e
      BY <1>5, <2>1, <3>1
    <3>2. CASE f # e
      <4>1. f \in Entries \ {e} /\ feed'[f] = feed[f] /\ cause'[f] = cause[f]
        BY <1>1, <1>5, <3>2
      <4>2. /\ cause[f] # "outside"
            /\ cause[f] = "none" => /\ f \in NewOnes => f \in Unseen \cup run.found \/ run.got[f] # 0
                                    /\ feed[f].changed <= run.today + LocalLag
        BY <2>1, <4>1 DEF FeedInv, NewIsHeld, Awaited
      <4> QED
        BY <1>10, <1>11, <4>1, <4>2
    <3> QED
      BY <3>1, <3>2
  <2>2. ASSUME NEW f \in Entries
        PROVE  /\ run.got[f] # 0 /\ feed'[f].there /\ run.got[f] # feed'[f].changed =>
                    cause'[f] \in {"raced", "skipped"}
               /\ cause'[f] = "shifted" => kind \in Feed!Numbered
    <3>1. CASE f = e
      BY <1>5, <1>7, <3>1
    <3>2. CASE f # e
      <4>1. feed'[f] = feed[f] /\ cause'[f] = cause[f]
        BY <1>1, <1>5, <3>2
      <4> QED
        BY <4>1 DEF FeedInv, NewIsHeld
    <3> QED
      BY <3>1, <3>2
  <2> QED
    BY <1>1, <1>2, <2>1, <2>2 DEF NewIsHeld, Awaited
<1>13. LossIsExcused'
  <2>1. ASSUME NEW f \in Entries, feed'[f].there, feed'[f].changed <= since,
               captured[f] # feed'[f].changed
        PROVE  Excused(f)' \/ (kind # "event" /\ ~Feed!InScope(f)')
    <3>1. f # e
      BY <1>1, <1>4, <2>1
    <3>2. feed'[f] = feed[f] /\ cause'[f] = cause[f]
      BY <1>1, <1>5, <3>1
    <3>3. Excused(f) \/ (kind # "event" /\ ~Feed!InScope(f))
      BY <2>1, <3>2 DEF FeedInv, LossIsExcused
    <3>4. Excused(f) => Excused(f)'
      BY <1>1, <3>2 DEF Excused
    <3>5. kind # "event" /\ Feed!InScope(f)' => Feed!InScope(f)
      <4>1. Back \in Nat
        BY <1>3, FeedTyped
      <4>2. feed[f].changed > clock' - Back => feed[f].changed > clock - Back
        BY <1>1, <1>3, <1>4, <4>1
      <4> QED
        BY <1>1, <3>2, <4>2 DEF Feed!InScope
    <3> QED
      BY <3>3, <3>4, <3>5
  <2> QED
    BY <1>1, <2>1 DEF LossIsExcused
<1> QED
  BY <1>2, <1>6, <1>8, <1>9, <1>12, <1>13 DEF FeedInv

\* A removal disturbs the listing under way; what it moves up has its cause.
LEMMA FeedRemoves ==
  ASSUME FeedInv, NEW e \in Entries, Feed!Remove(e) PROVE FeedInv'
<1>1. /\ clock' = clock /\ UNCHANGED <<kind, range, since>>
      /\ feed' = [feed EXCEPT ![e].there = FALSE]
      /\ captured' = [captured EXCEPT ![e] = 0]
      /\ cause' = [f \in Entries |->
                     IF run.pc = "listing" /\ kind \in Feed!Numbered /\ f # e
                        /\ cause[f] = "none"
                     THEN "shifted" ELSE cause[f]]
      /\ run' = [run EXCEPT !.disturbed = run.pc # "idle"]
  BY DEF Feed!Remove, Feed!Disturb
<1>2. /\ run' \in Feed!Run /\ run'.pc = run.pc /\ run'.since = run.since
      /\ run'.until = run.until /\ run'.today = run.today /\ run'.page = run.page
      /\ run'.todo = run.todo /\ run'.found = run.found /\ run'.got = run.got
      /\ run'.undated = run.undated /\ (run.pc = "idle" => run' = run)
      /\ ExactlyNew'
  BY <1>1, RunDisturbed
<1>3. /\ Feed!TypeOK /\ Times /\ Window
      /\ \A f \in Entries :
           /\ feed[f].changed \in Nat /\ feed[f].made \in Nat /\ run.got[f] \in Nat
           /\ feed[f].changed <= clock
  BY RunIs
<1>4. /\ feed \in [Entries -> Feed!Entry] /\ captured \in [Entries -> EntryTime]
      /\ cause \in [Entries -> Feed!Causes] /\ since \in Nat
  BY <1>3, FeedTyped DEF EntryTime
<1> DEFINE r == [feed[e] EXCEPT !.there = FALSE]
<1>5. /\ feed' = [feed EXCEPT ![e] = r]
      /\ r \in Feed!Entry /\ r.there = FALSE /\ r.made = feed[e].made
      /\ r.changed = feed[e].changed
  <2>1. feed[e] \in Feed!Entry
    BY <1>4
  <2> QED
    BY <1>1, <1>4, <2>1 DEF Feed!Entry
<1> HIDE DEF r
<1>6. /\ feed' \in [Entries -> Feed!Entry] /\ ~feed'[e].there
      /\ \A f \in Entries : feed'[f].made = feed[f].made /\ feed'[f].changed = feed[f].changed
      /\ \A f \in Entries \ {e} : feed'[f] = feed[f]
  BY <1>4, <1>5
<1>7. /\ captured' \in [Entries -> EntryTime] /\ captured'[e] = 0
      /\ \A f \in Entries \ {e} : captured'[f] = captured[f]
  <2>1. 0 \in EntryTime
    BY FeedTyped, <1>3 DEF EntryTime
  <2> QED
    BY <1>1, <1>4, <2>1
<1>8. /\ cause' \in [Entries -> Feed!Causes]
      /\ \A f \in Entries \ {e} :
           \/ cause'[f] = cause[f] /\ ~(run.pc = "listing" /\ kind \in Feed!Numbered /\ cause[f] = "none")
           \/ /\ cause[f] = "none" /\ cause'[f] = "shifted" /\ run.pc = "listing"
              /\ kind \in Feed!Numbered
      /\ cause'[e] = cause[e]
  BY <1>1, <1>4 DEF Feed!Causes
<1>9. Feed!TypeOK'
  BY <1>1, <1>2, <1>3, <1>6, <1>7, <1>8 DEF Feed!TypeOK, Feed!Time, EntryTime
<1>10. Times'
  <2>1. \A f \in Entries : captured'[f] <= since
    BY <1>3, <1>4, <1>7 DEF Times
  <2>2. \A f \in Entries : feed'[f].there => feed[f].there
    BY <1>6
  <2> QED
    BY <1>1, <1>2, <1>3, <1>6, <2>1, <2>2 DEF Times
<1>11. Window'
  <2>1. run.pc # "idle" =>
          /\ run.since = Feed!EffectiveSince(run.today)' /\ run.until = Feed!Until(run.today)'
          /\ run.today <= clock'
    <3>1. run.pc # "idle" =>
            /\ run.since = Feed!EffectiveSince(run.today) /\ run.until = Feed!Until(run.today)
            /\ run.today <= clock
      BY <1>3 DEF Window
    <3> QED
      BY <1>1, <1>2, <3>1 DEF Feed!EffectiveSince, Feed!Until, Feed!Floor, Feed!Later
  <2> QED
    BY <1>1, <1>2, <1>3, <2>1 DEF Window
<1>12. \A f \in Entries \ {e} : f \in NewOnes' => f \in NewOnes
  <2>1. ASSUME NEW f \in Entries \ {e}
        PROVE  Feed!Asked(f)' <=> Feed!Asked(f)
    BY <1>1, <1>2, <1>6 DEF Feed!Asked, Feed!CommitAsked, Feed!IssueAsked,
         Feed!MailAsked, Feed!EventAsked
  <2>2. ASSUME NEW f \in Entries \ {e}
        PROVE  Feed!Wanted(f)' <=> Feed!Wanted(f)
    BY <1>1, <1>2, <1>6 DEF Feed!Wanted, Feed!PullWanted, Feed!IssueWanted, Feed!StarWanted,
         Feed!ReadmeWanted, Feed!PageWanted, Feed!FileWanted, Feed!VisitWanted
  <2> QED
    BY <1>6, <2>1, <2>2 DEF NewOnes, Feed!Listing, Feed!Present
<1>13. NewIsHeld'
  <2>1. ASSUME run.pc # "idle", NEW f \in Entries, feed'[f].there, feed'[f].changed > since
        PROVE  /\ cause'[f] # "outside"
               /\ cause'[f] = "none" => /\ f \in NewOnes' => f \in Unseen' \cup run.found \/ run.got[f] # 0
                                        /\ feed'[f].changed <= run.today + LocalLag
    <3>1. f \in Entries \ {e} /\ feed'[f] = feed[f]
      BY <1>6, <2>1
    <3>2. /\ cause[f] # "outside"
          /\ cause[f] = "none" => /\ f \in NewOnes => f \in Unseen \cup run.found \/ run.got[f] # 0
                                  /\ feed[f].changed <= run.today + LocalLag
      BY <2>1, <3>1 DEF FeedInv, NewIsHeld, Awaited
    <3>3. cause'[f] = "none" => Unseen' = Unseen
      BY <1>1, <1>2, <1>8, <3>1 DEF Unseen
    <3> QED
      BY <1>8, <1>12, <3>1, <3>2, <3>3
  <2>2. ASSUME NEW f \in Entries
        PROVE  /\ run.got[f] # 0 /\ feed'[f].there /\ run.got[f] # feed'[f].changed =>
                    cause'[f] \in {"raced", "skipped"}
               /\ cause'[f] = "shifted" => kind \in Feed!Numbered
    <3>1. /\ run.got[f] # 0 /\ feed[f].there /\ run.got[f] # feed[f].changed =>
                    cause[f] \in {"raced", "skipped"}
          /\ cause[f] = "shifted" => kind \in Feed!Numbered
      BY DEF FeedInv, NewIsHeld
    <3> QED
      BY <1>6, <1>8, <3>1
  <2> QED
    BY <1>1, <1>2, <2>1, <2>2 DEF NewIsHeld, Awaited
<1>14. LossIsExcused'
  <2>1. ASSUME NEW f \in Entries, feed'[f].there, feed'[f].changed <= since,
               captured'[f] # feed'[f].changed
        PROVE  Excused(f)' \/ (kind # "event" /\ ~Feed!InScope(f)')
    <3>1. f \in Entries \ {e} /\ feed'[f] = feed[f] /\ captured'[f] = captured[f]
      BY <1>6, <1>7, <2>1
    <3>2. Excused(f) \/ (kind # "event" /\ ~Feed!InScope(f))
      BY <2>1, <3>1 DEF FeedInv, LossIsExcused
    <3>3. Excused(f) => Excused(f)'
      BY <1>1, <1>8, <3>1 DEF Excused
    <3>4. Feed!InScope(f)' <=> Feed!InScope(f)
      BY <1>1, <3>1 DEF Feed!InScope
    <3> QED
      BY <3>2, <3>3, <3>4
  <2> QED
    BY <1>1, <2>1 DEF LossIsExcused
<1> QED
  BY <1>2, <1>9, <1>10, <1>11, <1>13, <1>14 DEF FeedInv

\* A run that is not under way.
LEMMA IdleIs ==
  ASSUME Feed!TypeOK
  PROVE  /\ Feed!IdleRun \in Feed!Run /\ Feed!IdleRun.pc = "idle" /\ Feed!IdleRun.page = 1
         /\ Feed!IdleRun.found = {} /\ Feed!IdleRun.got = Feed!Nothing
         /\ Feed!IdleRun.undated = {} /\ Feed!IdleRun.disturbed = FALSE
         /\ \A e \in Entries : Feed!IdleRun.got[e] = 0
<1>1. MaxFeedTime \in Nat
  BY FeedTyped
<1>2. 0 \in Feed!Time /\ Feed!Nothing \in [Entries -> Feed!Time]
  BY <1>1 DEF Feed!Nothing, Feed!Time
<1>3. Feed!IdleRun \in Feed!Run
  BY <1>2 DEF Feed!IdleRun, Feed!Run
<1> QED
  BY <1>3 DEF Feed!IdleRun, Feed!Nothing

\* The run begins with everything still to be seen.
LEMMA FeedBegins == ASSUME FeedInv, Feed!Begin PROVE FeedInv'
<1>1. PICK today \in (clock - LocalLag)..clock :
        run' = [Feed!IdleRun EXCEPT !.pc = "listing", !.since = Feed!EffectiveSince(today),
                                    !.until = Feed!Until(today), !.today = today,
                                    !.todo = Entries]
  BY DEF Feed!Begin
<1>2. /\ run.pc = "idle" /\ UNCHANGED <<kind, range, clock, feed, since, captured>>
      /\ cause' = [e \in Entries |-> IF feed[e].changed > since THEN "none" ELSE cause[e]]
  BY DEF Feed!Begin, Feed!sourceVars
<1>3. /\ Feed!TypeOK /\ Times /\ Window
      /\ \A e \in Entries : feed[e].changed \in Nat /\ feed[e].changed <= clock
  BY RunIs
<1>4. /\ clock \in Nat /\ clock <= MaxFeedTime /\ MaxFeedTime \in Nat /\ LocalLag \in Nat
      /\ Back \in Nat /\ since \in EntryTime /\ range.floor \in EntryTime
      /\ range.ceiling \in EntryTime /\ cause \in [Entries -> Feed!Causes]
      /\ today \in Int /\ today <= clock /\ clock <= today + LocalLag
  <2>1. /\ clock \in Nat /\ clock <= MaxFeedTime /\ MaxFeedTime \in Nat /\ LocalLag \in Nat
        /\ Back \in Nat /\ since \in EntryTime /\ range.floor \in EntryTime
        /\ range.ceiling \in EntryTime /\ cause \in [Entries -> Feed!Causes]
    BY <1>3, FeedTyped DEF EntryTime
  <2> QED
    BY <2>1
<1> DEFINE s == Feed!EffectiveSince(today)
           u == Feed!Until(today)
           v == [Feed!IdleRun EXCEPT !.pc = "listing", !.since = s]
           w == [v EXCEPT !.until = u, !.today = today]
<1>5. s \in EntryTime /\ u \in EntryTime
  BY <1>4 DEF Feed!EffectiveSince, Feed!Until, Feed!Floor, Feed!Later, EntryTime
<1>6. run' = [Feed!IdleRun EXCEPT !.pc = "listing", !.since = s, !.until = u,
                                  !.today = today, !.todo = Entries]
  BY <1>1
<1>7. s = Feed!EffectiveSince(today)' /\ u = Feed!Until(today)'
  BY <1>2 DEF Feed!EffectiveSince, Feed!Until, Feed!Floor, Feed!Later
<1> HIDE DEF s, u
<1>8. /\ v \in Feed!Run /\ v.pc = "listing" /\ v.since = s /\ v.page = 1 /\ v.found = {}
      /\ v.got = Feed!Nothing /\ v.undated = {} /\ v.disturbed = FALSE
  BY <1>3, <1>5, IdleIs DEF Feed!Run, Feed!Time, EntryTime
<1>9. run' = [w EXCEPT !.todo = Entries]
  BY <1>6
<1> HIDE DEF v
<1>10. /\ w \in Feed!Run /\ w.pc = "listing" /\ w.since = s /\ w.page = 1 /\ w.found = {}
       /\ w.got = Feed!Nothing /\ w.undated = {} /\ w.disturbed = FALSE
       /\ w.until = u /\ w.today = today
  BY <1>4, <1>5, <1>8 DEF Feed!Run, Feed!Time, EntryTime
<1> HIDE DEF w
<1>11. /\ run' \in Feed!Run /\ run'.pc = "listing" /\ run'.since = s /\ run'.page = 1
       /\ run'.found = {} /\ run'.got = Feed!Nothing /\ run'.undated = {}
       /\ run'.disturbed = FALSE /\ run'.until = u /\ run'.today = today
       /\ run'.todo = Entries
  BY <1>9, <1>10 DEF Feed!Run
<1>12. \A e \in Entries : Feed!Nothing[e] = 0
  BY DEF Feed!Nothing
<1>13. /\ cause' \in [Entries -> Feed!Causes]
       /\ \A e \in Entries : feed[e].changed > since => cause'[e] = "none"
       /\ \A e \in Entries : ~(feed[e].changed > since) => cause'[e] = cause[e]
  BY <1>2, <1>4 DEF Feed!Causes
<1>14. Feed!TypeOK'
  BY <1>2, <1>3, <1>11, <1>13 DEF Feed!TypeOK
<1>15. Times'
  BY <1>2, <1>3, <1>4, <1>11, <1>12 DEF Times
<1>16. Window'
  <2>1. kind \in Feed!Cursors => run'.page \in {1, 2}
    BY <1>11
  <2> QED
    BY <1>2, <1>3, <1>4, <1>7, <1>11, <2>1 DEF Window
<1>17. Awaited' = Entries
  <2>1. kind' \in Feed!Numbered => Unseen' = Entries
    <3>1. PerPage \in Nat
      BY <1>3, FeedTyped
    <3>2. (run'.page - 1) * PerPage = 0
      BY <1>11, <3>1
    <3>3. ASSUME NEW e \in Entries PROVE Place'[e] \in Nat /\ Place'[e] >= 1
      <4> DEFINE Q == {f \in Feed!Listing' : Feed!Before(f, e)'}
      <4>1. Q \subseteq Entries
        BY DEF Feed!Listing, Feed!Present
      <4>2. IsFiniteSet(Q)
        BY <1>3, <4>1, FeedTyped, FS_Subset
      <4>3. Cardinality(Q) \in Nat
        BY <4>2, FS_CardinalityType
      <4>4. Place'[e] = Cardinality(Q) + 1
        BY DEF Place, Feed!Position, Feed!Cardinality, Cardinality
      <4> QED
        BY <4>3, <4>4
    <3>4. \A e \in Entries : Place'[e] > 0
      BY <3>3
    <3> QED
      BY <1>11, <3>2, <3>4 DEF Unseen
  <2>2. kind' \notin Feed!Numbered => Unseen' = Entries
    BY <1>11 DEF Unseen
  <2> QED
    BY <1>11, <2>1, <2>2 DEF Awaited
<1>18. ExactlyNew'
  BY <1>11, <1>12, <1>17 DEF ExactlyNew
<1>19. NewIsHeld'
  <2>1. \A e \in Entries : cause'[e] = "shifted" => kind \in Feed!Numbered
    BY <1>13 DEF FeedInv, NewIsHeld
  <2>2. \A e \in Entries : feed[e].changed <= today + LocalLag
    BY <1>3, <1>4
  <2>3. \A e \in Entries : feed[e].changed > since =>
          cause'[e] = "none" /\ e \in Awaited' /\ feed[e].changed <= run'.today + LocalLag
    BY <1>11, <1>13, <1>17, <2>2
  <2> QED
    BY <1>2, <1>11, <1>12, <2>1, <2>3 DEF NewIsHeld
<1>20. LossIsExcused'
  <2>1. ASSUME NEW e \in Entries, feed[e].there, feed[e].changed <= since,
               captured[e] # feed[e].changed
        PROVE  Excused(e)' \/ (kind # "event" /\ ~Feed!InScope(e)')
    <3>1. cause'[e] = cause[e]
      <4>1. since \in Nat /\ feed[e].changed \in Nat
        BY <1>3, <1>4 DEF EntryTime
      <4>2. ~(feed[e].changed > since)
        BY <2>1, <4>1
      <4> QED
        BY <1>13, <4>2
    <3>2. Excused(e) \/ (kind # "event" /\ ~Feed!InScope(e))
      BY <2>1 DEF FeedInv, LossIsExcused
    <3>3. Excused(e) => Excused(e)'
      BY <1>2, <3>1 DEF Excused
    <3>4. Feed!InScope(e)' <=> Feed!InScope(e)
      BY <1>2 DEF Feed!InScope
    <3> QED
      BY <3>2, <3>3, <3>4
  <2> QED
    BY <1>2, <2>1 DEF LossIsExcused
<1> QED
  BY <1>14, <1>15, <1>16, <1>18, <1>19, <1>20 DEF FeedInv

\* A run that fails or is given up leaves the feed and the watermark as they are.
LEMMA FeedStops == ASSUME FeedInv, Feed!FailListing \/ Feed!GiveUp PROVE FeedInv'
<1>1. /\ run' = Feed!IdleRun /\ cause' = cause
      /\ UNCHANGED <<kind, range, clock, feed, since, captured>>
  BY DEF Feed!FailListing, Feed!GiveUp, Feed!sourceVars
<1>2. /\ Feed!TypeOK /\ Times /\ Window
  BY RunIs
<1>3. /\ run' \in Feed!Run /\ run'.pc = "idle" /\ run'.page = 1
      /\ run'.found = {} /\ run'.undated = {}
      /\ \A e \in Entries : run'.got[e] = 0
  BY <1>1, <1>2, IdleIs
<1>4. Feed!TypeOK'
  BY <1>1, <1>2, <1>3 DEF Feed!TypeOK
<1>5. Times'
  <2>1. clock >= 0
    BY <1>2, FeedTyped DEF EntryTime
  <2> QED
    BY <1>1, <1>2, <1>3, <2>1 DEF Times
<1>6. Window'
  <2>1. run' = Feed!IdleRun'
    BY <1>1 DEF Feed!IdleRun, Feed!Nothing
  <2>2. run'.page >= 1 /\ run'.page \in {1, 2}
    BY <1>3
  <2> QED
    BY <1>1, <1>2, <1>3, <2>1, <2>2 DEF Window
<1>7. ExactlyNew'
  BY <1>3 DEF ExactlyNew
<1>8. NewIsHeld'
  <2>1. \A e \in Entries : cause[e] = "shifted" => kind \in Feed!Numbered
    BY DEF FeedInv, NewIsHeld
  <2> QED
    BY <1>1, <1>3, <2>1 DEF NewIsHeld
<1>9. LossIsExcused'
  <2>1. \A e \in Entries : (Excused(e)' <=> Excused(e)) /\ (Feed!InScope(e)' <=> Feed!InScope(e))
    BY <1>1 DEF Excused, Feed!InScope
  <2>2. LossIsExcused
    BY DEF FeedInv
  <2> QED
    BY <1>1, <2>1, <2>2 DEF LossIsExcused
<1> QED
  BY <1>4, <1>5, <1>6, <1>7, <1>8, <1>9 DEF FeedInv

\* A completed listing leaves out, with no cause of its own, only what is not in scope, or
\* what the dates of its kind leave out.
LEMMA LeftOutIs ==
  ASSUME FeedInv, run.pc = "listed", NEW e \in Entries, feed[e].there,
         feed[e].changed > since, run.got[e] = 0, cause[e] = "none"
  PROVE  \/ kind \in {"pull", "commit", "repo"} /\ feed[e].made < feed[e].changed
         \/ kind = "event"
         \/ kind = "mail" /\ LocalLag > 0
         \/ ~Feed!InScope(e)
<1>1. /\ Feed!TypeOK /\ Times /\ Window
      /\ feed[e].changed \in Nat /\ feed[e].made \in Nat /\ feed[e].made <= feed[e].changed
      /\ run.since \in Nat
  BY RunIs
<1>2. /\ kind \in Feed!AllKinds /\ since \in Nat /\ clock \in Nat /\ run.today \in Int
      /\ range.floor \in Nat /\ range.ceiling \in Nat /\ LocalLag \in Nat /\ Back \in Nat
      /\ run.until \in Nat
  BY <1>1, FeedTyped DEF EntryTime
<1>3. e \notin NewOnes /\ feed[e].changed <= run.today + LocalLag
  <2>1. Awaited = {}
    BY <1>1 DEF Awaited, Unseen, Window
  <2> QED
    BY <2>1 DEF FeedInv, NewIsHeld
<1>4. ~(Feed!Asked(e) /\ Feed!Wanted(e))
  BY <1>3 DEF NewOnes, Feed!Listing, Feed!Present
<1>5. /\ run.since >= since /\ run.today <= clock
      /\ kind \in Feed!Numbered =>
           (run.since = since \/ run.since = range.floor) /\ run.until = range.ceiling
      /\ kind \in {"event", "page", "file", "visit"} => run.since = since
      /\ kind = "mail" => /\ run.since \in {since, 0, run.today - Back}
                          /\ run.until >= run.today
  BY <1>1, WindowIs
<1>6. CASE kind \in {"pull", "commit", "star"}
  <2>1. kind \in Feed!Numbered
    BY <1>6 DEF Feed!Numbered
  <2>2. ~(feed[e].made > run.since /\ feed[e].made <= run.until)
    BY <1>4, <1>6 DEF Feed!Asked, Feed!CommitAsked, Feed!Wanted, Feed!PullWanted, Feed!StarWanted
  <2>3. Feed!InScope(e) => feed[e].made > range.floor /\ feed[e].made <= range.ceiling
    BY <1>1, <1>2, <1>6 DEF Feed!InScope
  <2>4. kind = "star" => feed[e].made = feed[e].changed
    BY <1>1 DEF Times
  <2> QED
    BY <1>1, <1>2, <1>5, <1>6, <2>1, <2>2, <2>3, <2>4
<1>7. CASE kind = "issue"
  <2>1. kind \in Feed!Numbered
    BY <1>7 DEF Feed!Numbered
  <2>2. ~(feed[e].changed > run.since /\ feed[e].made <= run.until)
    BY <1>4, <1>7 DEF Feed!Asked, Feed!IssueAsked, Feed!Wanted, Feed!IssueWanted
  <2>3. Feed!InScope(e) => feed[e].changed > range.floor /\ feed[e].made <= range.ceiling
    BY <1>7 DEF Feed!InScope
  <2> QED
    BY <1>1, <1>2, <1>5, <2>1, <2>2, <2>3
<1>8. CASE kind = "repo"
  <2>1. kind \in Feed!Numbered
    BY <1>8 DEF Feed!Numbered
  <2>2. ~(feed[e].made > run.since)
    BY <1>4, <1>8 DEF Feed!Asked, Feed!Wanted, Feed!ReadmeWanted
  <2>3. Feed!InScope(e) => feed[e].made > range.floor
    BY <1>8 DEF Feed!InScope
  <2> QED
    BY <1>1, <1>2, <1>5, <1>8, <2>1, <2>2, <2>3
<1>9. CASE kind = "mail"
  <2>1. ~(feed[e].changed > run.since /\ feed[e].changed <= run.until)
    BY <1>4, <1>9 DEF Feed!Asked, Feed!MailAsked, Feed!Wanted
  <2>2. Feed!InScope(e) => feed[e].changed > clock - Back
    BY <1>9 DEF Feed!InScope
  <2> QED
    BY <1>1, <1>2, <1>3, <1>5, <1>9, <2>1, <2>2
<1>10. CASE kind \in {"page", "file", "visit"}
  <2>1. ~(feed[e].changed > run.since)
    BY <1>4, <1>10 DEF Feed!Asked, Feed!Wanted, Feed!PageWanted, Feed!FileWanted, Feed!VisitWanted
  <2> QED
    BY <1>5, <1>10, <2>1
<1> QED
  BY <1>2, <1>6, <1>7, <1>8, <1>9, <1>10 DEF Feed!AllKinds, Feed!Numbered, Feed!Cursors

\* The run succeeds: what it holds is stored, and the rest has its cause.
LEMMA FeedFinishes == ASSUME FeedInv, Feed!Finish PROVE FeedInv'
<1>1. /\ run.pc = "listed" /\ clock < MaxFeedTime /\ clock' = clock + 1 /\ since' = clock'
      /\ captured' = [e \in Entries |-> IF run.got[e] # 0 /\ feed[e].there
                                        THEN run.got[e] ELSE captured[e]]
      /\ cause' = [e \in Entries |->
                     IF run.got[e] = 0 /\ cause[e] = "none" /\ feed[e].changed > since
                     THEN "outside" ELSE cause[e]]
      /\ run' = Feed!IdleRun /\ UNCHANGED <<kind, range, feed>>
  BY DEF Feed!Finish
<1>2. /\ Feed!TypeOK /\ Times /\ Window
      /\ \A e \in Entries :
           /\ feed[e].changed \in Nat /\ feed[e].made \in Nat /\ run.got[e] \in Nat
           /\ feed[e].changed <= clock /\ feed[e].made <= feed[e].changed
  BY RunIs
<1>3. /\ clock \in Nat /\ MaxFeedTime \in Nat /\ since \in Nat /\ since <= clock
      /\ \A e \in Entries : captured[e] \in EntryTime /\ run.got[e] \in EntryTime
      /\ cause \in [Entries -> Feed!Causes] /\ Back \in Nat
  BY <1>2, FeedTyped DEF EntryTime, Times
<1>4. /\ run' \in Feed!Run /\ run'.pc = "idle" /\ run'.page = 1
      /\ run'.found = {} /\ run'.undated = {}
      /\ \A e \in Entries : run'.got[e] = 0
  BY <1>1, <1>2, IdleIs
<1>5. clock' \in EntryTime /\ clock' \in Nat /\ clock' > clock
  BY <1>1, <1>3 DEF EntryTime
<1>6. /\ captured' \in [Entries -> EntryTime]
      /\ \A e \in Entries : run.got[e] # 0 /\ feed[e].there => captured'[e] = run.got[e]
      /\ \A e \in Entries : ~(run.got[e] # 0 /\ feed[e].there) => captured'[e] = captured[e]
  BY <1>1, <1>3
<1>7. /\ cause' \in [Entries -> Feed!Causes]
      /\ \A e \in Entries :
           /\ run.got[e] = 0 /\ cause[e] = "none" /\ feed[e].changed > since => cause'[e] = "outside"
           /\ ~(run.got[e] = 0 /\ cause[e] = "none" /\ feed[e].changed > since) => cause'[e] = cause[e]
  BY <1>1, <1>3 DEF Feed!Causes
<1>8. Feed!TypeOK'
  BY <1>1, <1>2, <1>4, <1>5, <1>6, <1>7 DEF Feed!TypeOK, Feed!Time, EntryTime
<1>9. Times'
  <2>1. ASSUME NEW e \in Entries PROVE captured'[e] <= clock'
    <3>1. captured[e] <= since /\ run.got[e] <= clock
      BY <1>2 DEF Times
    <3>2. captured[e] \in Nat /\ run.got[e] \in Nat
      BY <1>3 DEF EntryTime
    <3> QED
      BY <1>3, <1>5, <1>6, <3>1, <3>2
  <2>2. \A e \in Entries : feed[e].changed <= clock' /\ 0 <= clock'
    BY <1>2, <1>3, <1>5
  <2>3. \A e \in Entries : /\ feed[e].there => feed[e].made >= 1
                           /\ kind = "star" => feed[e].made = feed[e].changed
    BY <1>2 DEF Times
  <2> QED
    BY <1>1, <1>2, <1>4, <1>5, <2>1, <2>2, <2>3 DEF Times
<1>10. Window'
  <2>1. run' = Feed!IdleRun'
    BY <1>1 DEF Feed!IdleRun, Feed!Nothing
  <2>2. run'.page >= 1 /\ run'.page \in {1, 2}
    BY <1>4
  <2> QED
    BY <1>1, <1>2, <1>4, <2>1, <2>2 DEF Window
<1>11. ExactlyNew'
  BY <1>4 DEF ExactlyNew
<1>12. NewIsHeld'
  <2>1. \A e \in Entries : cause[e] = "shifted" => kind \in Feed!Numbered
    BY DEF FeedInv, NewIsHeld
  <2> QED
    BY <1>1, <1>4, <1>7, <2>1 DEF NewIsHeld
<1>13. LossIsExcused'
  <2>1. ASSUME NEW e \in Entries, feed[e].there, captured'[e] # feed[e].changed
        PROVE  Excused(e)' \/ (kind # "event" /\ ~Feed!InScope(e)')
    <3>1. kind # "event" /\ ~Feed!InScope(e) => ~Feed!InScope(e)'
      <4>1. feed[e].changed > clock' - Back => feed[e].changed > clock - Back
        BY <1>1, <1>2, <1>3
      <4> QED
        BY <1>1, <4>1 DEF Feed!InScope
    <3>2. cause'[e] = cause[e] => (Excused(e) => Excused(e)')
      BY <1>1 DEF Excused
    <3>3. CASE run.got[e] # 0
      <4>1. cause[e] \in {"raced", "skipped"} /\ cause'[e] = cause[e]
        BY <1>6, <1>7, <2>1, <3>3 DEF FeedInv, NewIsHeld
      <4> QED
        BY <4>1 DEF Excused
    <3>4. CASE run.got[e] = 0 /\ ~(feed[e].changed > since)
      <4>1. feed[e].changed <= since /\ captured[e] # feed[e].changed /\ cause'[e] = cause[e]
        BY <1>2, <1>3, <1>6, <1>7, <2>1, <3>4
      <4>2. Excused(e) \/ (kind # "event" /\ ~Feed!InScope(e))
        BY <2>1, <4>1 DEF FeedInv, LossIsExcused
      <4> QED
        BY <3>1, <3>2, <4>1, <4>2
    <3>5. CASE run.got[e] = 0 /\ feed[e].changed > since /\ cause[e] # "none"
      <4>1. /\ cause'[e] = cause[e] /\ cause[e] # "outside"
            /\ cause[e] = "shifted" => kind \in Feed!Numbered
        BY <1>1, <1>7, <2>1, <3>5 DEF FeedInv, NewIsHeld
      <4>2. cause[e] \in {"raced", "skipped", "shifted"}
        BY <1>3, <3>5, <4>1 DEF Feed!Causes
      <4> QED
        BY <1>1, <4>1, <4>2 DEF Excused
    <3>6. CASE run.got[e] = 0 /\ feed[e].changed > since /\ cause[e] = "none"
      <4>1. cause'[e] = "outside"
        BY <1>7, <3>6
      <4>2. \/ kind \in {"pull", "commit", "repo"} /\ feed[e].made < feed[e].changed
            \/ kind = "event"
            \/ kind = "mail" /\ LocalLag > 0
            \/ ~Feed!InScope(e)
        BY <1>1, <2>1, <3>6, LeftOutIs
      <4> QED
        BY <1>1, <3>1, <4>1, <4>2 DEF Excused
    <3> QED
      BY <3>3, <3>4, <3>5, <3>6
  <2> QED
    BY <1>1, <2>1 DEF LossIsExcused
<1> QED
  BY <1>8, <1>9, <1>10, <1>11, <1>12, <1>13 DEF FeedInv

\* Before the first run there is nothing, and nothing is lost.
LEMMA FeedInit == ASSUME Feed!Init PROVE FeedInv
<1>1. /\ kind \in Kinds /\ clock = 0 /\ since = 0 /\ captured = Feed!Nothing
      /\ feed = [e \in Entries |-> [there |-> FALSE, made |-> 0, changed |-> 0, on |-> 0]]
      /\ run = Feed!IdleRun /\ cause = [e \in Entries |-> "none"] /\ range \in Feed!Ranges
  BY DEF Feed!Init
<1>2. MaxFeedTime \in Nat /\ DateRanges \subseteq [floor : 0..MaxFeedTime, ceiling : 0..MaxFeedTime]
  BY FeedAssumption DEF Feed!Assumptions
<1>3. 0 \in Feed!Time /\ MaxFeedTime \in Feed!Time
  BY <1>2 DEF Feed!Time
<1>4. range \in [floor : Feed!Time, ceiling : Feed!Time]
  BY <1>1, <1>2, <1>3 DEF Feed!Ranges, Feed!NoRange, Feed!Time
<1>5. run \in Feed!Run
  <2>1. Feed!Nothing \in [Entries -> Feed!Time]
    BY <1>3 DEF Feed!Nothing
  <2> QED
    BY <1>1, <1>3, <2>1 DEF Feed!IdleRun, Feed!Run
<1>6. Feed!TypeOK
  <2>1. captured \in [Entries -> Feed!Time]
    BY <1>1, <1>3 DEF Feed!Nothing
  <2>2. feed \in [Entries -> Feed!Entry]
    BY <1>1, <1>3 DEF Feed!Entry
  <2>3. cause \in [Entries -> Feed!Causes]
    BY <1>1 DEF Feed!Causes
  <2> QED
    BY <1>1, <1>3, <1>4, <1>5, <2>1, <2>2, <2>3 DEF Feed!TypeOK
<1>7. /\ run.pc = "idle" /\ run.page = 1 /\ run.found = {} /\ run.undated = {}
      /\ \A e \in Entries : run.got[e] = 0
  BY <1>1, <1>6, IdleIs
<1>8. \A e \in Entries : /\ captured[e] = 0 /\ ~feed[e].there /\ feed[e].made = 0
                         /\ feed[e].changed = 0 /\ cause[e] = "none"
  BY <1>1 DEF Feed!Nothing
<1>9. Times
  BY <1>1, <1>7, <1>8 DEF Times
<1>10. Window
  <2>1. kind \notin Feed!Numbered => range = Feed!NoRange
    BY <1>1 DEF Feed!Ranges
  <2>2. run.page >= 1 /\ run.page \in {1, 2}
    BY <1>7
  <2> QED
    BY <1>1, <1>7, <2>1, <2>2 DEF Window
<1>11. ExactlyNew /\ NewIsHeld /\ LossIsExcused
  BY <1>7, <1>8 DEF ExactlyNew, NewIsHeld, LossIsExcused
<1> QED
  BY <1>6, <1>9, <1>10, <1>11 DEF FeedInv

\* Every step of the feed, of a run or of neither keeps the invariant.
LEMMA FeedNext == ASSUME FeedInv, Feed!Next \/ UNCHANGED feedVars PROVE FeedInv'
<1>1. CASE Feed!Next
  BY <1>1, FeedChanges, FeedRemoves, FeedBegins, FeedPages, FeedOpens, FeedCursors,
     FeedCopies, FeedReads, FeedLoses, FeedStops, FeedFinishes DEF Feed!Next
<1>2. CASE UNCHANGED feedVars
  <2>1. /\ kind' = kind /\ range' = range /\ clock' = clock /\ feed' = feed
        /\ since' = since /\ captured' = captured /\ run' = run /\ cause' = cause
    BY <1>2 DEF feedVars
  <2>2. Feed!TypeOK'
    BY <2>1 DEF FeedInv, Feed!TypeOK
  <2>3. Feed!Listing' = Feed!Listing /\ NewOnes' = NewOnes /\ Place' = Place
    BY <2>1, ListingStays
  <2>4. Unseen' = Unseen /\ Awaited' = Awaited
    BY <2>1, <2>3 DEF Awaited, Unseen
  <2>5. Times' /\ ExactlyNew' /\ NewIsHeld'
    BY <2>1, <2>3, <2>4 DEF FeedInv, Times, ExactlyNew, NewIsHeld
  <2>6. Window'
    BY <2>1 DEF FeedInv, Window, Feed!EffectiveSince, Feed!Until, Feed!Floor, Feed!Later,
                Feed!IdleRun, Feed!Nothing
  <2>7. LossIsExcused'
    <3>1. \A e \in Entries : (Excused(e)' <=> Excused(e)) /\ (Feed!InScope(e)' <=> Feed!InScope(e))
      BY <2>1 DEF Excused, Feed!InScope
    <3> QED
      BY <2>1, <3>1 DEF FeedInv, LossIsExcused
  <2> QED
    BY <2>2, <2>5, <2>6, <2>7 DEF FeedInv
<1> QED
  BY <1>1, <1>2

\* An extractor holds nothing that is stored already and has not changed.
LEMMA FeedHoldsChanges == ASSUME FeedInv PROVE Feed!OnlyChangesAreExtracted
<1>1. Feed!TypeOK /\ Times /\ Window
  BY RunIs
<1>2. ASSUME NEW e \in Entries, run.got[e] # 0, feed[e].there
      PROVE  run.got[e] > captured[e] \/ e \in run.undated
  <2>1. run.pc # "idle"
    BY <1>1, <1>2 DEF Window, Feed!IdleRun, Feed!Nothing
  <2>2. run.since >= since
    BY <1>1, <2>1, WindowIs
  <2>3. captured[e] <= since /\ (run.got[e] > run.since \/ e \in run.undated)
    BY <1>1, <1>2 DEF Times
  <2>4. captured[e] \in Nat /\ since \in Nat /\ run.since \in Nat /\ run.got[e] \in Nat
    BY <1>1, FeedTyped DEF EntryTime
  <2> QED
    BY <2>2, <2>3, <2>4
<1> QED
  BY <1>2 DEF Feed!OnlyChangesAreExtracted

\* A listing that nothing disturbed awaits nothing when it is complete.
LEMMA FeedIsComplete == ASSUME FeedInv PROVE Feed!UndisturbedListingIsComplete
<1>1. ASSUME run.pc = "listed", ~run.disturbed, NEW e \in Entries, cause[e] # "skipped",
             e \notin run.undated
      PROVE  run.got[e] # 0 <=> feed[e].there /\ Feed!Asked(e) /\ Feed!Wanted(e)
  <2>1. Awaited = {}
    BY <1>1, RunIs DEF Awaited, Unseen, Window
  <2>2. run.got[e] # 0 <=> e \in NewOnes
    BY <1>1, <2>1 DEF FeedInv, ExactlyNew
  <2> QED
    BY <2>2 DEF NewOnes, Feed!Listing, Feed!Present
<1> QED
  BY <1>1 DEF Feed!UndisturbedListingIsComplete

\* What the watermark has passed and was never extracted has one of the causes.
LEMMA FeedLossHasACause == ASSUME FeedInv PROVE Feed!EveryLossHasACause
<1>1. ASSUME NEW e \in Entries, Feed!Missed(e) PROVE Excused(e)
  <2>1. /\ feed[e].there /\ Feed!InScope(e) /\ feed[e].changed <= since
        /\ captured[e] # feed[e].changed
    BY <1>1 DEF Feed!Missed
  <2> QED
    BY <2>1 DEF FeedInv, LossIsExcused
<1> QED
  BY <1>1 DEF Excused, Feed!EveryLossHasACause

\* The invariant of the feed holds in every state of the views: where the view is
\* another, the feed stays as it began.
LEMMA FeedAlways ==
  /\ ViewsInit => FeedInv
  /\ FeedInv /\ [ViewsNext]_<<view, vars, feedVars, cutVars, pollVars>> => FeedInv'
<1>1. ViewsInit => FeedInv
  BY FeedInit DEF ViewsInit
<1>2. ASSUME FeedInv, [ViewsNext]_<<view, vars, feedVars, cutVars, pollVars>>
      PROVE  FeedInv'
  <2>1. Feed!Next \/ UNCHANGED feedVars
    BY <1>2 DEF ViewsNext
  <2> QED
    BY <1>2, <2>1, FeedNext
<1> QED
  BY <1>1, <1>2

\* No extractor returns what is stored already and has not changed since, whatever failed
\* in between, however many runs there were: for any number of entries, pages of any
\* size, any windows and any date ranges.
THEOREM NothingTwice == ViewsSpec => []OnlyChangesAreExtracted
<1>1. FeedInv => OnlyChangesAreExtracted
  BY FeedHoldsChanges DEF OnlyChangesAreExtracted
<1> QED
  BY <1>1, FeedAlways, PTL DEF ViewsSpec

\* A listing that nothing disturbed has found exactly what is new and asked for: the
\* numbered pages go on until what is left is not new, and a cursor until it is empty.
THEOREM UndisturbedIsWhole == ViewsSpec => []UndisturbedListingIsComplete
<1>1. FeedInv => UndisturbedListingIsComplete
  BY FeedIsComplete DEF UndisturbedListingIsComplete
<1> QED
  BY <1>1, FeedAlways, PTL DEF ViewsSpec

\* Nothing that is in scope is missed for good but for a cause that the code has, run after
\* run, whatever appears, changes and goes in the middle of them.
THEOREM LossesHaveCauses == ViewsSpec => []EveryLossHasACause
<1>1. FeedInv => EveryLossHasACause
  BY FeedLossHasACause DEF EveryLossHasACause
<1> QED
  BY <1>1, FeedAlways, PTL DEF ViewsSpec

-----------------------------------------------------------------------------
(* The types, of all four views.                                           *)

\* Every step of the sources or of a batch keeps the types, whether batches overlap or not.
LEMMA BatchTyped == ASSUME TypeOK, [Next]_vars PROVE TypeOK'
<1>1. \A b \in Batches : work[b] \in Work /\ rows[b] \in Row
  BY DEF TypeOK
<1>2. NoRow \in Row /\ Nothing \in [Refs -> Nat]
  BY DEF NoRow, Row, Status, Nothing
<1>3. ASSUME NEW r \in Refs, Edit(r) \/ Show(r) PROVE TypeOK'
  BY <1>3, TimeAssumption DEF TypeOK, Edit, Show, Tick
<1>4. ASSUME NEW b \in Batches, Begin(b) PROVE TypeOK'
  <2>1. PICK w \in {0} \cup {rows[c].completed : c \in Batches} :
          work' = [work EXCEPT ![b].since = w]
    BY <1>4 DEF Begin
  <2>2. w \in Nat
    BY <1>1 DEF Row
  <2>3. [work[b] EXCEPT !.since = w] \in Work
    BY <1>1, <2>2 DEF Work
  <2>4. work' \in [Batches -> Work]
    BY <2>1, <2>3 DEF TypeOK
  <2>5. [status |-> "running", completed |-> 0] \in Row
    BY DEF Row, Status
  <2>6. rows' \in [Batches -> Row]
    BY <1>4, <2>5 DEF TypeOK, Begin
  <2> QED
    BY <1>4, <2>4, <2>6 DEF TypeOK, Begin
<1>5. ASSUME NEW b \in Batches, NEW r \in Refs,
             Read(b, r) \/ DropNoise(b, r) \/ SkipUnreadable(b, r) \/ ExtractFails(b, r)
      PROVE  TypeOK'
  <2>1. work' \in [Batches -> Work]
    BY <1>5, ReadWork, DropWork, SkipWork, ExtractFailsWork
  <2> QED
    BY <1>5, <2>1 DEF TypeOK, Read, DropNoise, SkipUnreadable, ExtractFails
<1>6. ASSUME NEW b \in Batches, Stop(b) PROVE TypeOK'
  BY <1>6, StopWork DEF TypeOK, Stop
<1>7. ASSUME NEW b \in Batches, NEW r \in Refs, Process(b, r) \/ ProcessFails(b, r)
      PROVE  TypeOK'
  <2>1. work' \in [Batches -> Work]
    BY <1>7, ProcessWork, ProcessFailsWork
  <2>2. work[b].got[r] \in Nat
    BY <1>1 DEF Work
  <2>3. stored' \in [Refs -> Nat]
    BY <1>7, <2>2 DEF TypeOK, Process, ProcessFails
  <2> QED
    BY <1>7, <2>1, <2>3 DEF TypeOK, Process, ProcessFails
<1>8. ASSUME NEW b \in Batches, Finish(b) PROVE TypeOK'
  <2>1. now' \in Nat /\ UNCHANGED <<edited, shown, stored, work>>
        /\ pc' = [pc EXCEPT ![b] = "gone"]
    BY <1>8 DEF TypeOK, Finish, Tick
  <2>2. PICK status \in {"success", "other"} :
          rows' = IF rows[b] = NoRow THEN rows
                  ELSE [rows EXCEPT ![b] = [status |-> status, completed |-> now']]
    BY <1>8 DEF Finish
  <2>3. [status |-> status, completed |-> now'] \in Row
    BY <2>1 DEF Row, Status
  <2>4. rows' \in [Batches -> Row]
    BY <2>2, <2>3 DEF TypeOK
  <2> QED
    BY <2>1, <2>4 DEF TypeOK
<1>9. ASSUME NEW b \in Batches, Crash(b) PROVE TypeOK'
  BY <1>9 DEF TypeOK, Crash
<1>10. ASSUME Reset PROVE TypeOK'
  BY <1>2, <1>10 DEF TypeOK, Reset
<1>11. ASSUME UNCHANGED vars PROVE TypeOK'
  BY <1>11 DEF TypeOK, vars
<1> QED
  BY <1>3, <1>4, <1>5, <1>6, <1>7, <1>8, <1>9, <1>10, <1>11 DEF Next, Run

\* Every variable of the four views keeps its type, whatever happens, and whether batches
\* overlap or not.
THEOREM ViewsTyped == ViewsSpec => []TypesOK
<1> DEFINE Inv == TypeOK /\ FeedInv /\ CutInv /\ PollInv
<1>1. ViewsInit => Inv
  <2>1. Init => TypeOK
    BY InitHolds DEF IInv
  <2> QED
    BY <2>1, FeedAlways, CutInit, PollInit DEF ViewsInit
<1>2. ASSUME Inv, [ViewsNext]_<<view, vars, feedVars, cutVars, pollVars>> PROVE Inv'
  <2>1. TypeOK'
    <3>1. [Next]_vars
      BY <1>2 DEF ViewsNext
    <3> QED
      BY <1>2, <3>1, BatchTyped
  <2>2. FeedInv'
    BY <1>2, FeedAlways
  <2>3. CutInv'
    BY <1>2, CutNext DEF ViewsNext, cutVars
  <2>4. PollInv'
    BY <1>2, PollNext DEF ViewsNext
  <2> QED
    BY <2>1, <2>2, <2>3, <2>4
<1>3. Inv => TypesOK
  <2>1. FeedInv => Feed!TypeOK
    BY DEF FeedInv
  <2>2. PollInv => Polling!TypeOK
    BY DEF PollInv
  <2>3. ASSUME CutInv PROVE Chunks!TypeOK
    <3>1. /\ cut \in CutRecord /\ cut.next <= Len(cut.text) + 1 /\ cut.current <= cut.target
      BY <2>3 DEF CutInv
    <3>2. /\ Len(cut.text) \in Nat /\ cut.target \in Nat
      BY <3>1, TextIs
    <3> QED
      BY <3>1, <3>2 DEF Chunks!TypeOK, CutRecord, Chunk
  <2> QED
    BY <2>1, <2>2, <2>3 DEF TypesOK
<1> QED
  BY <1>1, <1>2, <1>3, PTL DEF ViewsSpec

=============================================================================
