------------------------------ MODULE Chunking ------------------------------
(***************************************************************************)
(* How an item's text is cut up for embedding: chunk_text() packs          *)
(* paragraphs into a chunk until the next would make it too long, and cuts *)
(* a paragraph that is too long by itself with a sliding window.           *)
(*                                                                         *)
(* The words of a text are numbered from 1. A text is the last words of    *)
(* its paragraphs, and a chunk is its first and its last word.             *)
(***************************************************************************)
EXTENDS Integers, Sequences

CONSTANTS
  Texts,    \* the texts looked at
  Targets,  \* chunking.target_chunk_size_tokens
  Overlaps  \* chunking.chunk_overlap_tokens, which nothing keeps below the target

Assumptions ==
  /\ Texts \subseteq Seq(Nat \ {0})
  /\ \A t \in Texts : \A j, k \in DOMAIN t : j < k => t[j] < t[k]
  /\ Targets \subseteq Nat \ {0}
  /\ Overlaps \subseteq Int

VARIABLE cut  \* chunk_text() under way
cutVars == <<cut>>

\* next: the paragraph to come; current: the length of the chunk that is being packed;
\* start: of the window that is to come, within its paragraph.
TypeOK ==
  /\ cut.pc \in {"packing", "sliding", "done"}
  /\ cut.text \in Texts /\ cut.target \in Targets /\ cut.overlap \in Overlaps
  /\ cut.next \in 1..Len(cut.text) + 1
  /\ cut.start \in Nat /\ cut.current \in 0..cut.target
  /\ cut.chunks \in Seq([first : Nat, last : Nat])

Init ==
  \E text \in Texts, target \in Targets, overlap \in Overlaps :
    cut = [pc |-> "packing", text |-> text, target |-> target, overlap |-> overlap,
           next |-> 1, current |-> 0, start |-> 0, chunks |-> <<>>]

-----------------------------------------------------------------------------
\* The words of the first k paragraphs, of those before the next, and of the next.
WordsBy(text, k) == IF k = 0 THEN 0 ELSE text[k]
Words == WordsBy(cut.text, cut.next - 1)
Paragraph == WordsBy(cut.text, cut.next) - Words
MoreParagraphs == cut.next <= Len(cut.text)

\* The chunks with the current one, if there is something in it.
Flushed ==
  IF cut.current = 0 THEN cut.chunks
  ELSE Append(cut.chunks, [first |-> Words - cut.current + 1, last |-> Words])

\* The paragraph joins the current chunk, or begins another.
PackParagraph ==
  /\ cut.pc = "packing" /\ MoreParagraphs
  /\ Paragraph <= cut.target
  /\ LET fits == cut.current + Paragraph <= cut.target IN
       cut' = [cut EXCEPT !.next = @ + 1,
                          !.current = IF fits THEN @ + Paragraph ELSE Paragraph,
                          !.chunks = IF fits THEN @ ELSE Flushed]

OpenWindows ==
  /\ cut.pc = "packing" /\ MoreParagraphs
  /\ Paragraph > cut.target
  /\ cut' = [cut EXCEPT !.pc = "sliding", !.start = 0, !.current = 0, !.chunks = Flushed]

\* _sliding_window_split()
\* Mutant of WindowStep: it is not kept positive.
WindowStepUnclamped == cut.target - cut.overlap
WindowStep == IF cut.overlap < cut.target THEN cut.target - cut.overlap ELSE 1

CutWindow ==
  /\ cut.pc = "sliding"
  /\ LET end == cut.start + cut.target
         later == cut.start + WindowStep
         window == [first |-> Words + cut.start + 1,
                    last |-> Words + IF end < Paragraph THEN end ELSE Paragraph]
         here == [cut EXCEPT !.chunks = Append(@, window)] IN
       cut' = IF end < Paragraph /\ later < Paragraph
              THEN [here EXCEPT !.start = later]
              ELSE [here EXCEPT !.pc = "packing", !.start = 0, !.next = @ + 1]

Return ==
  /\ cut.pc = "packing" /\ ~MoreParagraphs
  /\ cut' = [cut EXCEPT !.pc = "done", !.current = 0, !.chunks = Flushed]

Next == PackParagraph \/ OpenWindows \/ CutWindow \/ Return

Spec == Init /\ [][Next]_cutVars

-----------------------------------------------------------------------------
(* Property.                                                               *)

\* chunk_text() returns the text: its chunks are in order, none within another and
\* none longer than the target; every word is in one, unless the overlap is
\* negative; a paragraph that fits is never cut. However large the overlap, there are no
\* more chunks than words, so that the cutting ends.
ChunksCoverTheText ==
  LET c == cut.chunks
      By(k) == WordsBy(cut.text, k)
      n == By(Len(cut.text))
  IN /\ Len(c) <= n
     /\ \A k \in DOMAIN c : c[k].last - c[k].first \in 0..cut.target - 1
     /\ \A j, k \in DOMAIN c : j < k => c[j].first < c[k].first /\ c[j].last < c[k].last
     /\ cut.pc = "done" =>
          /\ cut.overlap >= 0 =>
               \A w \in 1..n : \E k \in DOMAIN c : w \in c[k].first..c[k].last
          /\ \A p \in DOMAIN cut.text :
               By(p) - By(p - 1) <= cut.target =>
                 \E k \in DOMAIN c : /\ c[k].first <= By(p - 1) + 1
                                     /\ By(p) <= c[k].last
=============================================================================
