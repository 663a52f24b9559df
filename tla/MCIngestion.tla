---------------------------- MODULE MCIngestion ----------------------------
(***************************************************************************)
(* Four views of ingestion, which share no state: the watermark over       *)
(* successive batches, what one extractor returns of one feed, how a text  *)
(* is cut into chunks, and how the browser follows the batch that it has   *)
(* triggered. A behaviour is one of one view, chosen at the start.         *)
(***************************************************************************)
EXTENDS Watermark, Integers, SequencesExt

CONSTANTS
  Entries, Kinds, PerPage, Back, Ahead, LocalLag, DateRanges, MaxFeedTime,
  Texts, Targets, Overlaps,
  Triggers, MaxPolls, MaxRuns

VARIABLES
  view,
  kind, range, clock, feed, since, captured, run, cause,
  cut,
  runs, launched, poll, timer, screen

\* Every kind of feed, with two entries.
MCEntries == 1..2
MCKinds == {"repo", "commit", "pull", "issue", "star", "mail", "event", "page", "file",
            "visit"}
MCDateRanges == {[floor |-> 1, ceiling |-> 2]}
MCTriggers == 1..2

\* Texts of up to three paragraphs, shorter and longer than the targets, and overlaps
\* from below zero to beyond the targets.
MCTexts ==
  {t \in BoundedSeq(1..15, 3) :
     \A k \in DOMAIN t : t[k] - (IF k = 1 THEN 0 ELSE t[k - 1]) \in 1..5}
MCTargets == 1..3
MCOverlaps == -1..3

feedVars == <<kind, range, clock, feed, since, captured, run, cause>>
cutVars == <<cut>>
pollVars == <<runs, launched, poll, timer, screen>>

Feed == INSTANCE Extractors WITH now <- clock, stored <- captured, MaxTime <- MaxFeedTime
Chunks == INSTANCE Chunking
Polling == INSTANCE RunPolling WITH shown <- screen

ASSUME FeedAssumption == Feed!Assumptions
ASSUME ChunksAssumption == Chunks!Assumptions
ASSUME PollingAssumption == Polling!Assumptions

ViewsInit ==
  /\ view \in {"watermark", "feed", "chunks", "browser"}
  /\ Init /\ Feed!Init /\ Chunks!Init /\ Polling!Init
  \* The feed and the text that nobody looks at are of one kind.
  /\ view # "feed" => kind = "page"
  /\ view # "chunks" => cut.text = <<>> /\ cut.target = 1 /\ cut.overlap = 0

ViewsNext ==
  /\ UNCHANGED view
  /\ \/ /\ view = "watermark" /\ Next
        /\ UNCHANGED <<feedVars, cutVars, pollVars>>
     \/ /\ view = "feed" /\ Feed!Next
        /\ UNCHANGED <<vars, cutVars, pollVars>>
     \/ /\ view = "chunks" /\ Chunks!Next
        /\ UNCHANGED <<vars, feedVars, pollVars>>
     \/ /\ view = "browser" /\ Polling!Next
        /\ UNCHANGED <<vars, feedVars, cutVars>>

ViewsSpec == ViewsInit /\ [][ViewsNext]_<<view, vars, feedVars, cutVars, pollVars>>

\* Batches are interchangeable, and so are the ordinary refs.
Symmetry == Permutations(Batches) \cup Permutations(Refs \ (LateRefs \cup Unreadable))

-----------------------------------------------------------------------------
\* Every variable of the views keeps its type; in particular a finished run has
\* a completion time, and an extractor's window lies within the time there is.
TypesOK ==
  /\ TypeOK
  /\ view = "feed" => Feed!TypeOK
  /\ view = "chunks" => Chunks!TypeOK
  /\ view = "browser" => Polling!TypeOK

\* What a completed listing left out, and no later one made good, was left out
\* for one of the causes that the code has.
EveryLossHasACause == view = "feed" => Feed!EveryLossHasACause

\* A listing that nothing disturbed returns all that it was asked for.
UndisturbedListingIsComplete == view = "feed" => Feed!UndisturbedListingIsComplete

\* No extractor returns what has not changed since the watermark.
OnlyChangesAreExtracted == view = "feed" => Feed!OnlyChangesAreExtracted

\* chunk_text(): the chunks are the text, none too long, no fitting paragraph cut.
ChunksCoverTheText == view = "chunks" => Chunks!ChunksCoverTheText

\* App.jsx: a run shown as running is followed, one shown as over is over, and it is
\* not older than the one triggered.
ShownRunIsFollowed == view = "browser" => Polling!ShownRunIsFollowed
=============================================================================
