----------------------------- MODULE Extractors -----------------------------
(***************************************************************************)
(* What the extractors of the six sources return, run after run.           *)
(*                                                                         *)
(* extract_new_items(since) of every extractor promises what is new since  *)
(* the watermark, and each gets there in its own way: by the pages of a    *)
(* listing that goes on changing, with a filter of the server, of its own, *)
(* or a sort order that allows to stop early, and within a window of dates *)
(* that moves from run to run. Here a source is one feed of one kind of    *)
(* entry, and a run lists it page by page; the run's other steps, and two  *)
(* runs at once, are left to Watermark and IngestionRuns.                  *)
(*                                                                         *)
(* The clock counts changes, completed runs and days alike.                *)
(***************************************************************************)
EXTENDS Integers, FiniteSets

CONSTANTS
  Entries,    \* the entries of the feed, numbered in the order of their names
  Kinds,      \* which feeds to look at
  PerPage,    \* the entries of one page
  Back,       \* how many days back Gmail's default window reaches
  Ahead,      \* how many days ahead the calendar's default window reaches
  LocalLag,   \* how many days the local date lies behind UTC's at a run
  DateRanges, \* the date ranges that a user sets
  MaxTime     \* bound: the changes and completed runs that happen

\* One kind of GitHub entry per listing: READMEs by way of the repositories.
Numbered == {"repo", "commit", "pull", "issue", "star"}
\* Messages, events and Notion pages; local files by way of one walk.
Cursors == {"mail", "event", "page", "file"}
AllKinds == Numbered \cup Cursors \cup {"visit"}

\* Listed by name first, and read one by one afterwards.
ReadLater == {"repo", "mail", "page", "file"}

Assumptions ==
  /\ Entries \subseteq Nat /\ IsFiniteSet(Entries)
  /\ Kinds \subseteq AllKinds
  /\ PerPage \in Nat \ {0}
  /\ {Back, Ahead, LocalLag, MaxTime} \subseteq Nat
  /\ DateRanges \subseteq [floor : 0..MaxTime, ceiling : 0..MaxTime]

VARIABLES
  kind,    \* the kind of this feed
  range,   \* the configured date range: its floor and its ceiling
  now,     \* the time of the last change or completion
  feed,    \* feed[e]: what the source says of e
  since,   \* the watermark: when the last successful run completed
  stored,  \* stored[e]: the change of e that was extracted last, 0 for none
  run,     \* the run under way
  cause    \* history: why the last completed listing left e out

sourceVars == <<now, feed>>
feedVars == <<kind, range, now, feed, since, stored, run, cause>>

Time == 0..MaxTime

\* made: a creation, commit or star date; changed: when the source last
\* changed what it shows of e, or began to; on: an event's date.
Entry == [there : BOOLEAN, made : Time, changed : Time, on : Time]

\* since, until: the window _effective_window() made of the watermark and the
\* date range, and today the local date, all as of the run's start; page: the
\* number of the next page; todo: what a cursor has yet to yield; found: what
\* is listed and not yet read; got[e]: the change of e the extractor holds;
\* undated: the READMEs whose last commit was not found; disturbed: the feed has
\* changed meanwhile.
Run == [pc : {"idle", "listing", "reading", "listed"}, since : Time,
        until : Time, today : Int, page : Nat, todo : SUBSET Entries,
        found : SUBSET Entries, got : [Entries -> Time], undated : SUBSET Entries,
        disturbed : BOOLEAN]

Causes == {"none", "raced", "shifted", "skipped", "outside"}

TypeOK ==
  /\ kind \in Kinds
  /\ range \in [floor : Time, ceiling : Time]
  /\ now \in Time
  /\ feed \in [Entries -> Entry]
  /\ since \in Time
  /\ stored \in [Entries -> Time]
  /\ run \in Run
  /\ cause \in [Entries -> Causes]

Nothing == [e \in Entries |-> 0]
Later(s, t) == IF s < t THEN t ELSE s

\* A date range that is not set. It can be for GitHub and Gmail (where the
\* default takes its place); the calendar's is its window.
NoRange == [floor |-> 0, ceiling |-> MaxTime]
Ranges == {NoRange} \cup (IF kind \in Numbered THEN DateRanges ELSE {})

IdleRun == [pc |-> "idle", since |-> 0, until |-> 0, today |-> 0, page |-> 1,
            todo |-> {}, found |-> {}, got |-> Nothing, undated |-> {},
            disturbed |-> FALSE]

Init ==
  /\ kind \in Kinds
  /\ range \in Ranges
  /\ now = 0
  /\ feed = [e \in Entries |-> [there |-> FALSE, made |-> 0, changed |-> 0, on |-> 0]]
  /\ since = 0
  /\ stored = Nothing
  /\ run = IdleRun
  /\ cause = [e \in Entries |-> "none"]

-----------------------------------------------------------------------------
(* What is asked for. Each filter compares with the run's window.          *)

Present == {e \in Entries : feed[e].there}

\* commits: GitHub's own since and until, on the committer's date.
CommitAsked(e) == feed[e].made > run.since /\ feed[e].made <= run.until

\* pulls: all of them, newest first by creation; the loop stops at the first
\* that is not new (PastCutoff) and passes over those beyond the range.
PullWanted(e) == feed[e].made > run.since /\ feed[e].made <= run.until
PastCutoff(e) == kind = "pull" /\ feed[e].made <= run.since

\* issues: GitHub's since, on the last update; the range's end is compared
\* with the creation, and pull requests are dropped.
IssueAsked(e) == feed[e].changed > run.since
IssueWanted(e) == feed[e].made <= run.until

\* starred repositories: all of them, filtered on the day of the star.
StarWanted(e) == feed[e].made > run.since /\ feed[e].made <= run.until

\* READMEs: every repository is asked for its README's last commit; the
\* range's end does not apply.
ReadmeWanted(e) == feed[e].made > run.since

\* Gmail: "after:" and "before:" in the search, on the newest message.
MailAsked(e) == feed[e].changed > run.since /\ feed[e].changed <= run.until

\* The calendar: updatedMin and the window of the event's own date.
EventAsked(e) ==
  /\ feed[e].changed > run.since
  /\ feed[e].on \in run.today..(run.today + Ahead)

\* Notion pages, local files, visits: all of them, by the last change.
PageWanted(e) == feed[e].changed > run.since
FileWanted(e) == feed[e].changed > run.since
VisitWanted(e) == feed[e].changed > run.since

\* What the server lists, and what the extractor makes an item of.
Asked(e) ==
  /\ kind = "commit" => CommitAsked(e)
  /\ kind = "issue"  => IssueAsked(e)
  /\ kind = "mail"   => MailAsked(e)
  /\ kind = "event"  => EventAsked(e)
Wanted(e) ==
  /\ kind = "pull"  => PullWanted(e)
  /\ kind = "issue" => IssueWanted(e)
  /\ kind = "star"  => StarWanted(e)
  /\ kind = "repo"  => ReadmeWanted(e)
  /\ kind = "page"  => PageWanted(e)
  /\ kind = "file"  => FileWanted(e)
  /\ kind = "visit" => VisitWanted(e)

Listing == {e \in Present : Asked(e)}

\* Newest first, but for repositories, which are listed by name.
Before(e, f) ==
  IF kind # "repo" /\ feed[e].made # feed[f].made
  THEN feed[e].made > feed[f].made ELSE e < f
Position(e) == Cardinality({f \in Listing : Before(f, e)}) + 1

\* Page number p of the listing, as the server cuts it at the time.
NumberedPage(p) ==
  {e \in Listing : Position(e) \in ((p - 1) * PerPage + 1)..(p * PerPage)}

\* The next page of a listing whose token the server has handed out.
IsCursorPage(S) ==
  /\ S \subseteq run.todo
  /\ Cardinality(S) = PerPage \/ (S = run.todo /\ Cardinality(S) < PerPage)

-----------------------------------------------------------------------------
(* The source. A change in the middle of a listing disturbs it; where      *)
(* pages are counted, a removal moves up the entries behind it.            *)

CauseOfChange(e) ==
  [cause EXCEPT ![e] = IF run.pc = "idle" THEN "none" ELSE "raced"]
Disturb == run' = [run EXCEPT !.disturbed = run.pc # "idle"]

\* Something new. A commit, and with it a README, may be dated earlier than
\* the push that brings it here; an event may lie on any day.
Appear(e) ==
  /\ ~feed[e].there
  /\ now < MaxTime
  /\ now' = now + 1
  /\ \E d \in 1..now', o \in Time :
       /\ kind \notin {"commit", "repo"} => d = now'
       /\ kind # "event" => o = 0
       /\ feed' = [feed EXCEPT ![e] = [there |-> TRUE, made |-> d,
                                       changed |-> now', on |-> o]]
  /\ cause' = CauseOfChange(e)
  /\ Disturb
  /\ UNCHANGED <<kind, range, since, stored>>

\* An edit, a comment, a reply, another visit. A commit has none, and an
\* edited README has a new last commit.
Edit(e) ==
  /\ feed[e].there /\ kind \notin {"commit", "star"}
  /\ now < MaxTime
  /\ now' = now + 1
  /\ \E d \in 1..now' :
       /\ kind # "repo" => d = feed[e].made
       /\ feed' = [feed EXCEPT ![e].made = d, ![e].changed = now']
  /\ cause' = CauseOfChange(e)
  /\ Disturb
  /\ UNCHANGED <<kind, range, since, stored>>

\* Deleted, unstarred, moved away, or no longer accessible; what is stored of
\* it stays where it is, and does not matter any more.
Remove(e) ==
  /\ feed[e].there
  /\ feed' = [feed EXCEPT ![e].there = FALSE]
  /\ stored' = [stored EXCEPT ![e] = 0]
  /\ cause' = [f \in Entries |->
                 IF run.pc = "listing" /\ kind \in Numbered /\ f # e
                    /\ cause[f] = "none"
                 THEN "shifted" ELSE cause[f]]
  /\ Disturb
  /\ UNCHANGED <<kind, range, now, since>>

-----------------------------------------------------------------------------
(* A run.                                                                  *)

\* _effective_window() on a local date: the floor never moves the watermark
\* back; the ceiling includes its whole day. GitHub's range is the configured
\* one, Gmail's defaults to the last days up to today.
Floor(today) == IF kind = "mail" THEN Later(0, today - Back) ELSE range.floor
\* Mutant of EffectiveSince: the floor replaces the watermark.
FloorOnly(today) == Floor(today)
EffectiveSince(today) == Later(since, Floor(today))
Until(today) == IF kind = "mail" THEN Later(0, today) ELSE range.ceiling

\* The extractor starts. The cause of an omission is kept once the watermark
\* has passed it.
Begin ==
  /\ run.pc = "idle"
  /\ \E today \in (now - LocalLag)..now :
       run' = [IdleRun EXCEPT !.pc = "listing", !.since = EffectiveSince(today),
                              !.until = Until(today), !.today = today,
                              !.todo = Entries]
  /\ cause' = [e \in Entries |-> IF feed[e].changed > since THEN "none" ELSE cause[e]]
  /\ UNCHANGED <<kind, range, sourceVars, since, stored>>

\* The entries of a page in the extractor's hands: those it reads off the page,
\* and those to be read by name; a Notion page by the date the search shows.
Take(S) ==
  [e \in Entries |-> IF e \in S /\ kind \notin ReadLater /\ Wanted(e)
                     THEN feed[e].changed ELSE run.got[e]]
Find(S) ==
  IF kind \in ReadLater
  THEN run.found \cup {e \in S : kind = "page" => Wanted(e)} ELSE {}

\* An event that cannot be parsed is skipped, with a line in the log.
Unparsed(S) == IF kind = "event" THEN SUBSET S ELSE {{}}
Skip(S) ==
  [e \in Entries |-> IF e \in S /\ Wanted(e) THEN "skipped" ELSE cause[e]]

\* Where a listing goes on after page S, if it was the last: to its reading.
AfterPage(S, last) ==
  IF ~last THEN "listing" ELSE IF Find(S) # {} THEN "reading" ELSE "listed"

\* The loops over "page": a page that is not full is the last, and so is one
\* with a pull request that is not new.
\* Mutant of IsLast: a page that is full is the last one, too.
IsLastByCount(S) == Cardinality(S) <= PerPage
IsLast(S) == Cardinality(S) < PerPage \/ \E e \in S : PastCutoff(e)

FetchNumberedPage ==
  /\ run.pc = "listing" /\ kind \in Numbered
  /\ LET S == NumberedPage(run.page) IN
       run' = [run EXCEPT !.got = Take(S), !.found = Find(S),
                          !.page = run.page + 1, !.pc = AfterPage(S, IsLast(S))]
  /\ UNCHANGED <<kind, range, sourceVars, since, stored, cause>>

\* What a cursor will list is settled with its first page.
OpenCursor ==
  /\ run.pc = "listing" /\ kind \in Cursors
  /\ run.page = 1
  /\ run' = [run EXCEPT !.todo = Listing, !.page = 2]
  /\ UNCHANGED <<kind, range, sourceVars, since, stored, cause>>

\* Notion's pages are read before the next page of the search is asked for.
FetchCursorPage ==
  /\ run.pc = "listing" /\ kind \in Cursors
  /\ run.page = 2
  /\ kind = "page" => run.found = {}
  /\ \E S \in SUBSET run.todo :
       /\ IsCursorPage(S)
       /\ \E bad \in Unparsed(S) :
            /\ run' = [run EXCEPT !.got = Take((S \cap Present) \ bad),
                                  !.found = Find(S), !.todo = run.todo \ S,
                                  !.pc = AfterPage(S, S = run.todo)]
            /\ cause' = Skip(bad)
  /\ UNCHANGED <<kind, range, sourceVars, since, stored>>

\* Browser history: a copy of the whole file, in one go.
CopyHistory ==
  /\ run.pc = "listing" /\ kind = "visit"
  /\ run' = [run EXCEPT !.got = Take(Present), !.pc = "listed"]
  /\ UNCHANGED <<kind, range, sourceVars, since, stored, cause>>

\* The next of the entries found is read, as it is by now: a thread, a page's
\* blocks, a file or a README. It may be gone, and not be new; it may fail on
\* its own, which is logged and passed over. A README whose date is not found
\* counts as new.
ReadNext ==
  /\ run.found # {}
  /\ run.pc = "reading" \/ kind = "page"
  /\ \E e \in run.found :
       /\ \A f \in run.found : e <= f
       /\ \E read, undated \in BOOLEAN :
            LET new == e \in Present /\ (kind = "page" \/ undated \/ Wanted(e))
                left == run.found \ {e} IN
              \* Where it is new anyway, its date makes no difference.
              /\ undated => kind = "repo" /\ read /\ e \in Present /\ ~Wanted(e)
              /\ run' = [run EXCEPT
                           !.found = left,
                           !.undated = IF undated THEN @ \cup {e} ELSE @,
                           !.got = IF read /\ new THEN [@ EXCEPT ![e] = feed[e].changed] ELSE @,
                           !.pc = IF @ = "reading" /\ left = {} THEN "listed" ELSE @]
              /\ cause' = IF read \/ ~new THEN cause ELSE [cause EXCEPT ![e] = "skipped"]
  /\ UNCHANGED <<kind, range, sourceVars, since, stored>>

\* A request for a page fails. In one repository's commits, pull requests or
\* issues, and for the stars, this is logged, and the pages before are gone
\* with it; the run goes on to its success.
LoseCategory ==
  /\ run.pc = "listing" /\ kind \in {"commit", "pull", "issue", "star"}
  /\ run' = [run EXCEPT !.pc = "listed", !.got = Nothing, !.disturbed = TRUE]
  /\ cause' = [e \in Entries |->
                 IF feed[e].changed > since \/ run.got[e] # 0
                 THEN "skipped" ELSE cause[e]]
  /\ UNCHANGED <<kind, range, sourceVars, since, stored>>

\* Mutant of FailListing: what was listed so far is taken for the whole.
KeepPartialListing ==
  /\ run.pc \in {"listing", "reading"}
  /\ kind \notin {"commit", "pull", "issue", "star"}
  /\ run' = [run EXCEPT !.pc = "listed"]
  /\ UNCHANGED <<kind, range, sourceVars, since, stored, cause>>

\* Everywhere else it is an ExtractorError: the run records it and will not
\* be a success. So it is when on_progress says stop.
FailListing ==
  /\ run.pc \in {"listing", "reading"}
  /\ kind \notin {"commit", "pull", "issue", "star"}
  /\ run' = IdleRun
  /\ UNCHANGED <<kind, range, sourceVars, since, stored, cause>>

\* The rest of the run succeeds: everything is stored, the watermark moves.
Finish ==
  /\ run.pc = "listed"
  /\ now < MaxTime
  /\ now' = now + 1
  /\ since' = now'
  /\ stored' = [e \in Entries |-> IF run.got[e] # 0 /\ feed[e].there
                                  THEN run.got[e] ELSE stored[e]]
  /\ cause' = [e \in Entries |->
                 IF run.got[e] = 0 /\ cause[e] = "none" /\ feed[e].changed > since
                 THEN "outside" ELSE cause[e]]
  /\ run' = IdleRun
  /\ UNCHANGED <<kind, range, feed>>

\* ... or it does not, and the next one starts from the same watermark.
GiveUp ==
  /\ run.pc = "listed"
  /\ run' = IdleRun
  /\ UNCHANGED <<kind, range, sourceVars, since, stored, cause>>

Next ==
  \/ \E e \in Entries : Appear(e) \/ Edit(e) \/ Remove(e)
  \/ Begin
  \/ FetchNumberedPage \/ OpenCursor \/ FetchCursorPage \/ CopyHistory \/ ReadNext
  \/ LoseCategory \/ FailListing
  \/ Finish \/ GiveUp

Spec == Init /\ [][Next]_feedVars

-----------------------------------------------------------------------------
(* What the extractors promise, and what they keep of it.                  *)

\* What the settings say should be ingested, as of now.
InScope(e) ==
  /\ kind \in {"pull", "commit", "star"} =>
       feed[e].made \in (range.floor + 1)..range.ceiling
  /\ kind = "issue" => feed[e].changed > range.floor /\ feed[e].made <= range.ceiling
  /\ kind = "repo"  => feed[e].made > range.floor
  /\ kind = "mail"  => feed[e].changed > now - Back
  /\ kind = "event" => feed[e].on \in now..(now + Ahead)

\* The watermark has passed e's last change, which was never extracted: no
\* run will, until e changes again.
Missed(e) ==
  /\ feed[e].there /\ InScope(e)
  /\ feed[e].changed <= since
  /\ stored[e] # feed[e].changed

\* Nothing in scope is missed for good but for a cause: it changed, or a
\* removal moved it up, in the middle of a listing; its own request or its
\* category failed; it is a pull request that changed after its creation; a
\* commit or README pushed after its date; an event that came into the
\* window after its last change; or a mail past the local midnight.
EveryLossHasACause ==
  \A e \in Entries : Missed(e) =>
    \/ cause[e] \in {"raced", "skipped"}
    \/ cause[e] = "shifted" /\ kind \in Numbered
    \/ kind \in {"pull", "commit", "repo"} /\ feed[e].made < feed[e].changed
    \/ cause[e] = "outside" /\ kind = "event"
    \/ cause[e] = "outside" /\ kind = "mail" /\ LocalLag > 0

\* A listing that nothing disturbed has found exactly what is new and asked
\* for, however many pages it took and wherever it stopped.
UndisturbedListingIsComplete ==
  run.pc = "listed" /\ ~run.disturbed =>
    \A e \in Entries :
      cause[e] # "skipped" /\ e \notin run.undated =>
        (run.got[e] # 0 <=> feed[e].there /\ Asked(e) /\ Wanted(e))

\* No run extracts again what it has already stored and what has not changed
\* since, whatever failed in between: but for a README whose date is not found.
OnlyChangesAreExtracted ==
  \A e \in Entries :
    run.got[e] # 0 /\ feed[e].there => run.got[e] > stored[e] \/ e \in run.undated
=============================================================================
