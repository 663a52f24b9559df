----------------------------- MODULE Watermark -----------------------------
(***************************************************************************)
(* Incremental ingestion: which changes at the sources reach the store.    *)
(*                                                                         *)
(* A run extracts what changed after its watermark, the completion time of *)
(* the last run that ended in success. Whether a change is ever stored     *)
(* depends on when it happens relative to the steps of the runs: this      *)
(* module keeps the order of changes, reads and completions, and forgets   *)
(* what an item is made of (see ItemStores).                               *)
(*                                                                         *)
(* The clock is logical: it counts changes and completions. The sources    *)
(* with an edit time (local files, Notion pages, issues, threads, ...) are *)
(* modelled; each ref is read on its own, after any other.                 *)
(***************************************************************************)
EXTENDS Naturals, FiniteSets

CONSTANTS
  Batches,      \* the batch executions
  Refs,         \* the refs of the sources
  LateRefs,     \* the refs that come into scope, maybe after their last edit
  Unreadable,   \* the refs that an extractor may fail to read just now
  Overlap,      \* may a batch start while another one is under way?
  MidRunEdits,  \* may a source change while a batch is under way?
  MaxTime       \* bound: the changes and completions that happen

ASSUME KindsAssumption == LateRefs \subseteq Refs /\ Unreadable \subseteq Refs
ASSUME FlagsAssumption == Overlap \in BOOLEAN /\ MidRunEdits \in BOOLEAN
ASSUME TimeAssumption == MaxTime \in Nat

VARIABLES
  now,     \* the time of the last change or completion
  edited,  \* edited[r]: when r was last edited, 0 before it exists
  shown,   \* shown[r]: when r came within the configured scope, 0 before
  stored,  \* stored[r]: the edit whose text is stored, 0 for no item
  rows,    \* rows[b]: status and run_completed_at of b's run
  pc,      \* pc[b]: is b unborn, under way or gone?
  work     \* work[b]: its local variables

vars == <<now, edited, shown, stored, rows, pc, work>>

\* since: the watermark it read, 0 for None; unread: what it has not reached;
\* readAt: when it read a ref, 0 if it did not; noise: the refs whose new text
\* it dropped; pending: the items it has extracted and not stored yet; failed:
\* errors is not empty, or cancelled.
Work == [since : Nat, unread : SUBSET Refs, readAt : [Refs -> Nat],
         noise : SUBSET Refs, got : [Refs -> Nat], pending : SUBSET Refs,
         failed : BOOLEAN]

Status == {"none", "running", "success", "other"}
Row == [status : Status, completed : Nat]
NoRow == [status |-> "none", completed |-> 0]

TypeOK ==
  /\ now \in Nat
  /\ edited \in [Refs -> Nat]
  /\ shown \in [Refs -> Nat]
  /\ stored \in [Refs -> Nat]
  /\ rows \in [Batches -> Row]
  /\ pc \in [Batches -> {"unborn", "running", "gone"}]
  /\ work \in [Batches -> Work]

Nothing == [r \in Refs |-> 0]

Init ==
  /\ now = 1
  /\ edited = Nothing
  /\ shown = [r \in Refs |-> IF r \in LateRefs THEN 0 ELSE 1]
  /\ stored = Nothing
  /\ rows = [b \in Batches |-> NoRow]
  /\ pc = [b \in Batches |-> "unborn"]
  /\ work = [b \in Batches |->
       [since |-> 0, unread |-> Refs, readAt |-> Nothing, noise |-> {},
        got |-> Nothing, pending |-> {}, failed |-> FALSE]]

Alive(b) == pc[b] = "running"

\* Mutant of Succeeded: every run that came to its end counts.
Ended(b) == rows[b].status \in {"success", "other"}

Succeeded(b) == rows[b].status = "success"

\* get_last_run_timestamp(): MAX(run_completed_at) over the successful runs.
IsWatermark(w) ==
  /\ w = 0 \/ \E b \in Batches : Succeeded(b) /\ rows[b].completed = w
  /\ \A b \in Batches : Succeeded(b) => rows[b].completed =< w

\* The next run will not look at a ref that was last edited at t.
BehindWatermark(t) == \E b \in Batches : Succeeded(b) /\ t =< rows[b].completed

-----------------------------------------------------------------------------
(* The sources.                                                            *)

Calm == MidRunEdits \/ \A b \in Batches : ~Alive(b)

Tick ==
  /\ now < MaxTime
  /\ now' = now + 1

Edit(r) ==
  /\ Calm
  /\ Tick
  /\ edited' = [edited EXCEPT ![r] = now']
  /\ UNCHANGED <<shown, stored, rows, pc, work>>

\* A folder, page, repository or account is added to the configuration; what
\* is in it keeps its edit times.
Show(r) ==
  /\ Calm
  /\ shown[r] = 0
  /\ Tick
  /\ shown' = [shown EXCEPT ![r] = now']
  /\ UNCHANGED <<edited, stored, rows, pc, work>>

-----------------------------------------------------------------------------
(* The batch.                                                              *)

Begin(b) ==
  /\ pc[b] = "unborn"
  /\ Overlap \/ \A c \in Batches : ~Alive(c)
  /\ pc' = [pc EXCEPT ![b] = "running"]
  /\ rows' = [rows EXCEPT ![b] = [status |-> "running", completed |-> 0]]
  /\ \E w \in {0} \cup {rows[c].completed : c \in Batches} :
       /\ IsWatermark(w)
       /\ work' = [work EXCEPT ![b].since = w]
  /\ UNCHANGED <<now, edited, shown, stored>>

\* The extractor lists r: an edit after the watermark is extracted and passes the
\* filter, an older one is passed over, as is a ref out of scope.
Read(b, r) ==
  LET w == work[b]
      new == shown[r] > 0 /\ edited[r] > w.since
  IN
    /\ Alive(b)
    /\ r \in w.unread
    /\ work' = [work EXCEPT ![b] =
         [w EXCEPT !.unread = w.unread \ {r},
                   !.readAt = [w.readAt EXCEPT ![r] = now],
                   !.got = [w.got EXCEPT ![r] = IF new THEN edited[r] ELSE 0],
                   !.pending = w.pending \cup (IF new THEN {r} ELSE {})]]
    /\ UNCHANGED <<now, edited, shown, stored, rows, pc>>

\* The text that an edit has left is blank, or shorter than min_content_length:
\* the extractor or apply_noise_filter() drops it. What is stored of r stays, and
\* that is no error of the run.
DropNoise(b, r) ==
  LET w == work[b] IN
    /\ Alive(b)
    /\ r \in w.unread
    /\ shown[r] > 0 /\ edited[r] > w.since
    /\ work' = [work EXCEPT ![b] =
         [w EXCEPT !.unread = w.unread \ {r},
                   !.readAt = [w.readAt EXCEPT ![r] = now],
                   !.noise = w.noise \cup {r}]]
    /\ UNCHANGED <<now, edited, shown, stored, rows, pc>>

\* A file, page or thread that cannot be read just now is logged and skipped.
\* That is no error of the run.
SkipUnreadable(b, r) ==
  /\ Alive(b)
  /\ r \in Unreadable
  /\ r \in work[b].unread
  /\ shown[r] > 0
  /\ work' = [work EXCEPT ![b].unread = @ \ {r}]
  /\ UNCHANGED <<now, edited, shown, stored, rows, pc>>

\* An ExtractorError: the refs of one source are not read, an error is noted.
ExtractFails(b, r) ==
  /\ Alive(b)
  /\ r \in work[b].unread
  /\ work' = [work EXCEPT ![b].unread = @ \ {r}, ![b].failed = TRUE]
  /\ UNCHANGED <<now, edited, shown, stored, rows, pc>>

\* A cancel request is seen: no further source is read.
Stop(b) ==
  /\ Alive(b)
  /\ work' = [work EXCEPT ![b].unread = {}, ![b].failed = TRUE]
  /\ UNCHANGED <<now, edited, shown, stored, rows, pc>>

\* _process_item(): stored, ...
Process(b, r) ==
  /\ Alive(b)
  /\ r \in work[b].pending
  /\ stored' = [stored EXCEPT ![r] = work[b].got[r]]
  /\ work' = [work EXCEPT ![b].pending = @ \ {r}]
  /\ UNCHANGED <<now, edited, shown, rows, pc>>

\* Mutant of ProcessFails: the failure is logged but does not count.
ProcessFailsUnnoted(b, r) ==
  /\ Alive(b)
  /\ r \in work[b].pending
  /\ work' = [work EXCEPT ![b].pending = @ \ {r}]
  /\ stored' \in {stored, [stored EXCEPT ![r] = 0]}
  /\ UNCHANGED <<now, edited, shown, rows, pc>>

\* ... or failed, and then the item is deleted, also one stored by an earlier
\* run or by another one, unless the upsert itself was what failed.
ProcessFails(b, r) ==
  /\ Alive(b)
  /\ r \in work[b].pending
  /\ work' = [work EXCEPT ![b].pending = @ \ {r}, ![b].failed = TRUE]
  /\ stored' \in {stored, [stored EXCEPT ![r] = 0]}
  /\ UNCHANGED <<now, edited, shown, rows, pc>>

\* Mutant of Finish: run_completed_at is not written.
FinishUntimed(b) ==
  /\ Alive(b)
  /\ work[b].unread = {}
  /\ work[b].pending = {}
  /\ Tick
  /\ rows' = [rows EXCEPT ![b] = [status |-> "other"]]
  /\ pc' = [pc EXCEPT ![b] = "gone"]
  /\ UNCHANGED <<edited, shown, stored, work>>

\* complete_ingestion_run(), after a relationship pass that may have failed.
\* It finds no row after a reset.
Finish(b) ==
  /\ Alive(b)
  /\ work[b].unread = {}
  /\ work[b].pending = {}
  /\ Tick
  /\ \E status \in IF work[b].failed THEN {"other"} ELSE {"success", "other"} :
       rows' = IF rows[b] = NoRow THEN rows
               ELSE [rows EXCEPT ![b] = [status |-> status, completed |-> now']]
  /\ pc' = [pc EXCEPT ![b] = "gone"]
  /\ UNCHANGED <<edited, shown, stored, work>>

\* Killed: its row stays "running".
Crash(b) ==
  /\ Alive(b)
  /\ pc' = [pc EXCEPT ![b] = "gone"]
  /\ UNCHANGED <<now, edited, shown, stored, rows, work>>

\* sqlite_store.py::reset_all()
Reset ==
  /\ stored' = Nothing
  /\ rows' = [b \in Batches |-> NoRow]
  /\ UNCHANGED <<now, edited, shown, pc, work>>

-----------------------------------------------------------------------------
Run(b) ==
  \/ Begin(b)
  \/ \E r \in Refs : Read(b, r) \/ DropNoise(b, r) \/ SkipUnreadable(b, r)
                   \/ ExtractFails(b, r)
  \/ Stop(b)
  \/ \E r \in Refs : Process(b, r) \/ ProcessFails(b, r)
  \/ Finish(b)
  \/ Crash(b)

Next ==
  \/ \E r \in Refs : Edit(r) \/ Show(r)
  \/ \E b \in Batches : Run(b)
  \/ Reset

Spec == Init /\ [][Next]_vars

-----------------------------------------------------------------------------
(* What the code promises.                                                 *)

\* The text of r that is stored is not the one its source has, and no later
\* run will notice until r is edited again.
Lost(r) ==
  /\ shown[r] > 0
  /\ edited[r] > 0
  /\ stored[r] # edited[r]
  /\ BehindWatermark(edited[r])

\* When runs do not overlap, a ref is lost in two ways only: a run ended in
\* success without having read it after its last change, or that found its new
\* text to be noise and dropped it. Failures, cancelled or killed runs and resets
\* lose nothing: a later run extracts it again.
OnlyUnreadOrNoiseIsLost ==
  \A r \in Refs : Lost(r) =>
    \E b \in Batches :
      /\ Succeeded(b)
      /\ edited[r] =< rows[b].completed
      /\ \/ work[b].readAt[r] < edited[r]
         \/ work[b].readAt[r] < shown[r]
         \/ r \in work[b].noise

\* A run that follows one that did not end in success starts from where that
\* one started, or earlier: "every source is retried on the next run".
FailedRunsAreRetried ==
  [][\A b, c \in Batches :
       /\ pc[c] = "unborn" /\ pc'[c] = "running"
       /\ rows[b].status = "other"
       /\ \A d \in Batches : rows[d].completed =< rows[b].completed
       => work'[c].since =< work[b].since]_vars

\* insert_item()'s docstring: "a source item edited since its last ingestion
\* is updated rather than silently skipped"; SetupWizard.jsx of a repository
\* that comes into scope: "you get that repo's full history". Texts that were
\* dropped as noise are not meant.
NothingIsLost ==
  \A r \in Refs : (\A b \in Batches : r \notin work[b].noise) => ~Lost(r)

=============================================================================
