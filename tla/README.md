# Verification of the personal knowledge graph agent

TLA+ specifications of the program in this repository, TLC configurations that
model-check them on small instances, and TLAPS proofs of their main properties
for every value of the constants. Paths below are relative to the repository's
source root (`src/` in `PROJECT.json`).

## 1. Inventory of the system

The program ingests a user's local files, Notion pages, mail, GitHub activity,
calendar and browser history into three stores (SQLite for items, chunks, runs
and conversations; Chroma for chunk vectors; Neo4j for relationships between
items), and answers questions over them through a FastAPI service with a React
frontend. On a host, cron starts the batch; under docker-compose, the API and a
scheduler run in two containers that share the SQLite file and the Chroma
directory, each with its own process ids.

| Component | State | Operations | Talks to | Correct when |
|---|---|---|---|---|
| Run lifecycle: `scheduler/daily_batch.py::_run`, `agent/ingest_trigger.py`, `ingestion_runs` table | one row per run (status, pid, count, cancel flag, error log); `_run()`'s locals | trigger, extract, process, relate, complete; cancel; reset | batch and API share only the SQLite file, and `os.kill()` | a run declared stopped is dead; a finished run's outcome stays; "success" means that everything was done; a stop request that comes through settles the row |
| Item stores: `_process_item`, `pipeline/embeddings.py`, `pipeline/relationships.py`, `storage/*` | items and chunks, vectors, nodes and edges | insert, embed, replace, undo; clear, narrow, judge, write; reset | three stores without a common transaction; several batches; the API's reset | chunk rows and vectors match; an item has chunks; one edge per pair; old edges are cleared before judging anew |
| Watermark: `get_last_run_timestamp`, extractors' `since` | completion times and statuses of the runs | extract what changed since the last success | all sources | no change is lost; a failed run is repeated |
| Scheduler loop: `scheduler/loop.py` | last check, schedule | poll, run the batch | settings file, batch | every due time leads to a run; no overlap in one process |
| Extractors: `extractors/*` | paging cursors | list, fetch, stop early | `on_progress`, remote APIs | all that is newer than the cutoff is returned, once |
| Filter, metadata, chunker: `pipeline/filters.py`, `metadata.py`, `chunking.py` | none | pure functions (metadata asks a model) | batch | chunks cover the text and respect the sizes |
| Query pipeline: `agent/graph.py`, `router.py`, `search_nodes.py`, `merger.py`, `graph_traversal.py`, `synthesizer.py` | the state of one query | route, search, traverse, merge, synthesize | all stores, providers | fusion is independent of irrelevant order; the traversal is bounded; sources are cited once |
| Conversation history: `record_conversation_turn`, sessions routes | sessions, messages | record a turn, list | threads of the API on one connection | a turn is recorded whole or not at all |
| Settings: `config/settings.py`, settings and setup routes | `config.yaml`, `.env`, a cache per process | update, reload | API, scheduler, batch | no update is lost or torn |
| Google OAuth: `extractors/google_oauth.py` | pending flows, token file | start, complete, refresh | browser, Google | a flow is completed at most once; the token file stays valid |
| Connection checks: `agent/connection_check.py` | cached statuses with a time | check, refresh | all services | a result is no older than its time says |
| Providers: `providers/*` | none | call with retries | HTTP | bounded attempts |
| Frontend: `App.jsx`, `SettingsPanel.jsx`, `ChatWindow.jsx`, `SetupWizard.jsx` | polled run, queue of saves | poll, stop, save | API | the run shown is the one triggered; saves apply in order |
| API application, mounted files, evaluation harness | start-up state; none | | | see "Not modelled" |

The hard behaviours are those no unit test orders: two batches and a reset
without any mutual exclusion; a stop request that reads a row, signals a pid and
writes the row again; failures and kills between the calls to three stores; a
watermark that is taken at the end of a run from sources that change meanwhile;
settings files that every request reads whole and writes back whole, a cache
filled outside any lock, and a screen that saves each field by itself; listings
that change while they are read page by page; threads that share one
transaction, two globals or a token file; a poll that must not miss a time.
`PROJECT.json` lists each at its line under "hazards".

## 2. Modules

    RunLedger            what the table of runs promises its readers
    IngestionRuns        the life of a run: batch, stop request, machine
      MCIngestionRuns        instances for TLC
      IngestionRunsProofs    its theorems
      RunLedgerProofs        that it implements RunLedger
    ItemStores           a batch's and a reset's calls to the three stores
      MCItemStores
      ItemStoresProofs       its theorems
    Watermark            which changes reach the store over successive runs
      MCWatermark
      WatermarkProofs        its theorems
    Extractors           what one extractor returns of one feed, run after run
    Chunking             chunk_text()
    RunPolling           how the browser follows a run it has triggered
      MCIngestion            instance of Watermark and of these three
      IngestionViewsProofs   theorems about the three, and its types
    Orders               sorting a set by a strict total order
      OrdersProofs           what the sorted sequence is
    SettingsStore        config.yaml, .env, the cached settings, the requests
      SettingsPanel          the Settings screen on top of it (EXTENDS)
        MCSettings             instances for TLC
        SettingsProofs         theorems about both
    Conversations        the chat window, the queries, one shared connection
    QueryPipeline        one question on its way through the agent's graph
    GoogleAccess         flows, callbacks, the token file, the wizard's polling
    ConnectionChecks     the cached connection checks
    Schedule             the scheduler's poll of clock and settings
      MCServices             instance of these five
      ServicesProofs         its theorems

IngestionRuns, ItemStores and Watermark look at the same `_run()` at three grains.
IngestionRuns keeps every statement on the run's row and forgets what an item is; ItemStores keeps every call
to a store and forgets who may stop the batch; Watermark keeps the order
of changes, reads and completions and forgets both. MCServices and MCIngestion put
parts side by side that share no state, each in an INSTANCE of its own: a behaviour
is one of one part, chosen at the start, since interleaving independent parts shows
nothing that the parts do not.

### IngestionRuns

A batch `b` stands for one process execution and for the run it creates.
`rows[b]` is the row in `ingestion_runs`, `pc[b]` and `work[b]` are the place
and the locals in `_run()`, `proc[b]` is the pid and its namespace. A handler
`h` is an API thread in `cancel_ingestion()`; `hpc[h]` is its next call and
`hcall[h]` what it has read. Each SQL statement is committed by itself in the
code and is one action here; `os.kill()` is another, with one action per kind of
process that may hold the pid (`KillBatch`, `KillApi`, `KillForeign`,
`KillRefused`, `KillMissing`). Any of its statements may fail (`CallFails`), and
the request ends there; how a request has ended stays in `hpc[h]`: by returning
("idle"), with an exception ("failed"), after a refused signal ("refused"), or with
its last write taken back by another thread's rollback on the shared connection
("undone").

- A signalled batch dies at once: `_run()` installs no handler for SIGTERM.
- `Crash` is any exception that leaves `_run()` and any power cut.
- The API may restart (`ApiRestart`): on a host the batches survive it, in a
  container they die with it. Other programs may take a freed pid.
- The main process of each container is pid 1, hence `RunInScheduler` runs
  under the number `ApiPid`.
- Left out: `current_item`, a display string, and rows without a pid, which
  only versions before that column wrote.

RunLedger is the abstract specification: a run is launched, announced, stores and
reports, and is settled once, by itself with all that it stored, or, when its
process is gone, as force-stopped with what was last reported. `TableView` in
IngestionRuns maps the state to it; the property `ImplementsRunLedger` says that
every behaviour is one of the ledger. The view has the runs of the API's own pid
namespace only, and the others as unseen: for those the ledger's promise is not
kept (`docker_stop`).

### RunPolling

The browser's view: a trigger `k` is answered with a label that no row has, and
`poll[k]` asks for the last run of the table (`ServeStatus`), takes it for its own if
it is recent enough (`IsThisRun`), and sets its timer again until it has reported or
given up. `runs` has the rows of triggered and scheduled runs in the order of their
start, `shown` is App's `ingestionStatus`. Of the times only their comparison is
kept: `from` is the first run that counts as recent. A second trigger clears the
timer of the first polling if it waits, and cannot if its request is under way.
The pollings of the status of Google's sign-in are in GoogleAccess.

### ItemStores

An item id is the pair of the batch that created it and the source ref; so is a
vector's text. These names are as fresh as the code's `uuid4()` values, because
a batch reads a ref at most once. A batch's chunks for an item are one value,
since they are embedded and replaced as a whole. Each call to a store is one
action that may fail; the failure paths (`ReplaceFails`, `UndoItem`,
`UndoFails`, ...) follow the `except` clauses. What narrowing finds, which text
is nearest, and what the model answers are chosen freely.

- `failed` stands for "errors is not empty, or cancelled".
- A batch holds the collection it opened (`handle`); a reset replaces it, and
  calls on the old one fail.
- `MERGE` matches on the label too: between the same two items in the same
  direction the write either finds its label or adds an edge.
- A candidate's reads in `detect_relationships()` before the judgment are one
  step, and so are the narrowing reads. A failed call is taken as not done.
- The relationship pass sees `Relatable` at the moment of the narrowing.

### Watermark

Time is logical: each change of a source and each completion of a run has its
own time. `edited[r]` is what a source says, `stored[r]` the edit that the
store has. `shown[r]` is when a ref came into the configured scope. A run reads
refs in any order (`Read`), drops some as blank or too short, in the extractor
or by the filter (`DropNoise`, no error either), cannot read some (`SkipUnreadable`:
logged, not an error), fails on a source (`ExtractFails`), is stopped (`Stop`), stores or
fails to store an item (`Process`, `ProcessFails`, which may delete what was
stored), and completes (`Finish`). `since` and the new row are two statements
of the code in a row and one action.

### Extractors

One feed of one kind: a repository's README, a commit, a pull request, an issue, a
star, a mail thread, a calendar event, a Notion page, a local file, a visited page.
`feed[e]` is what the source says of entry `e` now, `run` the extractor at work. A
listing is fetched by counted pages (`FetchNumberedPage`: GitHub, where a removal
moves up what is behind it), by a cursor whose content is settled with its first
page (`OpenCursor`, `FetchCursorPage`), or as one copy (`CopyHistory`). What is
listed by name is read one by one afterwards (`ReadNext`). The filters (`Asked` by
the server, `Wanted` by the code) and the window (`EffectiveSince`, `Until`) are
those of each extractor. `LoseCategory` is a GitHub category that fails and is
logged, `FailListing` an error that fails the run, `Skip` an event that cannot be
parsed. `cause[e]` is history: why the last listing left `e` out.

- A README whose last commit cannot be looked up is extracted in any case
  (`undated`).
- Filters on an entry's contents (labels, domains, numbers of visits), and the
  texts that are made of an entry, are left out.
- What a date range or a local date excludes is compared in whole days; the clock
  counts days, changes and completions alike. `DateRanges` are the ranges that a user
  may have set; the feed has one of them, or none, for good.

### SettingsStore and SettingsPanel

`stored` is what the two files hold (`torn` while `config.yaml` is truncated),
`cache` what `get_settings()` keeps, `call[c]` the one request that sender `c`
has under way: a PUT goes through `sent`, `read`, `truncated` (only
`config.yaml` is written in place; `set_key()` renames a finished copy over
`.env`), `written`, `getting`, `loading`, `answered` or `failed`, one server
step each, and interleaves with all others at every point. `seen` is what it
read last. A setting saved as `v` is read back as `Canonical[v]`: lists lose
blank entries, paths their trailing slash, an empty Gmail date becomes the
default.

A panel is one visit to the Settings screen. `queue[m]` is the chain of promises
in its `saveQueueRef`, `job[m]` how far its first save is, `lastSaved[m]` its
`lastSavedRef`. Of the shown panel, `text` is what its fields display, `focus`
the one that has been changed but not left, `dialog` the question on the screen.
Answers that arrive after the panel is left still run its queue, but set no
text; a question it asks then is never shown and never answered. The same
happens to a question on the screen when another takes its place (`AskSave`,
`AskButton`: "Reset all data" and "Stop ingestion"), or when "Reverify" fails and
an error stands where the panel was (`ReverifyFails`, and `LoadFails` at the start;
`view` is "broken").
`unmatched` says that the stores hold vectors of a model other than the stored
one. `mishaps` is history: whether two PUTs of one file were under way together
("clash"), a write fell into a load ("race"), or a screen was opened while the
last one's saves were still to come ("stray").

- One PUT carries one key, as every save of this screen does. The GETs that load
  the screen are one call; a retried `set_key()` counts with its last attempt.
- A dialog covers the screen for the mouse but keeps no keyboard focus, so what
  is behind it stays in reach; a field that was changed is left before anything
  else is clicked.
- A reset and a triggered ingestion are single steps that succeed or fail; what
  happens in them is the subject of the other modules.
- Left out: a crash or a full disk between truncating and writing (the file stays
  empty or cut off), a parse of a file cut off in the middle, an answer that is
  lost after its write, the setup wizard, which saves without the queue, and the
  credential forms.

### Conversations

`call[t]` is the POST of question `t`, from `run()` through
`record_conversation_turn()`; `screen` the chat window that was mounted last, `app`
what App keeps of it. All threads of the API share one SQLite connection: `durable`
is what the file holds, `view` what the connection sees, so that any thread's
commit makes all writes durable (`CommitBy`), and any rollback takes all of them
back (`RollbackBy`). `OtherWrites` is any other route that commits or rolls back,
`AskReset`, `CommitReset`, `ResetFails` and `TakeReset` are the reset of all data
with what App makes of it, `Restart` is the API's. A window that is left is gone;
its request goes on and its answer still reaches App (`TakeAnswer`). `mishap[t]` is
history: what other threads did while `t` was recorded.

- A call of a model takes up to `MaxRetries` + 1 attempts (`AttemptFails`); what
  happens between them is the QueryPipeline's subject.
- `created_at` is a time of its own for each turn; SQLite's lock between processes
  shows as a statement that may fail.

### QueryPipeline

`query` is the state of the agent's graph for one question: the router's decision,
the hits of the three searches, the fused list, the context and the sources. One
action is one node, but for `synthesize()`, which reads item by item while others
delete (`ReadItem`, `ReadChunks`). `ToHits`, `RankScore`, `Merged`,
`ConnectionCount`, `Neighbours` and `GraphHits` are the pure functions of
`search_nodes.py`, `merger.py` and `graph_traversal.py`. A score is the rational
`1/(60 + rank)` times a number that makes it whole for the ranks that the run has;
the code's floating-point numbers are rounded elsewhere. Orders has the sorting of the
merged hits, and of a session's messages: `Sorted` takes as the n-th what has n - 1
before it. What a
search finds, which items are related, and which lookups fail are free.

### GoogleAccess

`flows` is `_pending_flows`, `callback[c]` a GET of the callback route, `loader[l]`
a `load_credentials()` in a thread of the API or in a batch, `token` the file, which
`write_text()` first empties and then fills, `wizard` the Google step with its popup
and its polling. A grant has the number of the attempt that obtained it, a repeated
redirect and one after a restart are allowed. `lapses` is history: whether a writer
was at work when another obtained or read a grant, or died in the middle.

### ConnectionChecks

`cache` and `cacheTime` are the two globals, written one after the other by any
thread that has checked; `request[r]` is a GET or a POST (`forced`). A check takes
any time. An answer is the global at the moment of the return, not the request's
own result.

### Schedule

`run_forever()` with its `lastCheck`, the settings file that another process writes
in place, and batches of any length. A schedule is a set of fire times. A file that
is empty is read as all defaults, one that is cut off is a configuration error,
which ends the loop; the container is then started again (`restart:
unless-stopped`). `due` is history: the fire times that no run has followed yet.

### Chunking

`chunk_text()` as a state machine: the words of a text are numbered, a text is the
sequence of the last words of its paragraphs, which therefore increases, and a chunk
is an interval of words. `WordsBy(text, k)` are the words of the first k paragraphs. `PackParagraph` joins a paragraph to the current
chunk or begins another, `OpenWindows` and `CutWindow` are
`_sliding_window_split()`. A target below 1, which no setting excludes either, is
not looked at. A chunk's text and its estimate of tokens are left out.

## 3. Runs

| Run | Instance | Shows |
|---|---|---|
| `ingestion_stops` | host; 1 batch, 2 stop requests, 2 sources of up to 2 items, foreign processes that can and cannot be signalled, 1 API crash | every behaviour is one of RunLedger, which includes that a force-stopped run is dead and a settled one stays as it is; no unearned success; counts are committed |
| `ingestion_docker` | docker; 2 batches without items, in the API's container or the scheduler's, 2 pids, 1 stop request at a time, pids reused by batches and by processes that can and cannot be signalled | the same safety for runs the API can signal; a stop request settles its row, unless one of its statements fails, its signal is refused, or its write is rolled back |
| `item_stores_sequential` | 2 batches one after the other, 2 items, 1 reset, 1 kill or failed undo | a success has stored and embedded what it extracted; one edge per pair; stale edges cleared |
| `item_stores_overlap` | 2 batches at once on 1 item, 2 resets, 2 kills or failed undos | chunk rows and vectors stay together; only a lapse leaves an empty item |
| `ingestion_views` | MCIngestion. Watermark: 2 runs, 2 refs, one late and unreadable at times, 4 changes and completions. Extractors: 10 kinds of feed, 2 entries, pages of 1, 4 changes and completions, a Gmail window of 2 days back, a calendar of 1 ahead, a local date up to 1 day behind. Chunking: up to 3 paragraphs of 1 to 5 words, targets 1 to 3, overlaps -1 to 3. RunPolling: 2 triggers, 2 rows, 2 polls each | what can be lost and for which causes, that a listing nothing disturbed is complete, that nothing unchanged is extracted again, and that failed runs are retried; chunks cover the text; the run shown is followed, is over when it says so, and is not older than the one triggered |
| `settings_saves` | fresh installation; one generation model, the mode and one key of `.env`, 3 values of which two read back alike; 2 visits, 2 edits, 1 other reader | saves are kept, the cache and the screen show the files; every queued save settles, or waits for a question nobody can see; a mode switch is followed by its reset |
| `services` | MCServices. Conversations: 3 questions, the first answered before, 1 retry, 2 windows, 1 write of others, reset or restart. QueryPipeline: 4 items, searches for 2 chunks, 3 related pairs. GoogleAccess: 2 attempts, 2 callbacks, 1 loader in the API and 1 in a batch, 2 polls. ConnectionChecks: 2 requests, an age of 2, 4 ticks. Schedule: 2 schedules, 5 polls, 2 writes. | turns are stored whole and answers kept, but for what other threads do meanwhile; questions end and are seen to; fusion, traversal and citations; the newest Google grant survives; the wizard stops waiting; answers about connections are recent; fire times are served |
| `docker_stop` | as `ingestion_docker`, 1 batch | violated: a stopped scheduler batch lives on |
| `deleted_item` | | violated: a deleted item's vectors stay |
| `rejudged_item` | | violated: relationships judged on text the item no longer has |
| `midrun_edit` | | violated: an edit during a run is lost |
| `settings_two_panels` | as `settings_saves`, an embedding model in place of the mode | violated: two visits' PUTs of one file in flight together |

**Bounds.** Two batches are enough for every race of this code: its steps relate
a batch to at most one other (a row, an item, a pair's edge, a watermark), and
two stop requests to see one overwrite another. Two items make a pair, and with
its two directions the case the duplicate check is for. `MaxItems` and
`NumSources` are 2 where counting matters, so that there is a first and a last.
For the extractors, two entries on pages of one make a listing of several pages in
which one entry can move, and four times suffice for an entry that is extracted,
changes and is passed by the next watermark; larger bounds were not within minutes.
Two rows are two triggered runs, or a triggered one and a scheduled one before or
after it. For the conversations, two questions beside an earlier one can be recorded at
once, in one session or two, from a window that is left or not. Four
items let the two searches find the same, other or overlapping ones and the traversal
what neither did, with ranks that differ; two callbacks repeat one redirect or answer two; two checks overlap in every order; the
schedules have fire times next to each other, so that a batch can run over one, and
the default's lies at the end. The texts have paragraphs below, at and
above every target, and the overlaps are below, at and above it.

For the settings, two edits make a queue with a save behind another, in one panel
or in two, of one file or of both; the third value and the fourth caller add no
new way for two of them to meet. `MaxLapses`, `MaxResets`, `MaxTime`,
`MaxApiRestarts`, `MaxPanels`, `MaxEdits`, `MaxFeedTime`, `MaxMounts`, `MaxUpsets`,
`MaxWrites`, `MaxRuns` and the numbers of questions, attempts and callbacks cap what would
otherwise be unbounded; `MaxRetries` and `MaxPolls` are limits of the code, lowered.
A bound appears only in a guard. Symmetry is used over batches, handlers
and refs in runs of safety properties only. `CHECK_DEADLOCK FALSE` stands where
every batch may be over, or every edit made, or every question asked, and nothing is
left to do.

**Fairness.** `FairSpec` assumes weak fairness of each handler's own steps: a
request that Starlette has accepted is carried through by its thread. Nothing
is assumed of batches, which may hang or die. A signalled API serves its
requests first, as uvicorn does; `ingestion_docker` has no API crash, which would
end a request like a failed statement ("failed"). SettingsPanel's `FairSpec` assumes that the
server carries its requests through, that the browser runs the promise callbacks
that are due, and that a user who is shown a question answers it, one way or the
other; nothing is assumed about opening, leaving or editing. `EverySaveSettles`
speaks of every panel, shown, left or broken; it excuses only a save whose own
question is not on the screen (`Unanswered`).

In MCServices, Conversations assumes weak fairness of each question's thread and,
after it, of the browser's callback (`EveryQuestionSettles`); GoogleAccess of the
polling timer and its request, which ends one way or the other (`ConnectingEnds`),
not of Google, its callbacks or the user; Schedule of the loop, whose sleeps and
batches end, and of Docker, which starts it again (`FireTimesAreServed`). A batch
that hangs would stop the scheduler for good: that it does not is an assumption
there. No fairness is assumed of users, readers, other writers, restarts or the clock.

**Mutants.** Each checked property is paired with a plausible bug of a mapped
definition, kept beside it in the module ("Mutant of ..."), that violates it.

## 4. What is proved

All proofs are for any number of batches, handlers, pids, sources and refs, panels,
readers, keys and values, questions, attempts, callbacks and loaders, requests, items,
entries, triggers and polls, and for any value of the bounds, from the named assumptions
on the constants alone. Where a theorem is stated under `~Overlap`, the overlapping runs
are the other case of the constant, in which the statement can fail. Every invariant and
every action property that a passing run checks is a theorem; what is left to TLC is
liveness.

**IngestionRunsProofs**: `TypeCorrect`, `ForceStoppedRunsAreDead`,
`SuccessesAreEarned`, `CountsAreCommitted`, `FinishedRunsAreFrozen`, from the
assumptions on the constants in IngestionRuns only. The safety properties are
not inductive: that a force-stopped run is dead follows from what a handler
knows between its calls. `IInv` adds to them:

- `RowsKnown`, `PidsUnique`: a row has its process's pid, and no two live
  processes of the API's namespace share one;
- `KillAimed`: what a handler is about to signal is the pid of its run;
- `KillConfirmed`: past the signal, that run's batch is gone, whoever received
  the signal: if it was someone else, the pid was free to be taken;
- `FinishedIsOver`, `SourcesDone`, `CountsBounded`: where a batch is once its
  row has an outcome, what the loop over the sources has done, and that a
  handler's copy of the count is no higher than the batch's.

One lemma per conjunct shows it preserved, over two lemmas that sum up what any
step does to a row and to a handler.

**RunLedgerProofs**: `RunsImplementTheLedger`: IngestionRuns implements RunLedger for
any number of batches, handlers, pids and items. The invariant is `IInv` together
with `UnbornIsBlank` (a batch that has not begun has no row and has stored nothing)
and `AbsentIsBlank` (a deleted row leaves no count); there is a lemma per action
that names the ledger's step it is, or shows that the view does not change.

**WatermarkProofs**: `OnlyUnreadOrNoiseIsEverLost` and `EveryFailedRunIsRetried`, under
`~Overlap`: with overlapping runs neither holds. The invariant says that at
most one run is alive (`Alone`), that it holds the true watermark (`Since`), and
that each ref it has reached is stored, waits, was old, was dropped as noise, or has
changed since it was read (`Reached`).

**ItemStoresProofs**: `TypeCorrect`, `ChunksStaySearchable`,
`EmptyItemsStayLapses`, with or without `Overlap`, for finitely many refs (a
source lists so many items that they can be counted). Every step of a batch is
either quiet, touching neither items, chunks nor vectors (`QuietSteps`), or has
an effect lemma of its own; the invariants are then shown from these effects.

- `Searchable` adds to `ChunksAreSearchable` that no handle is newer than the
  collection (`Handles`), that a batch which has not begun owns no chunks
  (`Fresh`), that chunks go with their row (`Rowless`), and that the vectors are
  there before the chunks are (`Embedded`);
- `EmptyItemsAreLapses` is a count, and the argument is by steps: `AddsByLapse`
  says that a step adds no empty row, or one together with a lapse.

`OneEdgeInTurn`, `SuccessStoresAll` and `StaleEdgesCleared` need `~Overlap`: with two
batches at once, a pair gets two edges, and a success may find its item replaced.
Their invariant, `InTurn`, says that at most one batch is under way (`Alone`), that one
yet to begin has no results (`Unbegun`), that the pair about to be written has no edge,
that an updated item's edges are cleared or still to be, and that, unless an error was
noted, what was extracted is stored or still to do. `SuccessIsStored` and
`StaleEdgesAreCleared` are about the step in which the status turns to success.

**SettingsProofs**: `TypeCorrect`, `SavesStayKept`, `CacheStaysFresh`, for any
number of panels, readers, keys and values, any edits and any `Canonical` that is
idempotent. `StepsOfTheStore` shows that whatever a panel, its user or a reader
does is one step of the store or leaves it alone; the store's steps are then
summed up by what they do to one call.

- `SavesAreKept` needs `OneWriter` (without a clash, the PUTs under way are of
  different files) and `Snapshots` (what such a PUT has read of its file is
  still there);
- `CacheIsFresh` needs `FreshInv`: a truncated file has its writer, a load has
  seen what the files hold unless `config.yaml` is truncated, and so has the
  cache, unless the writer that will clear it has not yet;
- `TypeCorrect` needs `Coherent`: only a queue with a save in it is at work, a
  question about a save belongs to the shown panel, and a panel still to be
  mounted has asked for nothing.

`PanelKeepsShowing` is about all three: the store, the queue of saves and the screen.
Until a mishap, only the shown panel has saves (`OneQueue`); it knows what is stored
but for the key it has just written (`Knows`), and shows that, or what the user is at,
or what is queued, `Pending` in the order of the queue (`Shows`).
`Linked` ties a queue to its PUT.

**OrdersProofs**: for a finite set and a strict total order on it, each element has a
place of its own (`Places`), and `Sorted` puts each there, all of them once
(`SortedIs`). The proof counts what precedes an element; no induction is needed.

**ServicesProofs**, one invariant per part:

- ConnectionChecks: `AnswersStayRecent`, from `ChecksInv`: the cached result is no older
  than its check, and a request that has stored its own finds it or a later one.
- GoogleAccess: `GrantIsKept`, from `GrantInv`: until something went wrong, a callback
  with a grant is alone with it and it is the newest, a loader at work has the newest,
  and the file is the newest grant, or somebody is about to write it.
- Conversations: `TurnsStayWhole` and `AnswersStay`, from `TurnInv`, which follows a
  turn through the connection's view, the file and the thread's place, and the notes
  that other threads' commits and rollbacks leave. `AnswersStaySeen`, from `SeenInv`:
  the window has the bubble of each question it has asked until a history overwrites it.
  `HistoryKeepsAlternating`, from `HistoryInv`: a time and a session belong to one
  turn only, in the rows of both the view and the file and for a turn at work, and a
  turn's question precedes its answer; `SortedIs` then gives the order of the history.
  A turn in whose midst another thread committed is excused, so of two recorded at
  once the theorem speaks of the one that commits first.
- QueryPipeline: `TwiceFoundComesFirst`, `NeighboursComeByConnections` and
  `CitationsStayInOrder`, from `QueryInv` and lemmas about the pure functions (what
  `ToHits` and `Merged` return, when a score exceeds another, what a lookup counts).
  The first is stated for up to 61 results of each search, see section 5. The second
  excludes no case: the searches may overlap, one pair of items may be related in
  both directions, a lookup may fail. The count of the code, over hits and
  relationships, is shown to be a sum over the sets of seeds of each search
  (`CountIsWeight`); it is not the number of distinct seeds that the docstring
  promises, see section 5.
- `ServicesTyped`: every variable of the five parts keeps its type, with the attempts
  of the retry loop within their limit.

**IngestionViewsProofs**:

- Chunking: `ChunksAreTheText`, from `CutInv`: the chunks so far are in order and
  cover all words up to the current chunk or window, and whatever paragraph
  fits is whole in one of them or in the current one. The target is any positive
  number and the overlap any integer: a window starts later than the last by at least a
  word, which bounds the number of chunks.
- RunPolling: `ShownRunStaysFollowed`, from `PollInv`: every answer on its way, and what is
  shown of it, is true of a run, and a run shown as going on has its polling.
- Extractors: `NothingTwice`, `UndisturbedIsWhole` and `LossesHaveCauses`, from
  `FeedInv`. Its parts say which times are before which (`Times`), that the window is
  that of the run's start (`Window`), that an undisturbed listing has exactly what is
  new but for what is still awaited (`ExactlyNew`), that what has changed and came to no
  harm is held or awaited (`NewIsHeld`), and that what the watermark has passed is stored
  or has an excuse (`LossIsExcused`). That a numbered listing may stop early rests on
  `SortedIs` and on counting again: what is on later pages is older than what is on this
  one.
- `ViewsTyped`: every variable of the four views keeps its type, also when batches overlap.

**Only model-checked**: `CancelFinalises`, `EverySaveSettles`,
`SwitchIsFollowedByReset`, `EveryQuestionSettles`, `ConnectingEnds` and
`FireTimesAreServed`: liveness under fairness, whose proof needs ENABLED, is beyond the
prover.

## 5. Disagreements between the code and its documents

The five violation runs each end in a counterexample; `PROJECT.json` quotes the
sentences. The same models show more, which no run repeats:

- Two overlapping batches may both judge a pair before either writes, and give
  it two edges, what `has_any_relationship()` is there to prevent.
- A success that overlaps a failed run moves the watermark past what the failed
  run had extracted.
- A kill between `insert_item()` and `replace_chunks()` leaves an item without
  chunks, although `_process_item()`'s docstring excludes it; ItemStores checks
  that only a kill or a failed `delete_item()` does.
- `delete_relationships_for_item()` may leave a node without edges, which
  `get_full_graph()`'s docstring says cannot exist.
- A batch of the scheduler container overwrites the "cancelled" that a stop
  request has written, also with "success".
- A repository that comes into scope with edits older than the watermark stays
  out, although the setup wizard promises its full history.
- A mode or embedding model that is saved but whose data reset fails leaves the
  old vectors in place, what `LLMConfig`'s docstring says the frontend prevents;
  saving it again is skipped as no change.
- A load of the settings that is under way during a write may put what it read
  before into the cleared cache, and a PUT then answers with settings older than
  its own write, although `update_llm_config()` promises "the freshly reloaded
  configuration, reflecting the write".
- A question is never answered, and the saves queued behind it are never sent, when
  the panel is left first, when "Reset all data" or "Stop ingestion" is asked in its
  place, or when a failed "Reverify" puts an error where the panel was while the user
  stays; `useConfirm()`'s comment promises that `confirm()` "resolves to `true`/`false`
  the same way" as the browser's.
- The traversal counts a seed that both searches found twice, and a pair with two
  relationships twice, although its docstring ranks "by how many distinct seed items
  they're connected to": of the hits 1, 2 and 1, 3, with pairs 1-4, 2-5 and 3-5, it puts
  4 before 5.
- An item that is edited until its text is blank or shorter than the filter's limit
  is dropped without an error: the run succeeds, the watermark passes the edit, and
  the old text stays stored, although `insert_item()` wants an edited item "updated
  rather than silently skipped".
- A stop request whose last statement fails leaves the row of a killed batch at
  "running"; the next stop request settles it.
- A check that Reverify forces may be answered with an older one, which took longer
  and was stored in between: the answer is the global, not what the request found.
- A commit of any route between the inserts of a turn, and a failure after it, leave
  half a turn, what `record_conversation_turn()` is one transaction to prevent.
- The history of a session that arrives after a question was asked replaces its
  pending bubble, and the answer is not shown until the session is opened again;
  the answer of a chat that was left makes its session App's.
- A refresh that was under way while a new grant was obtained writes the old grant
  over it; a process that ends between emptying and filling the token file leaves no
  token, while `is_connected()` goes by the file's existence.
- A run that began and ended within two seconds before the click is taken for the
  one triggered, and the polling ends with it. The answer to a poll of an earlier
  trigger may arrive last and leave the older run on the screen.
- The wizard waits for ever if the last of its status requests fails.
- What a listing leaves out for good (`EveryLossHasACause` has the whole list): a
  category or a file that failed by itself in a run that succeeds; a pull request
  that changes later, although its comments are ingested; a commit or README dated
  before its push; an event that comes into the calendar's window by the passing of
  time; a mail after the local midnight when UTC has the next day; an entry that
  moved up a counted page.
- A scheduler that polls while the settings file is empty uses the default schedule
  and passes over the fire time of the one that was set.
- A negative overlap is accepted, and the windows then skip words.
- With more than 61 results per search, which `RetrievalConfig` accepts, a hit in the
  last place of both searches no longer beats one in the first place of one: with 62
  they tie. The default is 8.

## 6. Plan

1. An abstract specification of the settings (a map that is written one key at a
   time), with SettingsStore shown to implement it without a clash; one of the
   conversation (turns that appear whole), with Conversations shown to implement it
   while no other thread commits in between.
2. The setup wizard's saves, which bypass the queue of the Settings screen.
3. The credential updates of `.env` by the setup routes, beside the PUTs of the
   settings.

## 7. Not modelled

- Ranking quality, prompts, model output parsing, HTML and React rendering:
  their results are free choices where they matter.
- The internals of SQLite, Chroma and Neo4j: each call is atomic, as their own
  guarantees for single statements have it.
- The comparison of the noise filter (a length with a setting) and the metadata
  prompt: which items they drop or fail is free in Watermark and ItemStores.
- The setup wizard but for its Google step (planned), and the graph view, a pure read.
- Health, status and graph routes, mounted-file listing, folder browsing and the
  evaluation harness: they read, and keep no state.
- The credential and OAuth client updates, which are the same code on `.env` as the
  key that SettingsStore has, and the older token files of single services.
- The settings caches of batch processes, each of which loads once and ends.
