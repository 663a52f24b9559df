--------------------------- MODULE IngestionRuns ---------------------------
(***************************************************************************)
(* The life of one ingestion run, from the launch of the batch process to  *)
(* the final status of its row in the ingestion_runs table, and the        *)
(* "Stop" button that races with it.                                       *)
(*                                                                         *)
(* Three kinds of process meet here and share nothing but the SQLite file: *)
(*   - batch processes, each one call of scheduler/daily_batch.py::_run(); *)
(*   - API handler threads, each in agent/ingest_trigger.py::              *)
(*     cancel_ingestion() or in the part of reset_all_data() that empties  *)
(*     the table;                                                          *)
(*   - the rest of the machine, which may reuse a dead process's pid.      *)
(* Every SQLite statement of the code is one atomic step, because each is  *)
(* committed at once; os.kill() is another, and everything may happen in   *)
(* between. A statement of the API may fail, or be taken back by another   *)
(* of its threads before its commit: they share one connection.            *)
(*                                                                         *)
(* What one item or one source does to the stores is left to ItemStores;   *)
(* here an item succeeds or fails, and a source yields some items.         *)
(***************************************************************************)
EXTENDS Naturals, FiniteSets

CONSTANTS
  Batches,         \* the batch executions; a run's id is its batch
  Handlers,        \* the API threads that serve POST /api/ingest/cancel
  Pids,            \* the process ids of the API's pid namespace
  ApiPid,          \* the API's own pid; under Docker also the scheduler's
  Deployment,      \* "host", or "docker": the scheduler in its own container
  NumSources,      \* the length of _EXTRACTORS
  MaxItems,        \* bound: the items one source yields after the filter
  MaxApiRestarts,  \* bound: how often the API process is restarted
  ForeignOwners    \* whose processes may take over a freed pid

ASSUME DeploymentAssumption == Deployment \in {"host", "docker"}
ASSUME PidAssumption == ApiPid \in Pids
ASSUME BoundsAssumption == /\ NumSources \in Nat
                           /\ MaxItems \in Nat
                           /\ MaxApiRestarts \in Nat
ASSUME OwnersAssumption == ForeignOwners \subseteq {"same_user", "other_user"}

VARIABLES
  rows,      \* rows[b]: the ingestion_runs row of b, or NoRow
  pc,        \* pc[b]: where b is in main() and _run()
  proc,      \* proc[b]: the namespace and pid b runs under
  work,      \* work[b]: the local variables of _run()
  foreign,   \* the pids held by processes that are not ours
  hpc,       \* hpc[h]: the next step of handler h in cancel_ingestion(), or
             \* how its last request ended
  hcall,     \* hcall[h]: its run_id and what it last read from the row
  signalled, \* the API process itself was sent SIGTERM
  restarts   \* how often the API process was restarted

batchVars == <<pc, proc, work>>
handlerVars == <<hpc, hcall>>
machineVars == <<foreign, signalled, restarts>>
vars == <<rows, batchVars, handlerVars, machineVars>>

Namespaces == {"api", "scheduler"}
Terminal == {"success", "partial_failure", "failed", "cancelled"}

\* log abstracts error_log: absent, the batch's joined errors, or the text
\* "Force-stopped by user" that only cancel_ingestion() writes.
Row == [status : {"absent", "running"} \cup Terminal,
        cancelRequested : BOOLEAN,
        pid : Pids,
        items : Nat,
        log : {"null", "errors", "forced"}]

NoRow == [status |-> "absent", cancelRequested |-> FALSE, pid |-> ApiPid,
          items |-> 0, log |-> "null"]

BatchPc == {"unborn", "starting", "source", "extract", "postcheck", "items",
            "progress", "cleanup", "relate", "finish", "closing", "gone"}

Work == [source : Nat, todo : Nat, processed : Nat,
         failed : BOOLEAN, cancelled : BOOLEAN]

\* How a request ends: by returning, with an exception or with the API, without a
\* confirmed kill, or with its last write taken back.
Ended == {"idle", "failed", "refused", "undone"}
HandlerPc == Ended \cup {"flag", "read", "kill", "recheck", "write"}

Exists(b) == rows[b].status # "absent"
Running(b) == rows[b].status = "running"
Alive(b) == pc[b] \notin {"unborn", "gone"}

\* b is a process that the API's os.kill() can name.
InApiNamespace(b) == proc[b].ns = "api"
UsedPids == {ApiPid} \cup foreign
              \cup {proc[b].pid : b \in {c \in Batches : Alive(c) /\ InApiNamespace(c)}}

TypeOK ==
  /\ rows \in [Batches -> Row]
  /\ pc \in [Batches -> BatchPc]
  /\ proc \in [Batches -> [ns : Namespaces, pid : Pids]]
  /\ work \in [Batches -> Work]
  /\ foreign \in SUBSET Pids
  /\ hpc \in [Handlers -> HandlerPc]
  /\ hcall \in [Handlers -> [run : Batches, pid : Pids, items : Nat]]
  /\ signalled \in BOOLEAN
  /\ restarts \in Nat

Init ==
  /\ rows = [b \in Batches |-> NoRow]
  /\ pc = [b \in Batches |-> "unborn"]
  /\ proc = [b \in Batches |-> [ns |-> "api", pid |-> ApiPid]]
  /\ work = [b \in Batches |-> [source |-> 1, todo |-> 0, processed |-> 0,
                                failed |-> FALSE, cancelled |-> FALSE]]
  /\ foreign = {}
  /\ hpc = [h \in Handlers |-> "idle"]
  /\ hcall \in [Handlers -> [run : Batches, pid : {ApiPid}, items : {0}]]
  /\ signalled = FALSE
  /\ restarts = 0

-----------------------------------------------------------------------------
(* The ingestion_runs table: an UPDATE of a row that is gone changes none. *)

\* UPDATE ingestion_runs SET ... WHERE id = b
Update(b, newRow) == IF Exists(b) THEN [rows EXCEPT ![b] = newRow] ELSE rows

\* complete_ingestion_run(): it does not look at the status it overwrites.
Complete(b, status, items, log) ==
  Update(b, [rows[b] EXCEPT !.status = status, !.items = items, !.log = log])

\* is_cancellation_requested(): FALSE for a row that is gone.
CancellationRequested(b) == Exists(b) /\ rows[b].cancelRequested

-----------------------------------------------------------------------------
(* The batch process.                                                      *)

Goto(b, from, to) ==
  /\ pc[b] = from
  /\ pc' = [pc EXCEPT ![b] = to]

\* POST /api/ingest/trigger spawns a process, and so does cron on a host.
\* Nothing looks for a run that is still under way.
Spawn(b) ==
  /\ Goto(b, "unborn", "starting")
  /\ \E p \in Pids \ UsedPids : proc' = [proc EXCEPT ![b] = [ns |-> "api", pid |-> p]]
  /\ UNCHANGED <<rows, work, handlerVars, machineVars>>

\* The scheduler container calls the batch in its own process, one at a
\* time. That process is the container's first, as the API is in its own.
RunInScheduler(b) ==
  /\ Deployment = "docker"
  /\ \A c \in Batches : Alive(c) => InApiNamespace(c)
  /\ Goto(b, "unborn", "starting")
  /\ proc' = [proc EXCEPT ![b] = [ns |-> "scheduler", pid |-> ApiPid]]
  /\ UNCHANGED <<rows, work, handlerVars, machineVars>>

\* Mutant of StartRun: the row carries the pid of the process that spawned b.
StartRunWithParentPid(b) ==
  /\ Goto(b, "starting", "source")
  /\ rows' = [rows EXCEPT ![b] = [NoRow EXCEPT !.status = "running", !.pid = ApiPid]]
  /\ UNCHANGED <<proc, work, handlerVars, machineVars>>

\* start_ingestion_run(): the row carries the pid the process sees.
StartRun(b) ==
  /\ Goto(b, "starting", "source")
  /\ rows' = [rows EXCEPT ![b] = [NoRow EXCEPT !.status = "running",
                                               !.pid = proc[b].pid]]
  /\ UNCHANGED <<proc, work, handlerVars, machineVars>>

\* Mutant of NextSource: the loop is left without the cancelled mark.
NextSourceForgetsMark(b) ==
  /\ Goto(b, "source", IF work[b].source > NumSources \/ CancellationRequested(b)
                       THEN "cleanup" ELSE "extract")
  /\ UNCHANGED <<rows, proc, work, handlerVars, machineVars>>

\* The head of the loop over _EXTRACTORS, with its cancellation check.
NextSource(b) ==
  /\ pc[b] = "source"
  /\ IF work[b].source > NumSources
     THEN Goto(b, "source", "cleanup") /\ UNCHANGED work
     ELSE IF CancellationRequested(b)
     THEN /\ Goto(b, "source", "cleanup")
          /\ work' = [work EXCEPT ![b].cancelled = TRUE]
     ELSE Goto(b, "source", "extract") /\ UNCHANGED work
  /\ UNCHANGED <<rows, proc, handlerVars, machineVars>>

\* extract(since, on_progress) returns the items that pass the filter.
Extract(b) ==
  /\ Goto(b, "extract", "postcheck")
  /\ \E n \in 0 .. MaxItems : work' = [work EXCEPT ![b].todo = n]
  /\ UNCHANGED <<rows, proc, handlerVars, machineVars>>

\* extract() raises ExtractorError: noted, and on to the next source.
ExtractFails(b) ==
  /\ Goto(b, "extract", "source")
  /\ work' = [work EXCEPT ![b] = [work[b] EXCEPT !.failed = TRUE,
                                                   !.source = work[b].source + 1]]
  /\ UNCHANGED <<rows, proc, handlerVars, machineVars>>

\* The second check. It takes effect only after this source's items.
CheckAfterExtract(b) ==
  /\ Goto(b, "postcheck", "items")
  /\ work' = [work EXCEPT ![b].cancelled = @ \/ CancellationRequested(b)]
  /\ UNCHANGED <<rows, proc, handlerVars, machineVars>>

\* Mutant of ProcessItem: one item too many is taken from the list.
ProcessItemPastTheEnd(b) ==
  /\ Goto(b, "items", "progress")
  /\ work' = [work EXCEPT ![b] = [work[b] EXCEPT !.todo = work[b].todo - 1,
                                                   !.processed = work[b].processed + 1]]
  /\ UNCHANGED <<rows, proc, handlerVars, machineVars>>

\* _process_item() succeeds and the local count goes up ...
ProcessItem(b) ==
  /\ work[b].todo > 0
  /\ Goto(b, "items", "progress")
  /\ work' = [work EXCEPT ![b] = [work[b] EXCEPT !.todo = work[b].todo - 1,
                                                   !.processed = work[b].processed + 1]]
  /\ UNCHANGED <<rows, proc, handlerVars, machineVars>>

\* ... or raises, which is noted ...
ProcessItemFails(b) ==
  /\ pc[b] = "items"
  /\ work[b].todo > 0
  /\ work' = [work EXCEPT ![b] = [work[b] EXCEPT !.todo = work[b].todo - 1,
                                                   !.failed = TRUE]]
  /\ UNCHANGED <<rows, pc, proc, handlerVars, machineVars>>

\* Mutant of UpdateProgress: the item that comes next is counted already.
UpdateProgressAhead(b) ==
  /\ Goto(b, "progress", "items")
  /\ rows' = Update(b, [rows[b] EXCEPT !.items = work[b].processed + 1])
  /\ UNCHANGED <<proc, work, handlerVars, machineVars>>

\* ... and the row's count follows, unless that write fails: only logged.
UpdateProgress(b) ==
  /\ Goto(b, "progress", "items")
  /\ \/ rows' = Update(b, [rows[b] EXCEPT !.items = work[b].processed])
     \/ UNCHANGED rows
  /\ UNCHANGED <<proc, work, handlerVars, machineVars>>

\* The source is done; a cancelled batch takes no further one.
EndSource(b) ==
  /\ work[b].todo = 0
  /\ Goto(b, "items", IF work[b].cancelled THEN "cleanup" ELSE "source")
  /\ work' = [work EXCEPT ![b].source = @ + 1]
  /\ UNCHANGED <<rows, proc, handlerVars, machineVars>>

\* The loops over updated_item_ids and processed_item_ids: their failures
\* are noted, and without processed items they do nothing.
AfterSources(b, from, to) ==
  /\ Goto(b, from, to)
  /\ \E fails \in IF work[b].processed > 0 THEN BOOLEAN ELSE {FALSE} :
       work' = [work EXCEPT ![b].failed = @ \/ fails]
  /\ UNCHANGED <<rows, proc, handlerVars, machineVars>>

ClearRelationships(b) == AfterSources(b, "cleanup", "relate")
DetectRelationships(b) == AfterSources(b, "relate", "finish")

FinalStatus(b) ==
  CASE work[b].cancelled -> "cancelled"
    [] ~work[b].cancelled /\ ~work[b].failed -> "success"
    [] ~work[b].cancelled /\ work[b].failed /\ work[b].processed > 0 -> "partial_failure"
    [] OTHER -> "failed"

\* Mutant of Finish: the count is the one last reported.
FinishWithReportedCount(b) ==
  /\ Goto(b, "finish", "closing")
  /\ rows' = Complete(b, FinalStatus(b), rows[b].items,
                      IF FinalStatus(b) = "success" THEN "null" ELSE "errors")
  /\ UNCHANGED <<proc, work, handlerVars, machineVars>>

\* The status is computed and written without a look at the row.
Finish(b) ==
  /\ Goto(b, "finish", "closing")
  /\ rows' = Complete(b, FinalStatus(b), work[b].processed,
                      IF FinalStatus(b) = "success" THEN "null" ELSE "errors")
  /\ UNCHANGED <<proc, work, handlerVars, machineVars>>

Exit(b) ==
  /\ Goto(b, "closing", "gone")
  /\ UNCHANGED <<rows, proc, work, handlerVars, machineVars>>

\* Any exception that no try of _run() covers (a locked database, a crash
\* inside an extractor or in generate_metadata()), or a power cut: the row
\* stays as it is.
Crash(b) ==
  /\ Alive(b)
  /\ pc' = [pc EXCEPT ![b] = "gone"]
  /\ UNCHANGED <<rows, proc, work, handlerVars, machineVars>>

-----------------------------------------------------------------------------
(* cancel_ingestion(), one step per call it makes.                         *)

HandlerGoto(h, from, to) ==
  /\ hpc[h] = from
  /\ hpc' = [hpc EXCEPT ![h] = to]

\* The route is called with the id of a run that was seen at some time.
BeginCancel(h, b) ==
  /\ ~signalled
  /\ pc[b] \notin {"unborn", "starting"}
  /\ hpc[h] \in Ended
  /\ HandlerGoto(h, hpc[h], "flag")
  /\ hcall' = [hcall EXCEPT ![h].run = b]
  /\ UNCHANGED <<rows, batchVars, machineVars>>

\* A statement fails (a locked or broken database): the request answers with an
\* error, and what it has not done yet is not done.
CallFails(h) ==
  /\ hpc[h] \in {"flag", "read", "recheck", "write"}
  /\ HandlerGoto(h, hpc[h], "failed")
  /\ UNCHANGED <<rows, hcall, batchVars, machineVars>>

\* request_ingestion_cancellation(): the rollback of another thread may come
\* before its commit.
SetFlag(h) ==
  LET b == hcall[h].run IN
    /\ HandlerGoto(h, "flag", "read")
    /\ rows' \in {rows, Update(b, [rows[b] EXCEPT !.cancelRequested = TRUE])}
    /\ UNCHANGED <<hcall, batchVars, machineVars>>

\* get_ingestion_run(); the pid of a row written by StartRun is never null.
ReadRun(h) ==
  LET b == hcall[h].run IN
    /\ HandlerGoto(h, "read", IF Running(b) THEN "kill" ELSE "idle")
    /\ hcall' = [hcall EXCEPT ![h].pid = rows[b].pid]
    /\ UNCHANGED <<rows, batchVars, machineVars>>

\* os.kill(run.pid, SIGTERM) reaches whoever holds that pid in the API's own
\* namespace: a batch, ...
KillBatch(h) ==
  /\ HandlerGoto(h, "kill", "recheck")
  /\ \E b \in Batches :
       /\ Alive(b) /\ InApiNamespace(b) /\ proc[b].pid = hcall[h].pid
       /\ pc' = [pc EXCEPT ![b] = "gone"]
  /\ UNCHANGED <<rows, proc, work, hcall, machineVars>>

\* ... the API itself, which then finishes its requests and stops, ...
KillApi(h) ==
  /\ hcall[h].pid = ApiPid
  /\ HandlerGoto(h, "kill", "recheck")
  /\ signalled' = TRUE
  /\ UNCHANGED <<rows, batchVars, hcall, foreign, restarts>>

\* ... a process that took over the pid and may be signalled, ...
KillForeign(h) ==
  /\ hcall[h].pid \in foreign
  /\ "same_user" \in ForeignOwners
  /\ HandlerGoto(h, "kill", "recheck")
  /\ foreign' = foreign \ {hcall[h].pid}
  /\ UNCHANGED <<rows, batchVars, hcall, signalled, restarts>>

\* ... one that may not (an OSError: give up), ...
KillRefused(h) ==
  /\ hcall[h].pid \in foreign
  /\ "other_user" \in ForeignOwners
  /\ HandlerGoto(h, "kill", "refused")
  /\ UNCHANGED <<rows, batchVars, hcall, machineVars>>

\* Mutant of KillMissing: for ProcessLookupError too the request just returns.
KillMissingGivesUp(h) ==
  /\ hcall[h].pid \notin UsedPids
  /\ HandlerGoto(h, "kill", "idle")
  /\ UNCHANGED <<rows, batchVars, hcall, machineVars>>

\* ... or nobody (ProcessLookupError: taken as already exited).
KillMissing(h) ==
  /\ hcall[h].pid \notin UsedPids
  /\ HandlerGoto(h, "kill", "recheck")
  /\ UNCHANGED <<rows, batchVars, hcall, machineVars>>

\* Mutant of Recheck: "cancelled" is written whatever the row says by now.
RecheckIgnoresStatus(h) ==
  /\ HandlerGoto(h, "recheck", "write")
  /\ hcall' = [hcall EXCEPT ![h].items = rows[hcall[h].run].items]
  /\ UNCHANGED <<rows, batchVars, machineVars>>

\* The second get_ingestion_run(): its items_processed is written back.
Recheck(h) ==
  LET b == hcall[h].run IN
    /\ HandlerGoto(h, "recheck", IF Running(b) THEN "write" ELSE "idle")
    /\ hcall' = [hcall EXCEPT ![h].items = rows[b].items]
    /\ UNCHANGED <<rows, batchVars, machineVars>>

\* complete_ingestion_run(), whose write may be taken back like that of SetFlag.
WriteCancelled(h) ==
  /\ \/ /\ HandlerGoto(h, "write", "idle")
        /\ rows' = Complete(hcall[h].run, "cancelled", hcall[h].items, "forced")
     \/ /\ HandlerGoto(h, "write", "undone")
        /\ UNCHANGED rows
  /\ UNCHANGED <<hcall, batchVars, machineVars>>

\* sqlite_store.py::reset_all(), the first step of POST /api/admin/reset.
ResetRuns ==
  /\ ~signalled
  /\ \E b \in Batches : Exists(b)
  /\ rows' = [b \in Batches |-> NoRow]
  /\ UNCHANGED <<batchVars, handlerVars, machineVars>>

-----------------------------------------------------------------------------
(* The machine.                                                            *)

ForeignStart(p) ==
  /\ ForeignOwners # {}
  /\ p \notin UsedPids
  /\ foreign' = foreign \cup {p}
  /\ UNCHANGED <<rows, batchVars, handlerVars, signalled, restarts>>

ForeignExit(p) ==
  /\ p \in foreign
  /\ foreign' = foreign \ {p}
  /\ UNCHANGED <<rows, batchVars, handlerVars, signalled, restarts>>

\* The API stops and is started again: after a signal once its requests are
\* served, in a crash at any time, and then they are lost. A container takes
\* every process in it along.
ApiRestart ==
  /\ \/ /\ signalled
        /\ \A h \in Handlers : hpc[h] \in Ended
        /\ UNCHANGED restarts
     \/ /\ restarts < MaxApiRestarts
        /\ restarts' = restarts + 1
  /\ signalled' = FALSE
  /\ hpc' = [h \in Handlers |-> IF hpc[h] \in Ended THEN hpc[h] ELSE "failed"]
  /\ IF Deployment = "docker"
     THEN /\ pc' = [b \in Batches |-> IF Alive(b) /\ InApiNamespace(b)
                                      THEN "gone" ELSE pc[b]]
          /\ foreign' = {}
     ELSE UNCHANGED <<pc, foreign>>
  /\ UNCHANGED <<rows, proc, work, hcall>>

-----------------------------------------------------------------------------
Launch(b) == Spawn(b) \/ RunInScheduler(b)

Advance(b) ==
  \/ StartRun(b)
  \/ NextSource(b)
  \/ Extract(b) \/ ExtractFails(b)
  \/ CheckAfterExtract(b)
  \/ ProcessItem(b) \/ ProcessItemFails(b) \/ UpdateProgress(b)
  \/ EndSource(b)
  \/ ClearRelationships(b)
  \/ DetectRelationships(b)
  \/ Finish(b)
  \/ Exit(b)

Kill(h) ==
  KillBatch(h) \/ KillApi(h) \/ KillForeign(h) \/ KillRefused(h) \/ KillMissing(h)

Cancel(h) ==
  SetFlag(h) \/ ReadRun(h) \/ Kill(h) \/ Recheck(h) \/ WriteCancelled(h) \/ CallFails(h)

Next ==
  \/ \E b \in Batches : Launch(b) \/ Advance(b) \/ Crash(b)
  \/ \E h \in Handlers : Cancel(h) \/ \E b \in Batches : BeginCancel(h, b)
  \/ ResetRuns
  \/ \E p \in Pids : ForeignStart(p) \/ ForeignExit(p)
  \/ ApiRestart

Spec == Init /\ [][Next]_vars

\* A request that was accepted is carried through by its thread. Nothing is
\* assumed of the batches: they may crash, hang or starve.
FairSpec == Spec /\ \A h \in Handlers : WF_vars(Cancel(h))

-----------------------------------------------------------------------------
(* What the code promises. The promises that os.kill() keeps are about the  *)
(* runs whose process it can name; MCIngestionRunsDocker shows what becomes *)
(* of the others.                                                           *)

ForceStopped(b) == rows[b].status = "cancelled" /\ rows[b].log = "forced"

\* A run that cancel_ingestion() declared force-stopped has no live process:
\* the row is written "only once the kill is actually confirmed".
ForceStoppedIsDead ==
  \A b \in Batches : InApiNamespace(b) /\ ForceStopped(b) => ~Alive(b)

\* A run is recorded as a success, and so moves the watermark, only if every
\* source was extracted, every item stored and every relationship pass done,
\* and no cancellation was seen on the way.
SuccessIsEarned ==
  \A b \in Batches : rows[b].status = "success" =>
    /\ work[b].source > NumSources
    /\ ~work[b].failed
    /\ ~work[b].cancelled
    /\ rows[b].items = work[b].processed

\* The count on the row, which a forced stop carries over from its own
\* earlier read, never exceeds what the batch has stored.
CountIsCommitted ==
  \A b \in Batches : rows[b].items <= work[b].processed

\* The outcome of a finished run is frozen: neither a cancel request that
\* read "running" before, nor a second one, nor the batch itself rewrites
\* its status, count or error log. Only a reset removes the row.
FinishedIsFrozen ==
  [][\A b \in Batches :
       InApiNamespace(b) /\ rows[b].status \in Terminal =>
         \/ rows'[b].status = "absent"
         \/ /\ rows'[b].status = rows[b].status
            /\ rows'[b].items = rows[b].items
            /\ rows'[b].log = rows[b].log]_vars

\* A cancel request leaves its run no longer running, also when the batch had
\* died without a word, another process has taken its pid since, or the API was
\* what the signal reached. It leaves it running only in the ways the docstring
\* of cancel_ingestion() tells of, an error or a refused signal, or when another
\* thread's rollback takes its last write back.
CancelFinalises ==
  \A h \in Handlers, b \in Batches :
    (hpc[h] = "flag" /\ hcall[h].run = b)
      ~> ~Running(b) \/ hpc[h] \in {"failed", "refused", "undone"}

-----------------------------------------------------------------------------
(* The table as its readers see it.                                         *)

\* The process of a batch, as far as it matters to them.
Phase(b) ==
  CASE pc[b] = "unborn" -> "unborn"
    [] pc[b] = "starting" -> "launched"
    [] pc[b] = "closing" -> "done"
    [] pc[b] = "gone" -> "gone"
    [] OTHER -> "working"

\* The runs whose process the API can name, and their rows without the flag
\* and the pid.
Unseen == [phase |-> "unborn", stored |-> 0, status |-> "absent", items |-> 0,
           log |-> "null"]
Seen(b) ==
  IF InApiNamespace(b)
  THEN [phase |-> Phase(b), stored |-> work[b].processed, status |-> rows[b].status,
        items |-> rows[b].items, log |-> rows[b].log]
  ELSE Unseen

TableView == [b \in Batches |-> Seen(b)]

Ledger == INSTANCE RunLedger WITH Runs <- Batches, run <- TableView

\* However requests, signals, crashes, reused pids, resets and restarts fall
\* between each other, each step on the table is one that RunLedger allows:
\* announced once, counted exactly, settled once, and force-stopped only when
\* nobody works on the run.
ImplementsRunLedger == Ledger!Spec

-----------------------------------------------------------------------------
(* What the documents promise of every run, without the restriction above.  *)

\* cancel_ingestion()'s docstring: the kill works "regardless of ... whether
\* the batch was started by trigger_ingestion() vs. the scheduled cron/Task
\* Scheduler invocation", and "cancelled" is written only once it is confirmed.
EveryForceStoppedIsDead == \A b \in Batches : ForceStopped(b) => ~Alive(b)

=============================================================================
