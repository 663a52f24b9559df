-------------------------- MODULE RunLedgerProofs --------------------------
(* IngestionRuns implements RunLedger, for every number of batches,         *)
(* handlers, pids and sources, in both deployments.                         *)
EXTENDS IngestionRunsProofs

\* A batch that has not been launched is nowhere else, and has stored nothing.
UnbornIsBlank ==
  \A b \in Batches : pc[b] \in {"unborn", "starting"} =>
    /\ rows[b] = NoRow
    /\ work[b].processed = 0
    /\ pc[b] = "unborn" => InApiNamespace(b)

\* A row that is gone counts nothing.
AbsentIsBlank ==
  \A b \in Batches : /\ rows[b].status = "absent" => rows[b] = NoRow
                     /\ rows[b].status = "running" => rows[b].log = "null"

LInv == IInv /\ UnbornIsBlank /\ AbsentIsBlank
-----------------------------------------------------------------------------
(* The strengthened invariant.                                              *)

\* A batch leaves no trace before StartRun.
LEMMA UnbornIsBlankStep ==
  ASSUME LInv, [Next]_vars PROVE UnbornIsBlank'
<1> SUFFICES ASSUME NEW b \in Batches, pc'[b] \in {"unborn", "starting"}
             PROVE  /\ rows'[b] = NoRow
                    /\ work'[b].processed = 0
                    /\ pc'[b] = "unborn" => InApiNamespace(b)'
  BY DEF UnbornIsBlank
<1>a. TypeOK /\ RowsKnown
  BY DEF LInv, IInv
<1>b. ~Started(b) /\ pc[b] \in {"unborn", "starting"}
  BY <1>a, BatchMonotone DEF Started
<1>c. rows[b] = NoRow /\ work[b].processed = 0 /\ ~Exists(b)
  BY <1>a, <1>b DEF LInv, UnbornIsBlank, RowsKnown
<1>1. rows'[b] = NoRow
  <2>1. ~RowStarted(b)
    BY DEF RowStarted
  <2> QED
    BY <2>1, <1>a, <1>b, <1>c, RowSteps
       DEF RowKept, RowFlagged, RowCounted, RowFinished, RowForced, RowReset
<1>2. work'[b] = work[b] /\ (pc'[b] = "unborn" => proc'[b] = proc[b])
  <2>1. CASE Launch(b)
    BY <2>1, <1>a DEF TypeOK, Launch, Spawn, RunInScheduler, Goto
  <2>2. ~Advance(b)
    BY <1>b, <1>a DEF TypeOK, Advance, StartRun, NextSource, Extract, ExtractFails,
       CheckAfterExtract, ProcessItem, ProcessItemFails, UpdateProgress, EndSource,
       ClearRelationships, DetectRelationships, AfterSources, Finish, Exit, Goto
  <2> QED
    BY <2>1, <2>2, <1>a, BatchSteps
<1>3. pc'[b] = "unborn" => pc[b] = "unborn"
  <2>1. ~Launch(b) \/ pc'[b] = "starting"
    BY <1>a DEF TypeOK, Launch, Spawn, RunInScheduler, Goto
  <2>2. ~Advance(b)
    BY <1>b, <1>a DEF TypeOK, Advance, StartRun, NextSource, Extract, ExtractFails,
       CheckAfterExtract, ProcessItem, ProcessItemFails, UpdateProgress, EndSource,
       ClearRelationships, DetectRelationships, AfterSources, Finish, Exit, Goto
  <2> QED
    BY <2>1, <2>2, <1>a, BatchSteps
<1> QED
  BY <1>1, <1>2, <1>3, <1>b, <1>c DEF LInv, UnbornIsBlank, InApiNamespace

\* A row that is not there has no fields, one that is running no error log.
LEMMA AbsentIsBlankStep ==
  ASSUME LInv, [Next]_vars PROVE AbsentIsBlank'
<1> SUFFICES ASSUME NEW b \in Batches
             PROVE  /\ rows'[b].status = "absent" => rows'[b] = NoRow
                    /\ rows'[b].status = "running" => rows'[b].log = "null"
  BY DEF AbsentIsBlank
<1>a. TypeOK /\ rows[b] \in Row
  BY DEF LInv, IInv, TypeOK
<1>1. CASE RowKept(b)
  BY <1>1 DEF RowKept, LInv, AbsentIsBlank
<1>2. CASE RowStarted(b)
  <2>1. rows'[b].log = "null"
    BY <1>2 DEF RowStarted, NoRow
  <2> QED
    BY <2>1, <1>2, NewRowStatus
<1>3. CASE RowFlagged(b)
  <2>1. rows'[b].status = rows[b].status /\ rows'[b].log = rows[b].log
    BY <1>3, <1>a DEF RowFlagged, Row
  <2> QED
    BY <2>1, <1>3 DEF RowFlagged, Exists, LInv, AbsentIsBlank
<1>4. CASE RowCounted(b)
  <2>1. rows'[b].status = rows[b].status /\ rows'[b].log = rows[b].log
    BY <1>4, <1>a DEF RowCounted, Row
  <2> QED
    BY <2>1, <1>4 DEF RowCounted, Exists, LInv, AbsentIsBlank
<1>5. CASE RowFinished(b)
  <2>1. rows'[b].status = FinalStatus(b)
    BY <1>5, <1>a DEF RowFinished, Row
  <2> QED
    BY <2>1, FinalStatusTyped DEF Terminal
<1>6. CASE RowForced(b)
  <2>1. rows'[b].status = "cancelled"
    BY <1>6, <1>a DEF RowForced, Row
  <2> QED
    BY <2>1
<1>7. CASE RowReset(b)
  <2>1. rows'[b].status = "absent"
    BY <1>7, NewRowStatus
  <2> QED
    BY <2>1, <1>7 DEF RowReset
<1> QED
  BY <1>1, <1>2, <1>3, <1>4, <1>5, <1>6, <1>7, <1>a, RowSteps

\* The strengthened invariant holds at first ...
LEMMA LInitInv == Init => LInv
<1> SUFFICES ASSUME Init PROVE LInv
  OBVIOUS
<1>1. IInv
  BY InitInv
<1>2. NoRow.status = "absent"
  BY DEF NoRow
<1>3. \A b \in Batches : rows[b] = NoRow /\ work[b].processed = 0 /\ InApiNamespace(b)
  BY DEF Init, InApiNamespace
<1> QED
  BY <1>1, <1>2, <1>3 DEF LInv, UnbornIsBlank, AbsentIsBlank

\* ... and after every step.
LEMMA LNextInv == LInv /\ [Next]_vars => LInv'
BY NextInv, UnbornIsBlankStep, AbsentIsBlankStep DEF LInv

-----------------------------------------------------------------------------
(* What the readers see of one step.                                        *)

\* A batch whose place, process, work and row stay looks the same.
LEMMA SeenKept ==
  ASSUME NEW b \in Batches, Phase(b)' = Phase(b), proc'[b] = proc[b],
         work'[b].processed = work[b].processed,
         rows'[b].status = rows[b].status, rows'[b].items = rows[b].items,
         rows'[b].log = rows[b].log
  PROVE  Seen(b)' = Seen(b)
BY DEF Seen, InApiNamespace, Unseen

\* Nothing is seen of the scheduler's batch.
LEMMA SchedulerUnseen ==
  ASSUME NEW b \in Batches, ~InApiNamespace(b), proc'[b] = proc[b]
  PROVE  Seen(b) = Unseen /\ Seen(b)' = Unseen
BY DEF Seen, InApiNamespace, Unseen

\* The phase is that of the place in _run().
LEMMA PhaseOf ==
  ASSUME NEW b \in Batches
  PROVE  /\ pc[b] = "unborn" <=> Phase(b) = "unborn"
         /\ pc[b] = "starting" <=> Phase(b) = "launched"
         /\ pc[b] = "closing" <=> Phase(b) = "done"
         /\ pc[b] = "gone" <=> Phase(b) = "gone"
         /\ Started(b) /\ pc[b] \notin {"closing", "gone"} <=> Phase(b) = "working"
BY DEF Phase, Started

\* The same of the next state.
LEMMA NextPhaseOf ==
  ASSUME NEW b \in Batches
  PROVE  /\ pc'[b] = "unborn" <=> Phase(b)' = "unborn"
         /\ pc'[b] = "starting" <=> Phase(b)' = "launched"
         /\ pc'[b] = "closing" <=> Phase(b)' = "done"
         /\ pc'[b] = "gone" <=> Phase(b)' = "gone"
         /\ pc'[b] \notin {"unborn", "starting", "closing", "gone"} <=> Phase(b)' = "working"
BY DEF Phase

\* Where all batches look the same, the table does.
LEMMA ViewKept ==
  ASSUME \A c \in Batches : Seen(c)' = Seen(c)
  PROVE  TableView' = TableView
BY DEF TableView

\* Where one batch looks different, the table differs in its entry.
LEMMA ViewOfOne ==
  ASSUME NEW b \in Batches, NEW v, Seen(b)' = v,
         \A c \in Batches \ {b} : Seen(c)' = Seen(c)
  PROVE  /\ TableView[b] = Seen(b)
         /\ TableView' = [TableView EXCEPT ![b] = v]
BY DEF TableView

\* The entry of a batch whose process the API can name.
LEMMA SeenFields ==
  ASSUME NEW b \in Batches, InApiNamespace(b)
  PROVE  Seen(b) = [phase |-> Phase(b), stored |-> work[b].processed,
                    status |-> rows[b].status, items |-> rows[b].items,
                    log |-> rows[b].log]
BY DEF Seen

\* ... and in the next state.
LEMMA NextSeenFields ==
  ASSUME NEW b \in Batches, InApiNamespace(b)'
  PROVE  Seen(b)' = [phase |-> Phase(b)', stored |-> work'[b].processed,
                     status |-> rows'[b].status, items |-> rows'[b].items,
                     log |-> rows'[b].log]
BY DEF Seen

\* An entry with another phase and status.
LEMMA EntryAnnounced ==
  ASSUME NEW e, NEW p1, NEW s1,
         e = [phase |-> e.phase, stored |-> e.stored, status |-> e.status,
              items |-> e.items, log |-> e.log]
  PROVE  [e EXCEPT !.phase = p1, !.status = s1]
           = [phase |-> p1, stored |-> e.stored, status |-> s1, items |-> e.items, log |-> e.log]
<1> DEFINE f == [e EXCEPT !.phase = p1, !.status = s1]
<1>1. f.phase = p1 /\ f.stored = e.stored /\ f.status = s1 /\ f.items = e.items /\ f.log = e.log
  OBVIOUS
<1>2. f = [x \in {"phase", "stored", "status", "items", "log"} |-> f[x]]
  OBVIOUS
<1>3. f = [phase |-> p1, stored |-> e.stored, status |-> s1, items |-> e.items, log |-> e.log]
  <2> HIDE DEF f
  <2> QED
    BY <1>1, <1>2
<1> QED
  BY <1>3

-----------------------------------------------------------------------------
(* The steps of the ledger, from what they do to one entry.                 *)

\* A launch.
LEMMA LedgerLaunch ==
  ASSUME NEW b \in Batches, \A c \in Batches \ {b} : Seen(c)' = Seen(c),
         Seen(b).phase = "unborn", Seen(b)' = [Seen(b) EXCEPT !.phase = "launched"]
  PROVE  Ledger!Next
<1>1. Ledger!Launch(b)
  BY ViewOfOne DEF Ledger!Launch
<1> QED
  BY <1>1 DEF Ledger!Next

\* A process ends.
LEMMA LedgerDie ==
  ASSUME NEW D \in SUBSET Batches, \A c \in D : Seen(c).phase # "unborn",
         \A c \in Batches : Seen(c)' = IF c \in D THEN [Seen(c) EXCEPT !.phase = "gone"]
                                       ELSE Seen(c)
  PROVE  Ledger!Next
<1>1. \A c \in Batches : TableView[c] = Seen(c)
  BY DEF TableView
<1>2. TableView' = [c \in Batches |-> IF c \in D THEN [TableView[c] EXCEPT !.phase = "gone"]
                                     ELSE TableView[c]]
  BY <1>1 DEF TableView
<1>3. Ledger!Die(D)
  BY <1>1, <1>2 DEF Ledger!Die
<1> QED
  BY <1>3 DEF Ledger!Next

-----------------------------------------------------------------------------
(* The steps of a batch.                                                    *)

\* A batch that is launched or goes on does not touch another's entry.
LEMMA BatchAlone ==
  ASSUME TypeOK, NEW b \in Batches, Launch(b) \/ Advance(b) \/ Crash(b),
         NEW c \in Batches, c # b
  PROVE  Seen(c)' = Seen(c)
<1>1. pc'[c] = pc[c]
  BY DEF TypeOK, Launch, Spawn, RunInScheduler, Crash, Advance, StartRun, NextSource,
     Extract, ExtractFails, CheckAfterExtract, ProcessItem, ProcessItemFails,
     UpdateProgress, EndSource, ClearRelationships, DetectRelationships, AfterSources,
     Finish, Exit, Goto
<1>2. proc'[c] = proc[c]
  BY DEF TypeOK, Launch, Spawn, RunInScheduler, Crash, Advance, StartRun, NextSource,
     Extract, ExtractFails, CheckAfterExtract, ProcessItem, ProcessItemFails,
     UpdateProgress, EndSource, ClearRelationships, DetectRelationships, AfterSources,
     Finish, Exit
<1>3. work'[c] = work[c]
  BY DEF TypeOK, Launch, Spawn, RunInScheduler, Crash, Advance, StartRun, NextSource,
     Extract, ExtractFails, CheckAfterExtract, ProcessItem, ProcessItemFails,
     UpdateProgress, EndSource, ClearRelationships, DetectRelationships, AfterSources,
     Finish, Exit
<1>4. rows'[c] = rows[c]
  <2>1. ASSUME NEW r, rows' = Update(b, r) PROVE rows'[c] = rows[c]
    BY <2>1 DEF TypeOK, Update
  <2>2. CASE StartRun(b)
    BY <2>2 DEF TypeOK, StartRun
  <2>3. CASE UpdateProgress(b) \/ Finish(b)
    BY <2>1, <2>3 DEF UpdateProgress, Finish, Complete
  <2>4. CASE ~StartRun(b) /\ ~UpdateProgress(b) /\ ~Finish(b)
    BY <2>4 DEF Launch, Spawn, RunInScheduler, Crash, Advance, NextSource, Extract,
       ExtractFails, CheckAfterExtract, ProcessItem, ProcessItemFails, EndSource,
       ClearRelationships, DetectRelationships, AfterSources, Exit
  <2> QED
    BY <2>2, <2>3, <2>4
<1>5. Phase(c)' = Phase(c)
  BY <1>1 DEF Phase
<1> QED
  BY <1>2, <1>3, <1>4, <1>5, SeenKept

\* Spawn and the scheduler's call of a batch.
LEMMA LaunchSeen ==
  ASSUME LInv, NEW b \in Batches, Launch(b)
  PROVE  Ledger!Next \/ TableView' = TableView
<1>a. TypeOK /\ pc[b] = "unborn" /\ rows' = rows /\ work' = work
  BY DEF LInv, IInv, Launch, Spawn, RunInScheduler, Goto
<1>b. InApiNamespace(b) /\ rows[b] = NoRow /\ work[b].processed = 0 /\ Phase(b) = "unborn"
  BY <1>a, PhaseOf DEF LInv, UnbornIsBlank
<1>c. \A c \in Batches \ {b} : Seen(c)' = Seen(c)
  BY <1>a, BatchAlone
<1>1. CASE Spawn(b)
  <2>1. InApiNamespace(b)' /\ pc'[b] = "starting"
    BY <1>1, <1>a DEF TypeOK, Spawn, Goto, InApiNamespace
  <2>2. Phase(b)' = "launched"
    BY <2>1, NextPhaseOf
  <2>3. Seen(b).phase = "unborn" /\ Seen(b)' = [Seen(b) EXCEPT !.phase = "launched"]
    BY <2>1, <2>2, <1>a, <1>b, SeenFields, NextSeenFields
  <2> QED
    BY <2>3, <1>c, LedgerLaunch
<1>2. CASE RunInScheduler(b)
  <2>1. ~InApiNamespace(b)'
    BY <1>2, <1>a DEF TypeOK, RunInScheduler, InApiNamespace
  <2>2. Seen(b)' = Unseen
    BY <2>1 DEF Seen
  <2>3. Seen(b) = Unseen
    BY <1>b, SeenFields DEF Unseen, NoRow
  <2> QED
    BY <2>2, <2>3, <1>c, ViewKept
<1> QED
  BY <1>1, <1>2 DEF Launch

\* The steps of _run() that neither store, nor write the row, nor end.
LEMMA InnerSteps ==
  ASSUME TypeOK, NEW b \in Batches,
         \/ NextSource(b) \/ Extract(b) \/ ExtractFails(b) \/ CheckAfterExtract(b)
         \/ ProcessItemFails(b) \/ EndSource(b) \/ ClearRelationships(b)
         \/ DetectRelationships(b)
  PROVE  Seen(b)' = Seen(b)
<1>1. proc' = proc /\ rows' = rows
  BY DEF NextSource, Extract, ExtractFails, CheckAfterExtract, ProcessItemFails, EndSource,
     ClearRelationships, DetectRelationships, AfterSources
<1>2. work'[b].processed = work[b].processed
  <2>1. CASE NextSource(b) \/ CheckAfterExtract(b) \/ EndSource(b)
    BY <2>1 DEF TypeOK, Work, NextSource, CheckAfterExtract, EndSource
  <2>2. CASE Extract(b)
    BY <2>2 DEF TypeOK, Work, Extract
  <2>3. CASE ExtractFails(b)
    BY <2>3 DEF TypeOK, Work, ExtractFails
  <2>4. CASE ProcessItemFails(b)
    BY <2>4 DEF TypeOK, Work, ProcessItemFails
  <2>5. CASE ClearRelationships(b) \/ DetectRelationships(b)
    <3>1. PICK fails : work' = [work EXCEPT ![b].failed = work[b].failed \/ fails]
      BY <2>5 DEF ClearRelationships, DetectRelationships, AfterSources
    <3> QED
      BY <3>1 DEF TypeOK, Work
  <2> QED
    BY <2>1, <2>2, <2>3, <2>4, <2>5
<1>3. /\ pc[b] \notin {"unborn", "starting", "closing", "gone"}
      /\ pc'[b] \notin {"unborn", "starting", "closing", "gone"}
  BY DEF TypeOK, NextSource, Extract, ExtractFails, CheckAfterExtract, ProcessItemFails,
     EndSource, ClearRelationships, DetectRelationships, AfterSources, Goto
<1>4. Phase(b)' = Phase(b)
  BY <1>3, PhaseOf, NextPhaseOf DEF Started
<1> QED
  BY <1>1, <1>2, <1>4, SeenKept

\* start_ingestion_run() announces the run.
LEMMA StartRunSeen ==
  ASSUME LInv, NEW b \in Batches, InApiNamespace(b), StartRun(b)
  PROVE  Ledger!Next
<1>a. TypeOK /\ pc[b] = "starting" /\ pc'[b] = "source" /\ proc' = proc /\ work' = work
  BY DEF LInv, IInv, TypeOK, StartRun, Goto
<1>b. rows[b] = NoRow /\ Phase(b) = "launched" /\ Phase(b)' = "working"
  BY <1>a, PhaseOf, NextPhaseOf DEF LInv, UnbornIsBlank
<1>c. rows'[b].status = "running" /\ rows'[b].items = NoRow.items /\ rows'[b].log = NoRow.log
  BY <1>a DEF TypeOK, StartRun, NoRow
<1>d. NoRow.status = "absent"
  BY DEF NoRow
<1>0. InApiNamespace(b)'
  BY <1>a DEF InApiNamespace
<1>1. /\ Seen(b).phase = "launched" /\ Seen(b).status = "absent"
      /\ Seen(b)' = [Seen(b) EXCEPT !.phase = "working", !.status = "running"]
  <2>1. Seen(b) = [phase |-> "launched", stored |-> work[b].processed,
                   status |-> "absent", items |-> NoRow.items, log |-> NoRow.log]
    BY <1>b, <1>d, SeenFields
  <2>2. Seen(b)' = [phase |-> "working", stored |-> work[b].processed,
                    status |-> "running", items |-> NoRow.items, log |-> NoRow.log]
    BY <1>a, <1>b, <1>c, <1>0, NextSeenFields
  <2>3. [Seen(b) EXCEPT !.phase = "working", !.status = "running"]
          = [phase |-> "working", stored |-> work[b].processed,
             status |-> "running", items |-> NoRow.items, log |-> NoRow.log]
    <3>1. Seen(b) = [phase |-> Seen(b).phase, stored |-> Seen(b).stored,
                     status |-> Seen(b).status, items |-> Seen(b).items, log |-> Seen(b).log]
      BY <2>1
    <3>2. [Seen(b) EXCEPT !.phase = "working", !.status = "running"]
            = [phase |-> "working", stored |-> Seen(b).stored,
               status |-> "running", items |-> Seen(b).items, log |-> Seen(b).log]
      BY <3>1, EntryAnnounced
    <3>3. /\ Seen(b).stored = work[b].processed
          /\ Seen(b).items = NoRow.items /\ Seen(b).log = NoRow.log
      BY <2>1
    <3> QED
      BY <3>2, <3>3
  <2> QED
    BY <2>1, <2>2, <2>3
<1>2. \A c \in Batches \ {b} : Seen(c)' = Seen(c)
  BY <1>a, BatchAlone DEF Advance
<1>3. Ledger!Announce(b)
  BY <1>1, <1>2, ViewOfOne DEF Ledger!Announce
<1> QED
  BY <1>3 DEF Ledger!Next

\* An item that is processed is stored.
LEMMA ProcessItemSeen ==
  ASSUME LInv, NEW b \in Batches, InApiNamespace(b), ProcessItem(b)
  PROVE  Ledger!Next
<1>a. TypeOK /\ pc[b] = "items" /\ pc'[b] = "progress" /\ proc' = proc /\ rows' = rows
  BY DEF LInv, IInv, TypeOK, ProcessItem, Goto
<1>b. Phase(b) = "working" /\ Phase(b)' = "working"
  BY <1>a, PhaseOf, NextPhaseOf DEF Started
<1>c. work'[b].processed = work[b].processed + 1
  BY <1>a DEF TypeOK, Work, ProcessItem
<1>1. /\ Seen(b).phase = "working"
      /\ Seen(b)' = [Seen(b) EXCEPT !.stored = Seen(b).stored + 1]
  BY <1>a, <1>b, <1>c, SeenFields, NextSeenFields DEF InApiNamespace
<1>2. \A c \in Batches \ {b} : Seen(c)' = Seen(c)
  BY <1>a, BatchAlone DEF Advance
<1>3. Ledger!Store(b)
  BY <1>1, <1>2, ViewOfOne DEF Ledger!Store
<1> QED
  BY <1>3 DEF Ledger!Next

\* While a batch works, its row is running or has been reset.
LEMMA WorkingRow ==
  ASSUME LInv, NEW b \in Batches, InApiNamespace(b), pc[b] \notin {"closing", "gone"}
  PROVE  rows[b].status \in {"running", "absent"}
BY DEF LInv, IInv, TypeOK, Row, FinishedIsOver

\* A progress write makes the count exact, or changes nothing.
LEMMA UpdateProgressSeen ==
  ASSUME LInv, NEW b \in Batches, InApiNamespace(b), UpdateProgress(b)
  PROVE  Ledger!Next \/ TableView' = TableView
<1>a. /\ TypeOK /\ rows[b] \in Row
      /\ pc[b] = "progress" /\ pc'[b] = "items" /\ proc' = proc /\ work' = work
  BY DEF LInv, IInv, TypeOK, UpdateProgress, Goto
<1>b. Phase(b) = "working" /\ Phase(b)' = "working"
  BY <1>a, PhaseOf, NextPhaseOf DEF Started
<1>c. \A c \in Batches \ {b} : Seen(c)' = Seen(c)
  BY <1>a, BatchAlone DEF Advance
<1>1. CASE rows' = rows
  BY <1>1, <1>a, <1>b, <1>c, SeenKept, ViewKept
<1>2. CASE rows' # rows
  <2>1. Exists(b) /\ rows'[b] = [rows[b] EXCEPT !.items = work[b].processed]
    BY <1>2, <1>a DEF UpdateProgress, Update, TypeOK
  <2>2. /\ rows'[b].status = rows[b].status /\ rows'[b].log = rows[b].log
        /\ rows'[b].items = work[b].processed
    BY <2>1, <1>a DEF Row
  <2>3. rows[b].status = "running"
    BY <2>1, <1>a, WorkingRow DEF Exists
  <2>4. /\ Seen(b).phase = "working" /\ Seen(b).status = "running"
        /\ Seen(b)' = [Seen(b) EXCEPT !.items = Seen(b).stored]
    BY <2>2, <2>3, <1>a, <1>b, SeenFields, NextSeenFields DEF InApiNamespace
  <2>5. Ledger!Report(b)
    BY <2>4, <1>c, ViewOfOne DEF Ledger!Report
  <2> QED
    BY <2>5 DEF Ledger!Next
<1> QED
  BY <1>1, <1>2

\* complete_ingestion_run() by the batch settles the run.
LEMMA FinishSeen ==
  ASSUME LInv, NEW b \in Batches, InApiNamespace(b), Finish(b)
  PROVE  Ledger!Next
<1> DEFINE s == FinalStatus(b)
           l == IF s = "success" THEN "null" ELSE "errors"
<1>a. /\ TypeOK /\ rows[b] \in Row
      /\ pc[b] = "finish" /\ pc'[b] = "closing" /\ proc' = proc /\ work' = work
  BY DEF LInv, IInv, TypeOK, Finish, Goto
<1>b. Phase(b) = "working" /\ Phase(b)' = "done"
  BY <1>a, PhaseOf, NextPhaseOf DEF Started
<1>c. \A c \in Batches \ {b} : Seen(c)' = Seen(c)
  BY <1>a, BatchAlone DEF Advance
<1>d. rows' = Update(b, [rows[b] EXCEPT !.status = s, !.items = work[b].processed, !.log = l])
  BY DEF Finish, Complete
<1>e. s \in Ledger!Outcomes
  BY FinalStatusTyped DEF Terminal, Ledger!Outcomes
<1> HIDE DEF s
<1>1. CASE ~Exists(b)
  <2>1. rows' = rows /\ rows[b].status = "absent"
    BY <1>1, <1>d DEF Update, Exists
  <2>2. /\ Seen(b).phase = "working" /\ Seen(b).status = "absent"
        /\ Seen(b)' = [Seen(b) EXCEPT !.phase = "done"]
    BY <2>1, <1>a, <1>b, SeenFields, NextSeenFields DEF InApiNamespace
  <2>3. /\ TableView[b] = Seen(b)
        /\ TableView' = [TableView EXCEPT ![b] = [Seen(b) EXCEPT !.phase = "done"]]
    BY <2>2, <1>c, ViewOfOne
  <2>4. Ledger!Settle(b)
    BY <2>2, <2>3 DEF Ledger!Settle
  <2> QED
    BY <2>4 DEF Ledger!Next
<1>2. CASE Exists(b)
  <2>1. rows'[b] = [rows[b] EXCEPT !.status = s, !.items = work[b].processed, !.log = l]
    BY <1>2, <1>a, <1>d DEF Update, TypeOK
  <2>2. /\ rows'[b].status = s /\ rows'[b].log = l
        /\ rows'[b].items = work[b].processed
    BY <2>1, <1>a DEF Row
  <2>3. rows[b].status = "running"
    BY <1>2, <1>a, WorkingRow DEF Exists
  <2>4. /\ Seen(b).phase = "working" /\ Seen(b).status = "running"
        /\ Seen(b)' = [Seen(b) EXCEPT !.phase = "done", !.status = s,
                                      !.items = Seen(b).stored, !.log = l]
    <3>1. Seen(b) = [phase |-> "working", stored |-> work[b].processed,
                     status |-> "running", items |-> rows[b].items, log |-> rows[b].log]
      BY <2>3, <1>b, SeenFields
    <3>2. Seen(b)' = [phase |-> "done", stored |-> work[b].processed,
                      status |-> s, items |-> work[b].processed, log |-> l]
      BY <2>2, <1>a, <1>b, NextSeenFields DEF InApiNamespace
    <3>3. Seen(b).stored = work[b].processed
      BY <3>1
    <3>4. [Seen(b) EXCEPT !.phase = "done", !.status = s, !.items = Seen(b).stored,
                          !.log = l]
            = [phase |-> "done", stored |-> work[b].processed,
               status |-> s, items |-> work[b].processed, log |-> l]
      <4> HIDE DEF l
      <4> DEFINE f == [Seen(b) EXCEPT !.phase = "done", !.status = s,
                                      !.items = Seen(b).stored, !.log = l]
      <4>1. /\ f.phase = "done" /\ f.stored = work[b].processed /\ f.status = s
            /\ f.items = work[b].processed /\ f.log = l
        BY <3>1
      <4>2. f = [x \in {"phase", "stored", "status", "items", "log"} |-> f[x]]
        BY <3>1
      <4>3. f = [phase |-> "done", stored |-> work[b].processed,
                 status |-> s, items |-> work[b].processed, log |-> l]
        <5> HIDE DEF f
        <5> QED
          BY <4>1, <4>2
      <4> QED
        BY <4>3
    <3> QED
      BY <3>1, <3>2, <3>4
  <2>5. /\ TableView[b] = Seen(b)
        /\ TableView' = [TableView EXCEPT ![b] =
                            [Seen(b) EXCEPT !.phase = "done", !.status = s,
                                            !.items = Seen(b).stored, !.log = l]]
    BY <2>4, <1>c, ViewOfOne
  <2>6. Ledger!Settle(b)
    BY <2>4, <2>5, <1>e DEF Ledger!Settle
  <2> QED
    BY <2>6 DEF Ledger!Next
<1> QED
  BY <1>1, <1>2

\* The process of a batch ends, by itself, in a crash or by a signal.
LEMMA EndSeen ==
  ASSUME TypeOK, NEW b \in Batches, Alive(b), InApiNamespace(b),
         pc' = [pc EXCEPT ![b] = "gone"], proc' = proc, work' = work, rows' = rows
  PROVE  Ledger!Next
<1>1. Phase(b) # "unborn" /\ Phase(b)' = "gone"
  BY PhaseOf, NextPhaseOf DEF TypeOK, Alive
<1>2. Seen(b).phase # "unborn" /\ Seen(b)' = [Seen(b) EXCEPT !.phase = "gone"]
  BY <1>1, SeenFields, NextSeenFields DEF InApiNamespace
<1>3. ASSUME NEW c \in Batches, c # b PROVE Seen(c)' = Seen(c)
  <2>1. pc'[c] = pc[c]
    BY <1>3 DEF TypeOK
  <2> QED
    BY <2>1, SeenKept DEF Phase
<1>4. {b} \in SUBSET Batches
  OBVIOUS
<1>5. \A c \in Batches : Seen(c)' = IF c \in {b} THEN [Seen(c) EXCEPT !.phase = "gone"]
                                    ELSE Seen(c)
  BY <1>2, <1>3
<1> QED
  BY <1>2, <1>4, <1>5, LedgerDie

\* A step of a batch is one of the ledger, or is not seen.
LEMMA BatchSeen ==
  ASSUME LInv, NEW b \in Batches, Advance(b) \/ Crash(b)
  PROVE  Ledger!Next \/ TableView' = TableView
<1>a. TypeOK
  BY DEF LInv, IInv
<1>b. \A c \in Batches \ {b} : Seen(c)' = Seen(c)
  BY <1>a, BatchAlone
<1>1. CASE ~InApiNamespace(b)
  <2>1. proc'[b] = proc[b]
    BY DEF Crash, Advance, StartRun, NextSource, Extract, ExtractFails, CheckAfterExtract,
       ProcessItem, ProcessItemFails, UpdateProgress, EndSource, ClearRelationships,
       DetectRelationships, AfterSources, Finish, Exit
  <2>2. Seen(b)' = Seen(b)
    BY <1>1, <2>1, SchedulerUnseen
  <2> QED
    BY <1>b, <2>2, ViewKept
<1>2. CASE InApiNamespace(b)
  <2>1. CASE \/ NextSource(b) \/ Extract(b) \/ ExtractFails(b) \/ CheckAfterExtract(b)
             \/ ProcessItemFails(b) \/ EndSource(b) \/ ClearRelationships(b)
             \/ DetectRelationships(b)
    <3>1. Seen(b)' = Seen(b)
      BY <2>1, <1>a, InnerSteps
    <3> QED
      BY <3>1, <1>b, ViewKept
  <2>2. CASE Exit(b) \/ Crash(b)
    <3>1. /\ Alive(b) /\ pc' = [pc EXCEPT ![b] = "gone"]
          /\ proc' = proc /\ work' = work /\ rows' = rows
      BY <2>2 DEF Exit, Goto, Crash, Alive
    <3> QED
      BY <3>1, <1>2, <1>a, EndSeen
  <2> QED
    BY <2>1, <2>2, <1>2, StartRunSeen, ProcessItemSeen, UpdateProgressSeen, FinishSeen
       DEF Advance
<1> QED
  BY <1>1, <1>2

-----------------------------------------------------------------------------
(* The steps of a stop request, of a reset and of the machine.              *)

\* Where nothing but flags, handlers and other programs change, nothing is seen.
LEMMA NothingSeen ==
  ASSUME UNCHANGED batchVars,
         \A b \in Batches : /\ rows'[b].status = rows[b].status
                            /\ rows'[b].items = rows[b].items /\ rows'[b].log = rows[b].log
  PROVE  TableView' = TableView
<1>1. ASSUME NEW b \in Batches PROVE Seen(b)' = Seen(b)
  <2>1. Phase(b)' = Phase(b)
    BY DEF batchVars, Phase
  <2> QED
    BY <2>1, SeenKept DEF batchVars
<1> QED
  BY <1>1, ViewKept

\* The final write of a stop request, unless taken back, is a forced stop or repeats
\* one.
LEMMA WriteCancelledSeen ==
  ASSUME LInv, NEW h \in Handlers, WriteCancelled(h), ~UNCHANGED rows
  PROVE  Ledger!Next \/ TableView' = TableView
<1>0. PICK b \in Batches : hcall[h].run = b
  BY DEF LInv, IInv, TypeOK
<1>a. /\ TypeOK /\ rows[b] \in Row
      /\ hpc[h] = "write" /\ UNCHANGED batchVars
  BY DEF LInv, IInv, TypeOK, WriteCancelled, HandlerGoto
<1>b. rows' = Update(b, [rows[b] EXCEPT !.status = "cancelled", !.items = hcall[h].items,
                                        !.log = "forced"])
  BY <1>0 DEF WriteCancelled, Complete
<1>c. hpc[h] \in {"recheck", "write"} /\ InApiNamespace(b) => pc[b] = "gone"
  BY <1>0, <1>a DEF LInv, IInv, KillConfirmed
<1>d. InApiNamespace(b) /\ Exists(b) =>
        (Running(b) \/ ForceStopped(b)) /\ rows[b].items = hcall[h].items
  BY <1>0, <1>a DEF LInv, IInv, KillConfirmed
<1>e. ASSUME NEW c \in Batches, c # b PROVE Seen(c)' = Seen(c)
  <2>1. rows'[c] = rows[c]
    BY <1>a, <1>b, <1>e DEF Update, TypeOK
  <2>2. Phase(c)' = Phase(c)
    BY <1>a DEF batchVars, Phase
  <2> QED
    BY <2>1, <2>2, <1>a, SeenKept DEF batchVars
<1>1. CASE ~InApiNamespace(b)
  <2>1. Seen(b)' = Seen(b)
    BY <1>1, <1>a, SchedulerUnseen DEF batchVars
  <2> QED
    BY <2>1, <1>e, ViewKept
<1>2. CASE ~Exists(b)
  <2>1. rows' = rows
    BY <1>2, <1>b DEF Update
  <2> QED
    BY <2>1, <1>a, NothingSeen
<1>3. CASE InApiNamespace(b) /\ Exists(b)
  <2>1. rows'[b] = [rows[b] EXCEPT !.status = "cancelled", !.items = hcall[h].items,
                                   !.log = "forced"]
    BY <1>3, <1>a, <1>b DEF Update, TypeOK
  <2>2. /\ rows'[b].status = "cancelled" /\ rows'[b].log = "forced"
        /\ rows'[b].items = rows[b].items
    BY <2>1, <1>3, <1>a, <1>d DEF Row
  <2>3. Phase(b) = "gone" /\ Phase(b)' = "gone"
    BY <1>3, <1>a, <1>c, PhaseOf, NextPhaseOf DEF batchVars
  <2>4. CASE ForceStopped(b)
    <3>1. Seen(b)' = Seen(b)
      BY <2>2, <2>3, <2>4, <1>a, SeenKept DEF ForceStopped, batchVars
    <3> QED
      BY <3>1, <1>e, ViewKept
  <2>5. CASE Running(b)
    <3>1. Seen(b) = [phase |-> "gone", stored |-> work[b].processed,
                     status |-> "running", items |-> rows[b].items, log |-> rows[b].log]
      BY <2>3, <2>5, <1>3, <1>a, SeenFields DEF Running
    <3>2. Seen(b)' = [phase |-> "gone", stored |-> work[b].processed,
                      status |-> "cancelled", items |-> rows[b].items, log |-> "forced"]
      BY <2>2, <2>3, <1>3, <1>a, NextSeenFields DEF InApiNamespace, batchVars
    <3>3. [Seen(b) EXCEPT !.status = "cancelled", !.log = "forced"]
             = [phase |-> "gone", stored |-> work[b].processed,
                  status |-> "cancelled", items |-> rows[b].items, log |-> "forced"]
      <4> DEFINE f == [Seen(b) EXCEPT !.status = "cancelled", !.log = "forced"]
      <4>1. /\ f.phase = "gone" /\ f.stored = work[b].processed /\ f.status = "cancelled"
            /\ f.items = rows[b].items /\ f.log = "forced"
        BY <3>1
      <4>2. f = [x \in {"phase", "stored", "status", "items", "log"} |-> f[x]]
        BY <3>1
      <4> HIDE DEF f
      <4>3. f = [phase |-> "gone", stored |-> work[b].processed,
                 status |-> "cancelled", items |-> rows[b].items, log |-> "forced"]
        BY <4>1, <4>2
      <4> QED
        BY <4>3 DEF f
    <3>5. Seen(b)' = [Seen(b) EXCEPT !.status = "cancelled", !.log = "forced"]
      BY <3>2, <3>3
    <3>6. /\ TableView[b] = Seen(b)
          /\ TableView' = [TableView EXCEPT ![b] =
                             [Seen(b) EXCEPT !.status = "cancelled", !.log = "forced"]]
      BY <3>5, <1>e, ViewOfOne
    <3>7. Seen(b).phase = "gone" /\ Seen(b).status = "running"
      BY <3>1
    <3>8. Ledger!ForceStop(b)
      BY <3>6, <3>7 DEF Ledger!ForceStop
    <3> QED
      BY <3>8, <1>a DEF Ledger!Next
  <2> QED
    BY <2>4, <2>5, <1>3, <1>d
<1> QED
  BY <1>1, <1>2, <1>3

\* A step of a stop request sets the flag, ends the process that holds the
\* pid, writes the outcome, or is not seen.
LEMMA CancelSeen ==
  ASSUME LInv, NEW h \in Handlers, Cancel(h)
  PROVE  Ledger!Next \/ TableView' = TableView
<1>a. TypeOK
  BY DEF LInv, IInv
<1>1. CASE SetFlag(h)
  <2> DEFINE b == hcall[h].run
  <2>1. /\ b \in Batches /\ rows[b] \in Row
        /\ rows' \in {rows, Update(b, [rows[b] EXCEPT !.cancelRequested = TRUE])}
    BY <1>1, <1>a DEF SetFlag, TypeOK
  <2>2. ASSUME NEW c \in Batches
        PROVE  /\ rows'[c].status = rows[c].status
               /\ rows'[c].items = rows[c].items /\ rows'[c].log = rows[c].log
    <3>1. CASE rows'[c] = rows[c]
      BY <3>1
    <3>2. CASE c = b /\ rows'[b] = [rows[b] EXCEPT !.cancelRequested = TRUE]
      BY <3>2, <2>1 DEF Row
    <3> HIDE DEF b
    <3> QED
      BY <3>1, <3>2, <2>1, <1>a DEF Update, TypeOK
  <2> QED
    BY <2>2, <1>1, NothingSeen DEF SetFlag
<1>2. CASE KillBatch(h)
  <2>1. PICK b \in Batches : /\ Alive(b) /\ InApiNamespace(b)
                             /\ pc' = [pc EXCEPT ![b] = "gone"]
    BY <1>2 DEF KillBatch
  <2> QED
    BY <2>1, <1>2, <1>a, EndSeen DEF KillBatch
<1>3. CASE WriteCancelled(h) /\ ~UNCHANGED rows
  BY <1>3, WriteCancelledSeen
<1>4. CASE \/ ReadRun(h) \/ KillApi(h) \/ KillForeign(h) \/ KillRefused(h)
           \/ KillMissing(h) \/ Recheck(h) \/ CallFails(h)
           \/ WriteCancelled(h) /\ UNCHANGED rows
  <2>1. UNCHANGED batchVars /\ rows' = rows
    BY <1>4 DEF ReadRun, KillApi, KillForeign, KillRefused, KillMissing, Recheck,
       CallFails, WriteCancelled, batchVars
  <2> QED
    BY <2>1, NothingSeen
<1> QED
  BY <1>1, <1>2, <1>3, <1>4 DEF Cancel, Kill

\* reset_all() makes the ledger forget its rows.
LEMMA ResetSeen ==
  ASSUME LInv, ResetRuns
  PROVE  Ledger!Next
<1>a. UNCHANGED batchVars /\ rows' = [b \in Batches |-> NoRow]
  BY DEF ResetRuns
<1>1. ASSUME NEW b \in Batches
      PROVE  Seen(b)' = [Seen(b) EXCEPT !.status = "absent", !.items = 0, !.log = "null"]
  <2> DEFINE f == [Seen(b) EXCEPT !.status = "absent", !.items = 0, !.log = "null"]
  <2>1. Phase(b)' = Phase(b) /\ proc'[b] = proc[b] /\ work'[b] = work[b]
    BY <1>a DEF batchVars, Phase
  <2>2. /\ rows'[b].status = "absent" /\ rows'[b].items = 0 /\ rows'[b].log = "null"
    BY <1>a DEF NoRow
  <2>3. CASE ~InApiNamespace(b)
    <3>1. Seen(b) = Unseen /\ Seen(b)' = Unseen
      BY <2>1, <2>3, SchedulerUnseen
    <3>2. /\ f.phase = "unborn" /\ f.stored = 0 /\ f.status = "absent"
          /\ f.items = 0 /\ f.log = "null"
      BY <3>1 DEF Unseen
    <3>3. f = [x \in {"phase", "stored", "status", "items", "log"} |-> f[x]]
      BY <3>1 DEF Unseen
    <3>4. f = Unseen
      <4> HIDE DEF f
      <4> QED
        BY <3>2, <3>3 DEF Unseen
    <3> QED
      BY <3>1, <3>4
  <2>4. CASE InApiNamespace(b)
    <3>1. Seen(b) = [phase |-> Phase(b), stored |-> work[b].processed,
                     status |-> rows[b].status, items |-> rows[b].items,
                     log |-> rows[b].log]
      BY <2>4, SeenFields
    <3>2. Seen(b)' = [phase |-> Phase(b), stored |-> work[b].processed,
                      status |-> "absent", items |-> 0, log |-> "null"]
      BY <2>1, <2>2, <2>4, NextSeenFields DEF InApiNamespace
    <3>3. /\ f.phase = Phase(b) /\ f.stored = work[b].processed /\ f.status = "absent"
          /\ f.items = 0 /\ f.log = "null"
      BY <3>1
    <3>4. f = [x \in {"phase", "stored", "status", "items", "log"} |-> f[x]]
      BY <3>1
    <3>5. f = Seen(b)'
      <4> HIDE DEF f
      <4> QED
        BY <3>2, <3>3, <3>4
    <3> QED
      BY <3>5
  <2> QED
    BY <2>3, <2>4
<1>2. \A b \in Batches : TableView[b] = Seen(b)
  BY DEF TableView
<1>3. TableView' = [b \in Batches |-> [TableView[b] EXCEPT !.status = "absent", !.items = 0,
                                                          !.log = "null"]]
  BY <1>1, <1>2 DEF TableView
<1>4. Ledger!Forget
  BY <1>3 DEF Ledger!Forget
<1> QED
  BY <1>4 DEF Ledger!Next

\* A restart of the API's container ends every process in it.
LEMMA RestartSeen ==
  ASSUME LInv, ApiRestart
  PROVE  Ledger!Next \/ TableView' = TableView
<1>a. TypeOK /\ proc' = proc /\ work' = work /\ rows' = rows
  BY DEF LInv, IInv, ApiRestart
<1>1. CASE pc' = pc
  BY <1>1, <1>a, NothingSeen DEF batchVars
<1>2. CASE pc' # pc
  <2> DEFINE D == {b \in Batches : Alive(b) /\ InApiNamespace(b)}
  <2>1. pc' = [b \in Batches |-> IF b \in D THEN "gone" ELSE pc[b]]
    BY <1>2 DEF ApiRestart
  <2>2. \A c \in D : Seen(c).phase # "unborn"
    BY PhaseOf, SeenFields DEF Alive
  <2>3. ASSUME NEW c \in Batches
        PROVE  Seen(c)' = IF c \in D THEN [Seen(c) EXCEPT !.phase = "gone"] ELSE Seen(c)
    <3>1. CASE c \in D
      <4>1. Phase(c)' = "gone"
        BY <2>1, <3>1, NextPhaseOf
      <4> QED
        BY <3>1, <4>1, <1>a, SeenFields, NextSeenFields DEF InApiNamespace
    <3>2. CASE c \notin D
      <4>1. pc'[c] = pc[c]
        BY <2>1, <3>2
      <4>2. Phase(c)' = Phase(c)
        BY <4>1 DEF Phase
      <4>3. Seen(c)' = Seen(c)
        BY <4>2, <1>a, SeenKept
      <4> QED
        BY <4>3, <3>2
    <3> QED
      BY <3>1, <3>2
  <2>4. D \in SUBSET Batches
    OBVIOUS
  <2> HIDE DEF D
  <2> QED
    BY <2>2, <2>3, <2>4, LedgerDie
<1> QED
  BY <1>1, <1>2

-----------------------------------------------------------------------------
\* The rows of a new database make an empty ledger.
LEMMA LedgerInit == Init => Ledger!Init
<1> SUFFICES ASSUME Init PROVE Ledger!Init
  OBVIOUS
<1>1. ASSUME NEW b \in Batches PROVE Seen(b) = Unseen
  <2>1. /\ pc[b] = "unborn" /\ InApiNamespace(b) /\ rows[b] = NoRow
        /\ work[b].processed = 0
    BY DEF Init, InApiNamespace
  <2>2. Phase(b) = "unborn"
    BY <2>1, PhaseOf
  <2> QED
    BY <2>1, <2>2, SeenFields DEF Unseen, NoRow
<1> QED
  BY <1>1 DEF Ledger!Init, Ledger!Unseen, TableView, Unseen

\* Every step is a step of the ledger, or is not seen.
LEMMA LedgerStep == LInv /\ [Next]_vars => [Ledger!Next]_TableView
<1> SUFFICES ASSUME LInv, [Next]_vars PROVE Ledger!Next \/ TableView' = TableView
  OBVIOUS
<1>1. ASSUME NEW b \in Batches, Launch(b) PROVE Ledger!Next \/ TableView' = TableView
  BY <1>1, LaunchSeen
<1>2. ASSUME NEW b \in Batches, Advance(b) \/ Crash(b)
      PROVE  Ledger!Next \/ TableView' = TableView
  BY <1>2, BatchSeen
<1>3. ASSUME NEW h \in Handlers, Cancel(h) PROVE Ledger!Next \/ TableView' = TableView
  BY <1>3, CancelSeen
<1>4. CASE \/ \E h \in Handlers, b \in Batches : BeginCancel(h, b)
           \/ \E p \in Pids : ForeignStart(p) \/ ForeignExit(p)
           \/ UNCHANGED vars
  <2>1. UNCHANGED batchVars /\ rows' = rows
    BY <1>4 DEF BeginCancel, ForeignStart, ForeignExit, batchVars, vars
  <2> QED
    BY <2>1, NothingSeen
<1>5. CASE ResetRuns
  BY <1>5, ResetSeen
<1>6. CASE ApiRestart
  BY <1>6, RestartSeen
<1> QED
  BY <1>1, <1>2, <1>3, <1>4, <1>5, <1>6 DEF Next

\* The strengthened invariant holds in every reachable state.
LEMMA LInvariance == Spec => []LInv
BY LInitInv, LNextInv, PTL DEF Spec

\* The life of a run, with its stop requests, signals, pids, crashes, resets
\* and restarts, is one that RunLedger allows: for every run whose process the
\* API can name, the table announces it once, counts exactly what is stored,
\* settles once, and declares it stopped only when nobody works on it.
THEOREM RunsImplementTheLedger == Spec => ImplementsRunLedger
BY LedgerInit, LedgerStep, LInvariance, PTL DEF Spec, ImplementsRunLedger, Ledger!Spec

=============================================================================
