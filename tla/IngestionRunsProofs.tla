------------------------ MODULE IngestionRunsProofs ------------------------
(* Safety of IngestionRuns for every number of batches, handlers, pids and  *)
(* sources, in both deployments.                                            *)
EXTENDS IngestionRuns, TLAPS

Started(b) == pc[b] \notin {"unborn", "starting"}

\* A row belongs to a batch that has passed StartRun, and carries its pid.
RowsKnown ==
  \A b \in Batches : Exists(b) => Started(b) /\ rows[b].pid = proc[b].pid

\* A live batch in the API's namespace shares its pid with no one there.
PidsUnique ==
  \A b \in Batches : Alive(b) /\ InApiNamespace(b) =>
    /\ proc[b].pid # ApiPid
    /\ proc[b].pid \notin foreign
    /\ \A c \in Batches : Alive(c) /\ InApiNamespace(c) /\ proc[c].pid = proc[b].pid
                            => c = b

\* A handler is about to signal the pid of the batch it was asked to stop.
KillAimed ==
  \A h \in Handlers :
    /\ hpc[h] # "idle" => Started(hcall[h].run)
    /\ hpc[h] = "kill" => hcall[h].pid = proc[hcall[h].run].pid

\* Past the signal, that batch is gone, and its row can only be as it was
\* left, or force-stopped by another handler, or reset.
KillConfirmed ==
  \A h \in Handlers :
    LET b == hcall[h].run IN
      /\ hpc[h] \in {"recheck", "write"} /\ InApiNamespace(b) => pc[b] = "gone"
      /\ hpc[h] = "write" /\ InApiNamespace(b) /\ Exists(b) =>
           /\ Running(b) \/ ForceStopped(b)
           /\ rows[b].items = hcall[h].items

\* A finished row has a batch past its last write, or a dead one.
FinishedIsOver ==
  \A b \in Batches : InApiNamespace(b) /\ rows[b].status \in Terminal =>
    pc[b] \in {"closing", "gone"}

\* The control flow behind a success: the loop over the sources ends early
\* only with the cancelled mark.
SourcesDone ==
  \A b \in Batches :
    /\ pc[b] \in {"cleanup", "relate", "finish"} =>
         work[b].cancelled \/ work[b].source > NumSources
    /\ rows[b].status = "success" => pc[b] \in {"closing", "gone"}

\* The count that a stop request writes back is no more than what is stored.
CountsBounded ==
  \A h \in Handlers : hpc[h] = "write" =>
    hcall[h].items <= work[hcall[h].run].processed

IInv ==
  /\ TypeOK
  /\ RowsKnown
  /\ PidsUnique
  /\ KillAimed
  /\ KillConfirmed
  /\ ForceStoppedIsDead
  /\ FinishedIsOver
  /\ SourcesDone
  /\ SuccessIsEarned
  /\ CountIsCommitted
  /\ CountsBounded
-----------------------------------------------------------------------------
(* Type correctness. *)

\* The missing row is a row.
LEMMA NoRowTyped == NoRow \in Row
BY PidAssumption DEF NoRow, Row

\* An UPDATE that writes a row writes a table.
LEMMA UpdateTyped ==
  ASSUME TypeOK, NEW b \in Batches, NEW r \in Row
  PROVE  Update(b, r) \in [Batches -> Row]
BY DEF TypeOK, Update

\* complete_ingestion_run() writes a table.
LEMMA CompleteTyped ==
  ASSUME TypeOK, NEW b \in Batches, NEW s \in Terminal, NEW n \in Nat,
         NEW l \in {"null", "errors", "forced"}
  PROVE  Complete(b, s, n, l) \in [Batches -> Row]
<1>1. rows[b] \in Row
  BY DEF TypeOK
<1>2. [rows[b] EXCEPT !.status = s, !.items = n, !.log = l] \in Row
  BY <1>1 DEF Row
<1> QED
  BY <1>2, UpdateTyped DEF Complete

\* _run() ends in one of the four terminal statuses.
LEMMA FinalStatusTyped == ASSUME NEW b \in Batches PROVE FinalStatus(b) \in Terminal
BY DEF FinalStatus, Terminal

\* The initial states are well typed.
LEMMA InitTyped == Init => TypeOK
<1> SUFFICES ASSUME Init PROVE TypeOK
  OBVIOUS
<1>1. rows \in [Batches -> Row]
  BY NoRowTyped DEF Init
<1>2. work \in [Batches -> Work]
  BY DEF Init, Work
<1>3. hcall \in [Handlers -> [run : Batches, pid : Pids, items : Nat]]
  BY PidAssumption DEF Init
<1>4. /\ pc \in [Batches -> BatchPc]
      /\ hpc \in [Handlers -> HandlerPc]
      /\ proc \in [Batches -> [ns : Namespaces, pid : Pids]]
  BY PidAssumption DEF Init, BatchPc, HandlerPc, Ended, Namespaces
<1> QED
  BY <1>1, <1>2, <1>3, <1>4 DEF Init, TypeOK

\* So is what trigger_ingestion() and the scheduler leave behind ...
LEMMA LaunchTyped == ASSUME TypeOK, NEW b \in Batches, Launch(b) PROVE TypeOK'
<1>1. CASE Spawn(b)
  <2>1. PICK p \in Pids \ UsedPids : proc' = [proc EXCEPT ![b] = [ns |-> "api", pid |-> p]]
    BY <1>1 DEF Spawn
  <2> QED
    BY <2>1, <1>1 DEF TypeOK, Spawn, Goto, BatchPc, Namespaces, handlerVars, machineVars
<1>2. CASE RunInScheduler(b)
  BY <1>2, PidAssumption
     DEF TypeOK, RunInScheduler, Goto, BatchPc, Namespaces, handlerVars, machineVars
<1> QED
  BY <1>1, <1>2 DEF Launch

\* ... and the two loops after the sources ...
LEMMA AfterSourcesTyped ==
  ASSUME TypeOK, NEW b \in Batches, NEW from \in BatchPc, NEW to \in BatchPc,
         AfterSources(b, from, to)
  PROVE  TypeOK'
<1>1. PICK fails \in BOOLEAN : work' = [work EXCEPT ![b].failed = work[b].failed \/ fails]
  BY DEF AfterSources
<1>2. work' \in [Batches -> Work]
  BY <1>1, ZenonT(60) DEF TypeOK, Work
<1> QED
  BY <1>2 DEF TypeOK, AfterSources, Goto, handlerVars, machineVars

\* ... and every step of _run() ...
LEMMA AdvanceTyped == ASSUME TypeOK, NEW b \in Batches, Advance(b) PROVE TypeOK'
<1>a. work[b] \in Work /\ rows[b] \in Row
  BY DEF TypeOK
<1>b. ASSUME NEW v \in Work, work' = [work EXCEPT ![b] = v]
      PROVE  work' \in [Batches -> Work]
  BY <1>b DEF TypeOK
<1>1. CASE StartRun(b)
  <2>1. [NoRow EXCEPT !.status = "running", !.pid = proc[b].pid] \in Row
    BY DEF TypeOK, NoRow, Row
  <2> QED
    BY <1>1, <2>1 DEF TypeOK, StartRun, Goto, BatchPc, handlerVars, machineVars
<1>2. CASE NextSource(b)
  <2>1. [work[b] EXCEPT !.cancelled = TRUE] \in Work
    BY <1>a DEF Work
  <2>2. work' = work \/ work' = [work EXCEPT ![b] = [work[b] EXCEPT !.cancelled = TRUE]]
    BY <1>2 DEF NextSource
  <2>3. work' \in [Batches -> Work]
    BY <2>1, <2>2, <1>b DEF TypeOK
  <2>4. pc' \in [Batches -> BatchPc]
    BY <1>2 DEF TypeOK, NextSource, Goto, BatchPc
  <2> QED
    BY <1>2, <2>3, <2>4 DEF TypeOK, NextSource, handlerVars, machineVars
<1>3. CASE Extract(b)
  <2>1. PICK n \in 0 .. MaxItems : work' = [work EXCEPT ![b].todo = n]
    BY <1>3 DEF Extract
  <2>2. work' \in [Batches -> Work]
    BY <2>1, BoundsAssumption, SMTT(30) DEF TypeOK, Work
  <2> QED
    BY <1>3, <2>2 DEF TypeOK, Extract, Goto, BatchPc, handlerVars, machineVars
<1>4. CASE ExtractFails(b)
  <2>1. work[b].source + 1 \in Nat
    BY <1>a DEF Work
  <2>2. [work[b] EXCEPT !.failed = TRUE, !.source = work[b].source + 1] \in Work
    BY <1>a, <2>1 DEF Work
  <2>3. work' \in [Batches -> Work]
    <3>1. work' = [work EXCEPT ![b] =
                     [work[b] EXCEPT !.failed = TRUE, !.source = work[b].source + 1]]
      BY <1>4 DEF ExtractFails
    <3> QED
      BY <3>1, <2>2, <1>b
  <2> QED
    BY <1>4, <2>3 DEF TypeOK, ExtractFails, Goto, BatchPc, handlerVars, machineVars
<1>5. CASE CheckAfterExtract(b)
  <2>1. work' \in [Batches -> Work]
    BY <1>5, ZenonT(60) DEF TypeOK, CheckAfterExtract, Work
  <2> QED
    BY <1>5, <2>1 DEF TypeOK, CheckAfterExtract, Goto, BatchPc, handlerVars, machineVars
<1>6. CASE ProcessItem(b)
  <2>1. work[b].todo - 1 \in Nat /\ work[b].processed + 1 \in Nat
    BY <1>6, <1>a DEF ProcessItem, Work
  <2>2. [work[b] EXCEPT !.todo = work[b].todo - 1, !.processed = work[b].processed + 1] \in Work
    BY <1>a, <2>1 DEF Work
  <2>3. work' \in [Batches -> Work]
    <3>1. work' = [work EXCEPT ![b] = [work[b] EXCEPT !.todo = work[b].todo - 1,
                                                     !.processed = work[b].processed + 1]]
      BY <1>6 DEF ProcessItem
    <3> QED
      BY <3>1, <2>2, <1>b
  <2> QED
    BY <1>6, <2>3 DEF TypeOK, ProcessItem, Goto, BatchPc, handlerVars, machineVars
<1>7. CASE ProcessItemFails(b)
  <2>1. work[b].todo - 1 \in Nat
    BY <1>7, <1>a DEF ProcessItemFails, Work
  <2>2. [work[b] EXCEPT !.todo = work[b].todo - 1, !.failed = TRUE] \in Work
    BY <1>a, <2>1 DEF Work
  <2>3. work' \in [Batches -> Work]
    <3>1. work' = [work EXCEPT ![b] = [work[b] EXCEPT !.todo = work[b].todo - 1, !.failed = TRUE]]
      BY <1>7 DEF ProcessItemFails
    <3> QED
      BY <3>1, <2>2, <1>b
  <2> QED
    BY <1>7, <2>3 DEF TypeOK, ProcessItemFails, handlerVars, machineVars
<1>8. CASE UpdateProgress(b)
  <2>1. [rows[b] EXCEPT !.items = work[b].processed] \in Row
    BY <1>a DEF Row, Work
  <2>2. rows' \in [Batches -> Row]
    BY <1>8, <2>1, UpdateTyped DEF UpdateProgress, TypeOK
  <2> QED
    BY <1>8, <2>2 DEF TypeOK, UpdateProgress, Goto, BatchPc, handlerVars, machineVars
<1>9. CASE EndSource(b)
  <2>1. work[b].source + 1 \in Nat
    BY <1>a DEF Work
  <2>2. [work[b] EXCEPT !.source = work[b].source + 1] \in Work
    BY <1>a, <2>1 DEF Work
  <2>3. work' = [work EXCEPT ![b] = [work[b] EXCEPT !.source = work[b].source + 1]]
    BY <1>9 DEF EndSource
  <2>4. work' \in [Batches -> Work]
    BY <2>2, <2>3, <1>b
  <2> QED
    BY <1>9, <2>4 DEF TypeOK, EndSource, Goto, BatchPc, handlerVars, machineVars
<1>10. CASE ClearRelationships(b) \/ DetectRelationships(b)
  BY <1>10, AfterSourcesTyped DEF ClearRelationships, DetectRelationships, BatchPc
<1>11. CASE Finish(b)
  <2>1. work[b].processed \in Nat
    BY <1>a DEF Work
  <2>2. rows' \in [Batches -> Row]
    BY <1>11, <2>1, CompleteTyped, FinalStatusTyped DEF Finish
  <2> QED
    BY <1>11, <2>2 DEF TypeOK, Finish, Goto, BatchPc, handlerVars, machineVars
<1>12. CASE Exit(b)
  BY <1>12 DEF TypeOK, Exit, Goto, BatchPc, handlerVars, machineVars
<1> QED
  BY <1>1, <1>2, <1>3, <1>4, <1>5, <1>6, <1>7, <1>8, <1>9, <1>10, <1>11, <1>12
     DEF Advance

\* ... and every step of cancel_ingestion() ...
LEMMA CancelTyped == ASSUME TypeOK, NEW h \in Handlers, Cancel(h) PROVE TypeOK'
<1> DEFINE b == hcall[h].run
<1>a. b \in Batches /\ rows[b] \in Row
  BY DEF TypeOK
<1>b. hcall[h].items \in Nat
  BY DEF TypeOK
<1>1. CASE SetFlag(h)
  <2>1. [rows[b] EXCEPT !.cancelRequested = TRUE] \in Row
    BY <1>a DEF Row
  <2>2. rows' \in [Batches -> Row]
    BY <1>1, <1>a, <2>1, UpdateTyped DEF SetFlag, TypeOK
  <2> QED
    BY <1>1, <2>2 DEF TypeOK, SetFlag, HandlerGoto, HandlerPc, Ended, batchVars, machineVars
<1>2. CASE ReadRun(h)
  BY <1>2 DEF TypeOK, ReadRun, Row, HandlerGoto, HandlerPc, Ended, batchVars, machineVars
<1>3. CASE KillBatch(h)
  BY <1>3 DEF TypeOK, KillBatch, BatchPc, HandlerGoto, HandlerPc, Ended, machineVars
<1>4. CASE KillApi(h) \/ KillForeign(h) \/ KillRefused(h) \/ KillMissing(h)
  BY <1>4 DEF TypeOK, KillApi, KillForeign, KillRefused, KillMissing, HandlerGoto,
              HandlerPc, Ended, batchVars, machineVars
<1>5. CASE Recheck(h)
  BY <1>5 DEF TypeOK, Recheck, Row, HandlerGoto, HandlerPc, Ended, batchVars, machineVars
<1>6. CASE WriteCancelled(h)
  <2>1. rows' \in [Batches -> Row]
    BY <1>6, <1>a, <1>b, CompleteTyped DEF WriteCancelled, Terminal, TypeOK
  <2> QED
    BY <1>6, <2>1 DEF TypeOK, WriteCancelled, HandlerGoto, HandlerPc, Ended, batchVars, machineVars
<1>7. CASE CallFails(h)
  BY <1>7 DEF TypeOK, CallFails, HandlerGoto, HandlerPc, Ended, batchVars, machineVars
<1> QED
  BY <1>1, <1>2, <1>3, <1>4, <1>5, <1>6, <1>7 DEF Cancel, Kill

\* ... and a restart of the API ...
LEMMA ApiRestartTyped == ASSUME TypeOK, ApiRestart PROVE TypeOK'
<1>1. restarts' \in Nat
  BY DEF TypeOK, ApiRestart
<1>2. pc' \in [Batches -> BatchPc]
  BY DEF TypeOK, ApiRestart, BatchPc
<1> QED
  BY <1>1, <1>2 DEF TypeOK, ApiRestart, HandlerPc, Ended

\* ... and so every step.
LEMMA NextTyped == TypeOK /\ [Next]_vars => TypeOK'
<1> SUFFICES ASSUME TypeOK, [Next]_vars PROVE TypeOK'
  OBVIOUS
<1>1. ASSUME NEW b \in Batches, Crash(b) PROVE TypeOK'
  BY <1>1 DEF TypeOK, Crash, BatchPc, handlerVars, machineVars
<1>2. ASSUME NEW h \in Handlers, NEW b \in Batches, BeginCancel(h, b) PROVE TypeOK'
  BY <1>2 DEF TypeOK, BeginCancel, HandlerGoto, HandlerPc, Ended, batchVars, machineVars
<1>3. CASE ResetRuns
  BY <1>3, NoRowTyped DEF TypeOK, ResetRuns, batchVars, handlerVars, machineVars
<1>4. ASSUME NEW p \in Pids, ForeignStart(p) \/ ForeignExit(p) PROVE TypeOK'
  BY <1>4 DEF TypeOK, ForeignStart, ForeignExit, batchVars, handlerVars
<1>5. CASE UNCHANGED vars
  BY <1>5 DEF TypeOK, vars, batchVars, handlerVars, machineVars
<1> QED
  BY <1>1, <1>2, <1>3, <1>4, <1>5, LaunchTyped, AdvanceTyped, CancelTyped,
     ApiRestartTyped DEF Next

\* The variables keep their types: rows, program counters and the calls in
\* progress are well formed however batches, handlers and restarts mix.
THEOREM TypeCorrect == Spec => []TypeOK
BY InitTyped, NextTyped, PTL DEF Spec

-----------------------------------------------------------------------------
(* The kinds of step: what one step of Next can do to one batch, to one     *)
(* handler and to one row.                                                  *)

\* A batch is launched, goes on, is ended from outside, or is left alone.
LEMMA BatchSteps ==
  ASSUME TypeOK, [Next]_vars, NEW b \in Batches
  PROVE  \/ pc'[b] = pc[b] /\ proc'[b] = proc[b] /\ work'[b] = work[b]
         \/ Alive(b) /\ pc'[b] = "gone" /\ proc'[b] = proc[b] /\ work'[b] = work[b]
         \/ Launch(b)
         \/ Advance(b)
<1> DEFINE Goal == \/ pc'[b] = pc[b] /\ proc'[b] = proc[b] /\ work'[b] = work[b]
                   \/ Alive(b) /\ pc'[b] = "gone" /\ proc'[b] = proc[b] /\ work'[b] = work[b]
                   \/ Launch(b)
                   \/ Advance(b)
<1>1. ASSUME NEW c \in Batches, c # b, Launch(c) PROVE Goal
  BY <1>1 DEF TypeOK, Launch, Spawn, RunInScheduler, Goto
<1>2. ASSUME NEW c \in Batches, c # b, Advance(c) PROVE Goal
  <2>1. proc'[b] = proc[b]
    BY <1>2 DEF Advance, StartRun, NextSource, Extract, ExtractFails, CheckAfterExtract,
       ProcessItem, ProcessItemFails, UpdateProgress, EndSource, ClearRelationships,
       DetectRelationships, AfterSources, Finish, Exit
  <2>2. pc'[b] = pc[b]
    BY <1>2 DEF TypeOK, Advance, StartRun, NextSource, Extract, ExtractFails,
       CheckAfterExtract, ProcessItem, ProcessItemFails, UpdateProgress, EndSource,
       ClearRelationships, DetectRelationships, AfterSources, Finish, Exit, Goto
  <2>3. work'[b] = work[b]
    BY <1>2 DEF TypeOK, Advance, StartRun, NextSource, Extract, ExtractFails,
       CheckAfterExtract, ProcessItem, ProcessItemFails, UpdateProgress, EndSource,
       ClearRelationships, DetectRelationships, AfterSources, Finish, Exit
  <2> QED
    BY <2>1, <2>2, <2>3
<1>3. ASSUME NEW c \in Batches, Crash(c) PROVE Goal
  BY <1>3 DEF TypeOK, Crash, Alive
<1>4. ASSUME NEW h \in Handlers, Cancel(h) PROVE Goal
  <2>1. CASE KillBatch(h)
    BY <2>1 DEF TypeOK, KillBatch, Alive
  <2>2. CASE ~KillBatch(h)
    BY <1>4, <2>2 DEF Cancel, Kill, SetFlag, ReadRun, KillApi, KillForeign, KillRefused,
       KillMissing, Recheck, WriteCancelled, CallFails, batchVars
  <2> QED
    BY <2>1, <2>2
<1>5. ASSUME NEW h \in Handlers, NEW c \in Batches, BeginCancel(h, c) PROVE Goal
  BY <1>5 DEF BeginCancel, batchVars
<1>6. CASE ResetRuns
  BY <1>6 DEF ResetRuns, batchVars
<1>7. ASSUME NEW p \in Pids, ForeignStart(p) \/ ForeignExit(p) PROVE Goal
  BY <1>7 DEF ForeignStart, ForeignExit, batchVars
<1>8. CASE ApiRestart
  BY <1>8 DEF TypeOK, ApiRestart, Alive
<1>9. CASE UNCHANGED vars
  BY <1>9 DEF vars, batchVars
<1> QED
  BY <1>1, <1>2, <1>3, <1>4, <1>5, <1>6, <1>7, <1>8, <1>9 DEF Next

\* Once started, a batch keeps its process; once gone, it stays gone; and the
\* count of stored items only grows.
LEMMA BatchMonotone ==
  ASSUME TypeOK, [Next]_vars, NEW b \in Batches
  PROVE  /\ Started(b) => Started(b)' /\ proc'[b] = proc[b]
         /\ pc[b] = "gone" => pc'[b] = "gone"
         /\ work[b].processed <= work'[b].processed
<1>1. CASE Launch(b)
  BY <1>1 DEF TypeOK, Work, Launch, Spawn, RunInScheduler, Goto, Started
<1>2. CASE Advance(b)
  <2>1. Started(b) => Started(b)' /\ proc'[b] = proc[b]
    BY <1>2 DEF TypeOK, Advance, StartRun, NextSource, Extract, ExtractFails,
       CheckAfterExtract, ProcessItem, ProcessItemFails, UpdateProgress, EndSource,
       ClearRelationships, DetectRelationships, AfterSources, Finish, Exit, Goto, Started
  <2>2. pc[b] # "gone"
    BY <1>2 DEF Advance, StartRun, NextSource, Extract, ExtractFails,
       CheckAfterExtract, ProcessItem, ProcessItemFails, UpdateProgress, EndSource,
       ClearRelationships, DetectRelationships, AfterSources, Finish, Exit, Goto
  <2>3. work[b].processed <= work'[b].processed
    <3>1. CASE ProcessItem(b)
      BY <3>1 DEF TypeOK, Work, ProcessItem
    <3>2. CASE ~ProcessItem(b)
      <4> DEFINE Same == work'[b].processed = work[b].processed
      <4>1. ASSUME StartRun(b) \/ UpdateProgress(b) \/ Finish(b) \/ Exit(b)
           PROVE  Same
        BY <4>1 DEF StartRun, UpdateProgress, Finish, Exit
      <4>2. ASSUME NextSource(b) \/ CheckAfterExtract(b) \/ EndSource(b)
           PROVE  Same
        BY <4>2 DEF TypeOK, Work, NextSource, CheckAfterExtract, EndSource
      <4>3. ASSUME Extract(b) \/ ExtractFails(b) \/ ProcessItemFails(b)
           PROVE  Same
        <5>1. CASE Extract(b)
          BY <5>1 DEF TypeOK, Work, Extract
        <5>2. CASE ExtractFails(b)
          BY <5>2 DEF TypeOK, Work, ExtractFails
        <5>3. CASE ProcessItemFails(b)
          BY <5>3 DEF TypeOK, Work, ProcessItemFails
        <5> QED
          BY <4>3, <5>1, <5>2, <5>3
      <4>4. ASSUME ClearRelationships(b) \/ DetectRelationships(b)
           PROVE  Same
        <5>1. PICK fails : work' = [work EXCEPT ![b].failed = work[b].failed \/ fails]
          BY <4>4 DEF ClearRelationships, DetectRelationships, AfterSources
        <5> QED
          BY <5>1 DEF TypeOK, Work
      <4>5. Same
        BY <1>2, <3>2, <4>1, <4>2, <4>3, <4>4 DEF Advance
      <4> QED
        BY <4>5 DEF TypeOK, Work
    <3> QED
      BY <3>1, <3>2
  <2> QED
    BY <2>1, <2>2, <2>3
<1>3. CASE pc'[b] \in {pc[b], "gone"} /\ proc'[b] = proc[b] /\ work'[b] = work[b]
  BY <1>3 DEF TypeOK, Work, Started
<1> QED
  BY <1>1, <1>2, <1>3, BatchSteps

\* A handler goes on, is called, is cut off by a restart, or is left alone.
LEMMA HandlerSteps ==
  ASSUME TypeOK, [Next]_vars, NEW h \in Handlers
  PROVE  \/ hpc'[h] = hpc[h] /\ hcall'[h] = hcall[h]
         \/ hpc[h] # "idle" /\ hpc'[h] = "failed" /\ hcall'[h] = hcall[h]
         \/ Cancel(h)
         \/ \E b \in Batches : BeginCancel(h, b)
<1> DEFINE Goal == \/ hpc'[h] = hpc[h] /\ hcall'[h] = hcall[h]
                   \/ hpc[h] # "idle" /\ hpc'[h] = "failed" /\ hcall'[h] = hcall[h]
                   \/ Cancel(h)
                   \/ \E b \in Batches : BeginCancel(h, b)
<1>1. ASSUME NEW b \in Batches, Launch(b) \/ Advance(b) \/ Crash(b) PROVE Goal
  BY <1>1 DEF Launch, Spawn, RunInScheduler, Crash, Advance, StartRun, NextSource, Extract,
     ExtractFails, CheckAfterExtract, ProcessItem, ProcessItemFails, UpdateProgress,
     EndSource, ClearRelationships, DetectRelationships, AfterSources, Finish, Exit,
     handlerVars
<1>2. ASSUME NEW g \in Handlers, g # h, Cancel(g) PROVE Goal
  BY <1>2 DEF TypeOK, Cancel, Kill, KillBatch, SetFlag, ReadRun, KillApi, KillForeign,
     KillRefused, KillMissing, Recheck, WriteCancelled, CallFails, HandlerGoto
<1>3. ASSUME NEW g \in Handlers, g # h, NEW b \in Batches, BeginCancel(g, b) PROVE Goal
  BY <1>3 DEF TypeOK, BeginCancel, HandlerGoto
<1>4. CASE ResetRuns
  BY <1>4 DEF ResetRuns, handlerVars
<1>5. ASSUME NEW p \in Pids, ForeignStart(p) \/ ForeignExit(p) PROVE Goal
  BY <1>5 DEF ForeignStart, ForeignExit, handlerVars
<1>6. CASE ApiRestart
  BY <1>6 DEF TypeOK, ApiRestart, Ended
<1>7. CASE UNCHANGED vars
  BY <1>7 DEF vars, handlerVars
<1> QED
  BY <1>1, <1>2, <1>3, <1>4, <1>5, <1>6, <1>7 DEF Next

\* The seven things that happen to a row.
RowKept(b) == rows'[b] = rows[b]
RowStarted(b) ==
  /\ pc[b] = "starting" /\ pc'[b] = "source" /\ proc'[b] = proc[b]
  /\ rows'[b] = [NoRow EXCEPT !.status = "running", !.pid = proc[b].pid]
RowFlagged(b) == Exists(b) /\ rows'[b] = [rows[b] EXCEPT !.cancelRequested = TRUE]
RowCounted(b) ==
  /\ Exists(b) /\ pc[b] = "progress" /\ work'[b] = work[b]
  /\ rows'[b] = [rows[b] EXCEPT !.items = work[b].processed]
RowFinished(b) ==
  /\ Exists(b) /\ Finish(b)
  /\ \E l \in {"null", "errors"} :
       rows'[b] = [rows[b] EXCEPT !.status = FinalStatus(b),
                                  !.items = work[b].processed, !.log = l]
RowForced(b) ==
  /\ Exists(b)
  /\ \E h \in Handlers :
       /\ hpc[h] = "write" /\ hcall[h].run = b
       /\ UNCHANGED batchVars
       /\ rows'[b] = [rows[b] EXCEPT !.status = "cancelled",
                                     !.items = hcall[h].items, !.log = "forced"]
RowReset(b) == rows'[b] = NoRow

\* A new row and a reset one both count no items.
LEMMA NewRowStatus ==
  ASSUME NEW b \in Batches
  PROVE  /\ RowStarted(b) => rows'[b].status = "running" /\ rows'[b].items = 0
         /\ RowReset(b) => rows'[b].status = "absent" /\ rows'[b].items = 0
<1>1. ASSUME NEW p, rows'[b] = [NoRow EXCEPT !.status = "running", !.pid = p]
      PROVE  rows'[b].status = "running" /\ rows'[b].items = 0
  BY <1>1 DEF NoRow
<1>2. ASSUME rows'[b] = NoRow
      PROVE  rows'[b].status = "absent" /\ rows'[b].items = 0
  BY <1>2 DEF NoRow
<1> QED
  BY <1>1, <1>2 DEF RowStarted, RowReset

\* What may happen to a row: nothing, a reset, a new run, a stop request's
\* flag or final write, a progress write, or the batch's own final status.
LEMMA RowSteps ==
  ASSUME TypeOK, [Next]_vars, NEW b \in Batches
  PROVE  \/ RowKept(b) \/ RowStarted(b) \/ RowFlagged(b) \/ RowCounted(b)
         \/ RowFinished(b) \/ RowForced(b) \/ RowReset(b)
<1> DEFINE Goal == \/ RowKept(b) \/ RowStarted(b) \/ RowFlagged(b) \/ RowCounted(b)
                   \/ RowFinished(b) \/ RowForced(b) \/ RowReset(b)
<1>a. ASSUME NEW c \in Batches, NEW r, rows' = Update(c, r)
      PROVE  RowKept(b) \/ (c = b /\ Exists(b) /\ rows'[b] = r)
  BY <1>a DEF TypeOK, Update, RowKept
<1>1. ASSUME NEW c \in Batches, StartRun(c) PROVE Goal
  BY <1>1 DEF TypeOK, StartRun, Goto, RowKept, RowStarted
<1>2. ASSUME NEW c \in Batches, UpdateProgress(c) PROVE Goal
  BY <1>2, <1>a DEF UpdateProgress, Goto, RowKept, RowCounted
<1>3. ASSUME NEW c \in Batches, Finish(c) PROVE Goal
  <2>1. PICK l \in {"null", "errors"} :
          rows' = Update(c, [rows[c] EXCEPT !.status = FinalStatus(c),
                                            !.items = work[c].processed, !.log = l])
    BY <1>3 DEF Finish, Complete
  <2> QED
    BY <2>1, <1>3, <1>a DEF RowFinished
<1>4. ASSUME NEW h \in Handlers, SetFlag(h) PROVE Goal
  BY <1>4, <1>a DEF TypeOK, SetFlag, RowFlagged, RowKept
<1>5. ASSUME NEW h \in Handlers, WriteCancelled(h), ~UNCHANGED rows PROVE Goal
  <2>1. /\ hcall[h].run \in Batches
        /\ rows' = Update(hcall[h].run,
                          [rows[hcall[h].run] EXCEPT !.status = "cancelled",
                                 !.items = hcall[h].items, !.log = "forced"])
    BY <1>5 DEF TypeOK, WriteCancelled, Complete
  <2>2. CASE RowKept(b)
    BY <2>2
  <2>3. CASE /\ hcall[h].run = b /\ Exists(b)
             /\ rows'[b] = [rows[b] EXCEPT !.status = "cancelled",
                                 !.items = hcall[h].items, !.log = "forced"]
    BY <2>3, <1>5 DEF WriteCancelled, HandlerGoto, RowForced
  <2> QED
    BY <2>1, <2>2, <2>3, <1>a
<1>6. CASE ResetRuns
  BY <1>6 DEF ResetRuns, RowReset
<1>7. CASE UNCHANGED rows
  BY <1>7 DEF RowKept
<1> QED
  BY <1>1, <1>2, <1>3, <1>4, <1>5, <1>6, <1>7
     DEF Next, Launch, Spawn, RunInScheduler, Crash, Advance, NextSource, Extract,
     ExtractFails, CheckAfterExtract, ProcessItem, ProcessItemFails, EndSource,
     ClearRelationships, DetectRelationships, AfterSources, Exit, Cancel, Kill, KillBatch,
     ReadRun, KillApi, KillForeign, KillRefused, KillMissing, Recheck, CallFails, BeginCancel,
     ForeignStart, ForeignExit, ApiRestart, vars

-----------------------------------------------------------------------------
(* The invariant, one conjunct at a time.                                   *)

\* A row keeps the pid that its process has.
LEMMA RowsKnownStep ==
  ASSUME TypeOK, RowsKnown, [Next]_vars PROVE RowsKnown'
<1> SUFFICES ASSUME NEW b \in Batches, Exists(b)'
             PROVE  Started(b)' /\ rows'[b].pid = proc'[b].pid
  BY DEF RowsKnown
<1>1. CASE RowStarted(b)
  BY <1>1, PidAssumption DEF TypeOK, RowStarted, NoRow, Row, Started
<1>2. CASE RowReset(b)
  BY <1>2 DEF RowReset, Exists, NoRow
<1>3. CASE RowKept(b) \/ RowFlagged(b) \/ RowCounted(b) \/ RowFinished(b) \/ RowForced(b)
  <2>1. Exists(b) /\ rows'[b].pid = rows[b].pid
    BY <1>3, ZenonT(60)
       DEF TypeOK, Row, Exists, RowKept, RowFlagged, RowCounted, RowFinished, RowForced
  <2> QED
    BY <2>1, BatchMonotone DEF RowsKnown
<1> QED
  BY <1>1, <1>2, <1>3, RowSteps

\* No two live processes of the API's namespace ever share a pid.
LEMMA PidsUniqueStep ==
  ASSUME TypeOK, PidsUnique, [Next]_vars PROVE PidsUnique'
<1> USE DEF PidsUnique, InApiNamespace, Alive
<1>1. ASSUME NEW b \in Batches, Spawn(b) PROVE PidsUnique'
  <2>1. PICK p \in Pids \ UsedPids : proc' = [proc EXCEPT ![b] = [ns |-> "api", pid |-> p]]
    BY <1>1 DEF Spawn
  <2>2. /\ p # ApiPid /\ p \notin foreign
        /\ \A c \in Batches : Alive(c) /\ InApiNamespace(c) => proc[c].pid # p
    BY <2>1 DEF UsedPids
  <2> QED
    BY <1>1, <2>1, <2>2 DEF TypeOK, Spawn, Goto, machineVars
<1>2. ASSUME NEW b \in Batches, RunInScheduler(b) PROVE PidsUnique'
  BY <1>2 DEF TypeOK, RunInScheduler, Goto, machineVars
<1>3. ASSUME \A b \in Batches : proc'[b] = proc[b] /\ (Alive(b)' => Alive(b)),
             foreign' \subseteq foreign
      PROVE  PidsUnique'
  BY <1>3
<1>4. ASSUME NEW b \in Batches, Advance(b) PROVE PidsUnique'
  <2>1. foreign' = foreign
    BY <1>4 DEF Advance, StartRun, NextSource, Extract, ExtractFails, CheckAfterExtract,
       ProcessItem, ProcessItemFails, UpdateProgress, EndSource, ClearRelationships,
       DetectRelationships, AfterSources, Finish, Exit, machineVars
  <2>2. UNCHANGED proc
    BY <1>4 DEF Advance, StartRun, NextSource, Extract, ExtractFails, CheckAfterExtract,
       ProcessItem, ProcessItemFails, UpdateProgress, EndSource, ClearRelationships,
       DetectRelationships, AfterSources, Finish, Exit
  <2>3. \A c \in Batches : Alive(c)' => Alive(c)
    BY <1>4 DEF TypeOK, Advance, StartRun, NextSource, Extract, ExtractFails,
       CheckAfterExtract, ProcessItem, ProcessItemFails, UpdateProgress, EndSource,
       ClearRelationships, DetectRelationships, AfterSources, Finish, Exit, Goto
  <2> QED
    BY <1>3, <2>1, <2>2, <2>3
<1>5. ASSUME NEW b \in Batches, Crash(b) PROVE PidsUnique'
  BY <1>3, <1>5 DEF TypeOK, Crash, machineVars
<1>6. ASSUME NEW h \in Handlers, Cancel(h) PROVE PidsUnique'
  <2>1. foreign' \subseteq foreign /\ UNCHANGED proc
    BY <1>6 DEF Cancel, Kill, SetFlag, ReadRun, KillBatch, KillApi, KillForeign,
       KillRefused, KillMissing, Recheck, WriteCancelled, CallFails, batchVars, machineVars
  <2>2. \A c \in Batches : Alive(c)' => Alive(c)
    BY <1>6 DEF TypeOK, Cancel, Kill, SetFlag, ReadRun, KillBatch, KillApi, KillForeign,
       KillRefused, KillMissing, Recheck, WriteCancelled, CallFails, batchVars
  <2> QED
    BY <1>3, <2>1, <2>2
<1>7. ASSUME NEW h \in Handlers, NEW b \in Batches, BeginCancel(h, b) PROVE PidsUnique'
  BY <1>7 DEF BeginCancel, batchVars, machineVars
<1>8. CASE ResetRuns
  BY <1>8 DEF ResetRuns, batchVars, machineVars
<1>9. ASSUME NEW p \in Pids, ForeignStart(p) PROVE PidsUnique'
  BY <1>9 DEF ForeignStart, UsedPids, batchVars
<1>10. ASSUME NEW p \in Pids, ForeignExit(p) PROVE PidsUnique'
  BY <1>10 DEF ForeignExit, batchVars
<1>11. CASE ApiRestart
  BY <1>3, <1>11 DEF TypeOK, ApiRestart
<1>12. CASE UNCHANGED vars
  BY <1>12 DEF vars, batchVars, machineVars
<1> QED
  BY <1>1, <1>2, <1>4, <1>5, <1>6, <1>7, <1>8, <1>9, <1>10, <1>11, <1>12 DEF Next, Launch

\* A stop request aims at the pid of the run that it was called for.
LEMMA KillAimedStep ==
  ASSUME TypeOK, RowsKnown, KillAimed, [Next]_vars PROVE KillAimed'
<1> SUFFICES ASSUME NEW h \in Handlers
             PROVE  /\ hpc'[h] # "idle" => pc'[hcall'[h].run] \notin {"unborn", "starting"}
                    /\ hpc'[h] = "kill" => hcall'[h].pid = proc'[hcall'[h].run].pid
  BY DEF KillAimed, Started
<1>a. hcall[h].run \in Batches
  BY DEF TypeOK
<1>b. \A b \in Batches : Started(b) => /\ pc'[b] \notin {"unborn", "starting"}
                                       /\ proc'[b] = proc[b]
  BY BatchMonotone DEF Started
<1>1. CASE /\ hpc'[h] = hpc[h] \/ (hpc[h] # "idle" /\ hpc'[h] = "failed")
           /\ hcall'[h] = hcall[h]
  BY <1>1, <1>a, <1>b DEF KillAimed
<1>2. CASE Cancel(h)
  <2>1. hpc[h] # "idle" /\ hcall'[h].run = hcall[h].run
    BY <1>2 DEF TypeOK, Cancel, Kill, SetFlag, ReadRun, KillBatch, KillApi, KillForeign,
       KillRefused, KillMissing, Recheck, WriteCancelled, CallFails, HandlerGoto
  <2>2. /\ pc'[hcall'[h].run] \notin {"unborn", "starting"}
        /\ proc'[hcall'[h].run] = proc[hcall[h].run]
    BY <2>1, <1>a, <1>b DEF KillAimed
  <2>3. hpc'[h] = "kill" => ReadRun(h) /\ Running(hcall[h].run)
    BY <1>2 DEF TypeOK, Cancel, Kill, SetFlag, ReadRun, KillBatch, KillApi, KillForeign,
       KillRefused, KillMissing, Recheck, WriteCancelled, CallFails, HandlerGoto
  <2>4. hpc'[h] = "kill" => hcall'[h].pid = proc[hcall[h].run].pid
    BY <2>3, <1>a DEF TypeOK, ReadRun, Running, RowsKnown, Exists
  <2> QED
    BY <2>2, <2>4
<1>3. ASSUME NEW b \in Batches, BeginCancel(h, b)
      PROVE  /\ hpc'[h] = "flag"
             /\ pc'[hcall'[h].run] \notin {"unborn", "starting"}
  BY <1>3, <1>b DEF TypeOK, BeginCancel, HandlerGoto, Started
<1> QED
  BY <1>1, <1>2, <1>3, HandlerSteps

\* After the signal no live batch of the API's namespace holds the pid it
\* went to: it was killed, or the pid belonged to someone else.
LEMMA SignalHits ==
  ASSUME TypeOK, PidsUnique, KillAimed, NEW h \in Handlers, Kill(h), hpc'[h] = "recheck",
         InApiNamespace(hcall[h].run)
  PROVE  pc'[hcall[h].run] = "gone"
<1> DEFINE b == hcall[h].run
<1>1. /\ hpc[h] = "kill" /\ b \in Batches
      /\ pc[b] # "unborn" /\ hcall[h].pid = proc[b].pid
  BY DEF TypeOK, KillAimed, Started, Kill, KillBatch, KillApi, KillForeign, KillRefused,
     KillMissing, HandlerGoto
<1>2. CASE KillBatch(h)
  <2>1. PICK c \in Batches : /\ Alive(c) /\ InApiNamespace(c) /\ proc[c].pid = hcall[h].pid
                             /\ pc' = [pc EXCEPT ![c] = "gone"]
    BY <1>2 DEF KillBatch
  <2>2. Alive(b) => b = c
    BY <1>1, <2>1 DEF PidsUnique
  <2> QED
    BY <1>1, <2>1, <2>2 DEF TypeOK, Alive
<1>3. CASE KillApi(h) \/ KillForeign(h) \/ KillMissing(h)
  <2>1. ~Alive(b)
    BY <1>1, <1>3 DEF PidsUnique, UsedPids, KillApi, KillForeign, KillMissing
  <2> QED
    BY <1>1, <1>3, <2>1 DEF Alive, KillApi, KillForeign, KillMissing, batchVars
<1>4. CASE KillRefused(h)
  BY <1>1, <1>4 DEF TypeOK, KillRefused, HandlerGoto
<1> QED
  BY <1>2, <1>3, <1>4 DEF Kill

\* A run that is declared force-stopped stays dead.
LEMMA ForceStoppedIsDeadStep ==
  ASSUME TypeOK, RowsKnown, KillConfirmed, ForceStoppedIsDead, [Next]_vars
  PROVE  ForceStoppedIsDead'
<1> SUFFICES ASSUME NEW b \in Batches, InApiNamespace(b)', ForceStopped(b)'
             PROVE  pc'[b] = "gone"
  BY DEF ForceStoppedIsDead, Alive
<1>1. CASE RowKept(b) \/ RowFlagged(b) \/ RowCounted(b)
  <2>1. Exists(b) /\ ForceStopped(b)
    BY <1>1 DEF TypeOK, Row, RowKept, RowFlagged, RowCounted, ForceStopped, Exists
  <2>2. Started(b) /\ InApiNamespace(b)
    BY <2>1, BatchMonotone DEF RowsKnown, InApiNamespace
  <2> QED
    BY <2>1, <2>2, BatchMonotone DEF ForceStoppedIsDead, Alive, Started
<1>2. CASE RowForced(b)
  <2>1. PICK h \in Handlers : hpc[h] = "write" /\ hcall[h].run = b /\ UNCHANGED batchVars
    BY <1>2 DEF RowForced
  <2> QED
    BY <2>1 DEF KillConfirmed, InApiNamespace, batchVars
<1>3. ~RowStarted(b) /\ ~RowReset(b) /\ ~RowFinished(b)
  <2>1. ~RowStarted(b) /\ ~RowReset(b)
    BY NewRowStatus DEF ForceStopped
  <2>2. rows[b] \in Row
    BY DEF TypeOK
  <2>3. ~RowFinished(b)
    BY <2>2 DEF Row, RowFinished, ForceStopped
  <2> QED
    BY <2>1, <2>3
<1> QED
  BY <1>1, <1>2, <1>3, RowSteps

\* Past the signal, the run that a stop request is about is dead.
LEMMA KillConfirmedStep ==
  ASSUME TypeOK, RowsKnown, PidsUnique, KillAimed, KillConfirmed, FinishedIsOver,
         [Next]_vars
  PROVE  KillConfirmed'
<1> SUFFICES ASSUME NEW h \in Handlers, hpc'[h] \in {"recheck", "write"},
                    proc'[hcall'[h].run].ns = "api"
             PROVE  /\ pc'[hcall'[h].run] = "gone"
                    /\ hpc'[h] = "write" /\ rows'[hcall'[h].run].status # "absent" =>
                         /\ \/ rows'[hcall'[h].run].status = "running"
                            \/ /\ rows'[hcall'[h].run].status = "cancelled"
                               /\ rows'[hcall'[h].run].log = "forced"
                         /\ rows'[hcall'[h].run].items = hcall'[h].items
  BY DEF KillConfirmed, InApiNamespace, Exists, Running, ForceStopped
<1> DEFINE b == hcall[h].run
<1>a. b \in Batches /\ rows[b] \in Row
  BY DEF TypeOK
<1>1. CASE hpc'[h] = hpc[h] /\ hcall'[h] = hcall[h]
  <2>1. Started(b) /\ proc'[b] = proc[b] /\ InApiNamespace(b)
    BY <1>1, <1>a, BatchMonotone DEF KillAimed, InApiNamespace
  <2>2. pc[b] = "gone" /\ pc'[b] = "gone"
    BY <1>1, <1>a, <2>1, BatchMonotone DEF KillConfirmed
  <2>3. ASSUME hpc[h] = "write", rows'[b].status # "absent"
        PROVE  /\ rows'[b].status = "running"
                    \/ (rows'[b].status = "cancelled" /\ rows'[b].log = "forced")
               /\ rows'[b].items = hcall[h].items
    <3>1. CASE RowKept(b) \/ RowFlagged(b)
      BY <2>1, <2>3, <3>1, <1>a DEF KillConfirmed, RowKept, RowFlagged, Exists, Running,
         ForceStopped, Row
    <3>2. CASE RowForced(b)
      <4>1. PICK g \in Handlers :
              /\ hpc[g] = "write" /\ hcall[g].run = b
              /\ rows'[b] = [rows[b] EXCEPT !.status = "cancelled",
                                            !.items = hcall[g].items, !.log = "forced"]
        BY <3>2 DEF RowForced
      <4>2. Exists(b) /\ rows[b].items = hcall[g].items /\ rows[b].items = hcall[h].items
        BY <2>1, <2>3, <3>2, <4>1 DEF KillConfirmed, RowForced
      <4> QED
        BY <4>1, <4>2, <1>a DEF Row
    <3>3. ~RowStarted(b) /\ ~RowCounted(b)
      BY <2>2 DEF RowStarted, RowCounted
    <3>4. ~RowFinished(b)
      BY <2>2 DEF RowFinished, Finish, Goto
    <3>5. ~RowReset(b)
      BY <2>3 DEF RowReset, NoRow
    <3> QED
      BY <1>a, <3>1, <3>2, <3>3, <3>4, <3>5, RowSteps
  <2> QED
    BY <1>1, <2>2, <2>3
<1>2. CASE Cancel(h) /\ hpc'[h] = "recheck"
  <2>1. Kill(h) /\ hcall'[h] = hcall[h]
    BY <1>2 DEF TypeOK, Cancel, Kill, SetFlag, ReadRun, KillBatch, KillApi, KillForeign,
       KillRefused, KillMissing, Recheck, WriteCancelled, CallFails, HandlerGoto
  <2>2. InApiNamespace(b)
    BY <2>1 DEF Kill, KillBatch, KillApi, KillForeign, KillRefused, KillMissing,
       InApiNamespace, batchVars
  <2> QED
    BY <1>2, <2>1, <2>2, SignalHits
<1>3. CASE Cancel(h) /\ hpc'[h] = "write"
  <2>1. Recheck(h)
    BY <1>3 DEF TypeOK, Cancel, Kill, SetFlag, ReadRun, KillBatch, KillApi, KillForeign,
       KillRefused, KillMissing, Recheck, WriteCancelled, CallFails, HandlerGoto
  <2>2. /\ hpc[h] = "recheck" /\ hcall'[h].run = b /\ hcall'[h].items = rows[b].items
        /\ Running(b) /\ UNCHANGED <<rows, pc, proc>>
    BY <1>3, <2>1 DEF TypeOK, Recheck, HandlerGoto, batchVars
  <2> QED
    BY <2>2 DEF KillConfirmed, InApiNamespace, Running
<1>4. ASSUME NEW c \in Batches, BeginCancel(h, c) PROVE FALSE
  BY <1>4 DEF TypeOK, BeginCancel, HandlerGoto
<1> QED
  BY <1>1, <1>2, <1>3, <1>4, HandlerSteps

\* A run with a terminal status never returns to its loop.
LEMMA FinishedIsOverStep ==
  ASSUME TypeOK, RowsKnown, KillConfirmed, FinishedIsOver, [Next]_vars
  PROVE  FinishedIsOver'
<1> SUFFICES ASSUME NEW b \in Batches, InApiNamespace(b)', rows'[b].status \in Terminal
             PROVE  pc'[b] \in {"closing", "gone"}
  BY DEF FinishedIsOver
<1>1. CASE RowKept(b) \/ RowFlagged(b) \/ RowCounted(b)
  <2>1. rows[b] \in Row
    BY DEF TypeOK
  <2>2. rows[b].status \in Terminal
    BY <1>1, <2>1 DEF Row, RowKept, RowFlagged, RowCounted
  <2>3. Started(b) /\ InApiNamespace(b)
    BY <2>2, BatchMonotone DEF RowsKnown, Exists, Terminal, InApiNamespace
  <2>4. pc[b] \in {"closing", "gone"}
    BY <2>2, <2>3 DEF FinishedIsOver
  <2>5. CASE Advance(b)
    BY <2>4, <2>5 DEF TypeOK, Advance, StartRun, NextSource, Extract, ExtractFails,
       CheckAfterExtract, ProcessItem, ProcessItemFails, UpdateProgress, EndSource,
       ClearRelationships, DetectRelationships, AfterSources, Finish, Exit, Goto
  <2>6. ~Launch(b)
    BY <2>4 DEF Launch, Spawn, RunInScheduler, Goto
  <2> QED
    BY <2>4, <2>5, <2>6, BatchSteps
<1>2. CASE RowFinished(b)
  BY <1>2 DEF TypeOK, RowFinished, Finish, Goto
<1>3. CASE RowForced(b)
  <2>1. PICK h \in Handlers : hpc[h] = "write" /\ hcall[h].run = b /\ UNCHANGED batchVars
    BY <1>3 DEF RowForced
  <2> QED
    BY <2>1 DEF KillConfirmed, InApiNamespace, batchVars
<1>4. ~RowStarted(b) /\ ~RowReset(b)
  BY NewRowStatus DEF Terminal
<1> QED
  BY <1>1, <1>2, <1>3, <1>4, RowSteps

\* Past the loop over the sources, all are done or a cancellation was seen.
LEMMA SourcesDoneStep ==
  ASSUME TypeOK, RowsKnown, SourcesDone, [Next]_vars
  PROVE  SourcesDone'
<1> SUFFICES ASSUME NEW b \in Batches
             PROVE  /\ pc'[b] \in {"cleanup", "relate", "finish"} =>
                         work'[b].cancelled \/ work'[b].source > NumSources
                    /\ rows'[b].status = "success" => pc'[b] \in {"closing", "gone"}
  BY DEF SourcesDone
<1>a. work[b] \in Work /\ rows[b] \in Row
  BY DEF TypeOK
<1>1. ASSUME pc'[b] \in {"cleanup", "relate", "finish"}
      PROVE  work'[b].cancelled \/ work'[b].source > NumSources
  <2>1. CASE pc'[b] = pc[b] /\ work'[b] = work[b]
    BY <1>1, <2>1 DEF SourcesDone
  <2>2. CASE NextSource(b)
    BY <1>1, <2>2, <1>a DEF TypeOK, NextSource, Goto, Work
  <2>3. CASE EndSource(b)
    BY <1>1, <2>3, <1>a DEF TypeOK, EndSource, Goto, Work
  <2>4. CASE ClearRelationships(b) \/ DetectRelationships(b)
    <3>1. pc[b] \in {"cleanup", "relate"}
      BY <2>4 DEF ClearRelationships, DetectRelationships, AfterSources, Goto
    <3>2. PICK fails : work' = [work EXCEPT ![b].failed = work[b].failed \/ fails]
      BY <2>4 DEF ClearRelationships, DetectRelationships, AfterSources
    <3>3. work'[b].cancelled = work[b].cancelled /\ work'[b].source = work[b].source
      BY <3>2, <1>a DEF TypeOK, Work
    <3> QED
      BY <3>1, <3>3 DEF SourcesDone
  <2>5. ~Launch(b)
    BY <1>1 DEF TypeOK, Launch, Spawn, RunInScheduler, Goto
  <2>6. Advance(b) => \/ NextSource(b) \/ EndSource(b)
                      \/ ClearRelationships(b) \/ DetectRelationships(b)
    BY <1>1 DEF TypeOK, Advance, StartRun, Extract, ExtractFails, CheckAfterExtract,
       ProcessItem, ProcessItemFails, UpdateProgress, Finish, Exit, Goto
  <2> QED
    BY <1>1, <2>1, <2>2, <2>3, <2>4, <2>5, <2>6, BatchSteps
<1>2. ASSUME rows'[b].status = "success" PROVE pc'[b] \in {"closing", "gone"}
  <2>1. CASE RowFinished(b)
    BY <2>1 DEF TypeOK, RowFinished, Finish, Goto
  <2>2. CASE rows[b].status = "success"
    <3>1. pc[b] \in {"closing", "gone"}
      BY <2>2 DEF SourcesDone
    <3>2. CASE Advance(b)
      BY <3>1, <3>2 DEF TypeOK, Advance, StartRun, NextSource, Extract, ExtractFails,
         CheckAfterExtract, ProcessItem, ProcessItemFails, UpdateProgress, EndSource,
         ClearRelationships, DetectRelationships, AfterSources, Finish, Exit, Goto
    <3>3. ~Launch(b)
      BY <3>1 DEF Launch, Spawn, RunInScheduler, Goto
    <3> QED
      BY <3>1, <3>2, <3>3, BatchSteps
  <2>3. RowKept(b) \/ RowFlagged(b) \/ RowCounted(b) => rows[b].status = "success"
    BY <1>2, <1>a DEF Row, RowKept, RowFlagged, RowCounted
  <2>4. ~RowStarted(b) /\ ~RowReset(b)
    BY <1>2, NewRowStatus
  <2>5. ~RowForced(b)
    BY <1>2, <1>a DEF Row, RowForced
  <2> QED
    BY <2>1, <2>2, <2>3, <2>4, <2>5, RowSteps
<1> QED
  BY <1>1, <1>2

\* Every step keeps SuccessIsEarned.
LEMMA SuccessIsEarnedStep ==
  ASSUME TypeOK, RowsKnown, SourcesDone, SuccessIsEarned, [Next]_vars
  PROVE  SuccessIsEarned'
<1> SUFFICES ASSUME NEW b \in Batches, rows'[b].status = "success"
             PROVE  /\ work'[b].source > NumSources
                    /\ ~work'[b].failed /\ ~work'[b].cancelled
                    /\ rows'[b].items = work'[b].processed
  BY DEF SuccessIsEarned
<1>a. work[b] \in Work /\ rows[b] \in Row
  BY DEF TypeOK
<1>1. CASE RowFinished(b)
  <2>1. /\ pc[b] = "finish" /\ work' = work
        /\ FinalStatus(b) = "success" /\ rows'[b].items = work[b].processed
    BY <1>1, <1>a DEF Row, RowFinished, Finish, Goto
  <2>2. ~work[b].cancelled /\ ~work[b].failed
    BY <2>1 DEF FinalStatus
  <2> QED
    BY <2>1, <2>2 DEF SourcesDone
<1>2. CASE rows[b].status = "success" /\ rows'[b].items = rows[b].items
  <2>1. pc[b] \in {"closing", "gone"}
    BY <1>2 DEF SourcesDone
  <2>2. work'[b] = work[b]
    <3>1. CASE Advance(b)
      BY <2>1, <3>1 DEF Advance, StartRun, NextSource, Extract, ExtractFails,
         CheckAfterExtract, ProcessItem, ProcessItemFails, UpdateProgress, EndSource,
         ClearRelationships, DetectRelationships, AfterSources, Finish, Exit, Goto
    <3>2. ~Launch(b)
      BY <2>1 DEF Launch, Spawn, RunInScheduler, Goto
    <3> QED
      BY <3>1, <3>2, BatchSteps
  <2> QED
    BY <1>2, <2>2 DEF SuccessIsEarned
<1>3. RowKept(b) \/ RowFlagged(b) =>
        rows[b].status = "success" /\ rows'[b].items = rows[b].items
  BY <1>a DEF Row, RowKept, RowFlagged
<1>4. ~RowCounted(b)
  <2>1. RowCounted(b) => rows[b].status = "success" /\ pc[b] = "progress"
    BY <1>a DEF Row, RowCounted
  <2> QED
    BY <2>1 DEF SourcesDone
<1>5. ~RowStarted(b) /\ ~RowReset(b)
  BY NewRowStatus
<1>6. ~RowForced(b)
  BY <1>a DEF Row, RowForced
<1> QED
  BY <1>1, <1>2, <1>3, <1>4, <1>5, <1>6, RowSteps

\* Every step keeps CountIsCommitted.
LEMMA CountIsCommittedStep ==
  ASSUME TypeOK, CountIsCommitted, CountsBounded, [Next]_vars
  PROVE  CountIsCommitted'
<1> SUFFICES ASSUME NEW b \in Batches PROVE rows'[b].items <= work'[b].processed
  BY DEF CountIsCommitted
<1>a. work[b] \in Work /\ rows[b] \in Row
  BY DEF TypeOK
<1>b. work'[b] \in Work
  BY NextTyped DEF TypeOK
<1>c. work[b].processed <= work'[b].processed
  BY BatchMonotone
<1>1. CASE rows'[b].items = rows[b].items
  BY <1>1, <1>a, <1>b, <1>c DEF CountIsCommitted, Row, Work
<1>2. RowKept(b) \/ RowFlagged(b) => rows'[b].items = rows[b].items
  BY <1>a DEF Row, RowKept, RowFlagged
<1>3. CASE RowCounted(b) \/ RowFinished(b)
  <2>1. rows'[b].items = work[b].processed
    BY <1>3, <1>a DEF Row, RowCounted, RowFinished
  <2> QED
    BY <2>1, <1>c
<1>4. CASE RowForced(b)
  <2>1. PICK h \in Handlers :
          /\ hpc[h] = "write" /\ hcall[h].run = b
          /\ rows'[b] = [rows[b] EXCEPT !.status = "cancelled",
                                        !.items = hcall[h].items, !.log = "forced"]
    BY <1>4 DEF RowForced
  <2>2. rows'[b].items = hcall[h].items /\ hcall[h].items \in Nat
    BY <2>1, <1>a DEF TypeOK, Row
  <2>3. hcall[h].items <= work[b].processed
    BY <2>1 DEF CountsBounded
  <2> QED
    BY <2>2, <2>3, <1>a, <1>b, <1>c DEF Work
<1>5. CASE RowStarted(b) \/ RowReset(b)
  BY <1>5, <1>b, NewRowStatus DEF Work
<1> QED
  BY <1>1, <1>2, <1>3, <1>4, <1>5, RowSteps

\* A stop request's copy of the count is no higher than the batch's own.
LEMMA CountsBoundedStep ==
  ASSUME TypeOK, CountIsCommitted, CountsBounded, [Next]_vars
  PROVE  CountsBounded'
<1> SUFFICES ASSUME NEW h \in Handlers, hpc'[h] = "write"
             PROVE  hcall'[h].items <= work'[hcall'[h].run].processed
  BY DEF CountsBounded
<1> DEFINE b == hcall[h].run
<1>a. b \in Batches /\ work[b] \in Work /\ rows[b] \in Row /\ hcall[h].items \in Nat
  BY DEF TypeOK
<1>b. work'[b] \in Work /\ work[b].processed <= work'[b].processed
  BY <1>a, NextTyped, BatchMonotone DEF TypeOK
<1>1. CASE hpc'[h] = hpc[h] /\ hcall'[h] = hcall[h]
  BY <1>1, <1>a, <1>b DEF CountsBounded, Work
<1>2. CASE Cancel(h)
  <2>1. Recheck(h)
    BY <1>2 DEF TypeOK, Cancel, Kill, SetFlag, ReadRun, KillBatch, KillApi, KillForeign,
       KillRefused, KillMissing, Recheck, WriteCancelled, CallFails, HandlerGoto
  <2>2. hcall'[h].run = b /\ hcall'[h].items = rows[b].items
    BY <2>1 DEF TypeOK, Recheck
  <2> QED
    BY <2>2, <1>a, <1>b DEF CountIsCommitted, Row, Work
<1>3. ASSUME NEW c \in Batches, BeginCancel(h, c) PROVE FALSE
  BY <1>3 DEF TypeOK, BeginCancel, HandlerGoto
<1> QED
  BY <1>1, <1>2, <1>3, HandlerSteps

-----------------------------------------------------------------------------
(* The theorems.                                                            *)

\* The invariant holds initially.
LEMMA InitInv == Init => IInv
<1> SUFFICES ASSUME Init PROVE IInv
  OBVIOUS
<1>1. TypeOK
  BY InitTyped
<1>2. \A b \in Batches : /\ rows[b].status = "absent" /\ rows[b].items = 0
                         /\ pc[b] = "unborn" /\ work[b].processed = 0
  BY DEF Init, NoRow
<1>3. \A h \in Handlers : hpc[h] = "idle"
  BY DEF Init
<1> QED
  BY <1>1, <1>2, <1>3 DEF IInv, RowsKnown, PidsUnique, KillAimed, KillConfirmed,
     ForceStoppedIsDead, FinishedIsOver, SourcesDone, SuccessIsEarned, CountIsCommitted,
     CountsBounded, Exists, Alive, ForceStopped, Terminal

\* Every step, and every stutter, keeps the invariant.
LEMMA NextInv == IInv /\ [Next]_vars => IInv'
BY NextTyped, RowsKnownStep, PidsUniqueStep, KillAimedStep, KillConfirmedStep,
   ForceStoppedIsDeadStep, FinishedIsOverStep, SourcesDoneStep, SuccessIsEarnedStep,
   CountIsCommittedStep, CountsBoundedStep DEF IInv

\* The inductive invariant holds in every reachable state.
THEOREM Invariance == Spec => []IInv
BY InitInv, NextInv, PTL DEF Spec

\* cancel_ingestion() declares a run force-stopped only when its process is
\* gone, for every run whose process lives in the API's pid namespace: with
\* any number of concurrent Stops, crashes, pid reuse and API restarts.
THEOREM ForceStoppedRunsAreDead == Spec => []ForceStoppedIsDead
BY Invariance, PTL DEF IInv

\* Only a run that went through every source without a failure and without a
\* cancellation is recorded as a success and moves the watermark.
THEOREM SuccessesAreEarned == Spec => []SuccessIsEarned
BY Invariance, PTL DEF IInv

\* The item count of a row never exceeds what its batch has stored.
THEOREM CountsAreCommitted == Spec => []CountIsCommitted
BY Invariance, PTL DEF IInv

\* Nobody rewrites the outcome of a finished run of the API's namespace.
THEOREM FinishedRunsAreFrozen == Spec => FinishedIsFrozen
<1> DEFINE Frozen(b) ==
      InApiNamespace(b) /\ rows[b].status \in Terminal =>
         \/ rows'[b].status = "absent"
         \/ /\ rows'[b].status = rows[b].status
            /\ rows'[b].items = rows[b].items
            /\ rows'[b].log = rows[b].log
<1>1. IInv /\ [Next]_vars => \A b \in Batches : Frozen(b)
  <2> SUFFICES ASSUME IInv, [Next]_vars, NEW b \in Batches, InApiNamespace(b),
                      rows[b].status \in Terminal
               PROVE  \/ rows'[b].status = "absent"
                      \/ /\ rows'[b].status = rows[b].status
                         /\ rows'[b].items = rows[b].items
                         /\ rows'[b].log = rows[b].log
    OBVIOUS
  <2>a. TypeOK /\ rows[b] \in Row /\ pc[b] \in {"closing", "gone"}
    BY DEF IInv, TypeOK, FinishedIsOver
  <2>1. CASE RowKept(b) \/ RowFlagged(b)
    BY <2>1, <2>a DEF Row, RowKept, RowFlagged
  <2>2. CASE RowForced(b)
    <3>1. PICK h \in Handlers :
            /\ hpc[h] = "write" /\ hcall[h].run = b
            /\ rows'[b] = [rows[b] EXCEPT !.status = "cancelled",
                                          !.items = hcall[h].items, !.log = "forced"]
      BY <2>2 DEF RowForced
    <3>2. ForceStopped(b) /\ rows[b].items = hcall[h].items
      BY <3>1 DEF IInv, KillConfirmed, Exists, Running, Terminal
    <3> QED
      BY <3>1, <3>2, <2>a DEF Row, ForceStopped
  <2>3. ~RowStarted(b) /\ ~RowCounted(b) /\ ~RowFinished(b)
    BY <2>a DEF RowStarted, RowCounted, RowFinished, Finish, Goto
  <2>4. CASE RowReset(b)
    BY <2>4, NewRowStatus
  <2> QED
    BY <2>a, <2>1, <2>2, <2>3, <2>4, RowSteps
<1> QED
  BY <1>1, Invariance, PTL DEF Spec, FinishedIsFrozen

=============================================================================
