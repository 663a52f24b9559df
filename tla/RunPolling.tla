----------------------------- MODULE RunPolling -----------------------------
(***************************************************************************)
(* How the browser follows an ingestion that it has triggered. The route   *)
(* spawns a batch and answers with a label that no row has; App then polls *)
(* for the last run of the table, and takes it for the one triggered if it *)
(* began no earlier than the click, with some slack for the clocks.        *)
(*                                                                         *)
(* A poll is a request, whose answer may be late, and a timer before the   *)
(* next. A second trigger clears the timer, but not a request under way,   *)
(* so that two pollings may go on side by side.                            *)
(*                                                                         *)
(* Of the times only their comparison is left: a run begun after the click *)
(* counts as recent, as the slack covers the skew of the clocks, and so do *)
(* any of the last begun before it.                                        *)
(***************************************************************************)
EXTENDS Naturals, Sequences, FiniteSets, FiniteSetsExt

CONSTANTS
  Triggers,  \* the clicks on "Run ingestion now", numbered
  MaxPolls,  \* INGEST_POLL_MAX_ATTEMPTS
  MaxRuns    \* bound: the rows of ingestion_runs

Assumptions ==
  /\ Triggers \subseteq Nat \ {0} /\ IsFiniteSet(Triggers)
  /\ {MaxPolls, MaxRuns} \subseteq Nat

VARIABLES
  runs,      \* ingestion_runs by run_started_at
  launched,  \* the batches spawned that have no row yet
  poll,      \* poll[k]: the trigger k and its polling; from: the first run it counts
             \* as recent
  timer,     \* ingestPollTimeout: the polling that set it last
  shown      \* ingestionStatus

pollVars == <<runs, launched, poll, timer, shown>>

Nobody == 0
NoRun == 0

\* by: the trigger, or nobody for a scheduled run; there: until a reset.
Run == [by : Triggers \cup {Nobody}, over : BOOLEAN, there : BOOLEAN]

\* An answer: the last run, and whether it was over. For history, the run of the
\* trigger, if it was in the table.
Answer == [run : 0..MaxRuns, over : BOOLEAN, own : 0..MaxRuns]
NoAnswer == [run |-> NoRun, over |-> FALSE, own |-> NoRun]

Underway == {"asking", "answered", "waiting"}
GaveUp == {"slow", "silent"}
TypeOK ==
  /\ runs \in Seq(Run) /\ Len(runs) <= MaxRuns
  /\ launched \subseteq Triggers
  /\ poll \in [Triggers -> [pc : {"idle", "posting", "spawned", "refused", "reported",
                                  "cleared"} \cup Underway \cup GaveUp,
                            from : 1..MaxRuns + 1, attempt : 0..MaxPolls, answer : Answer]]
  /\ timer \in Triggers \cup {Nobody}
  /\ shown \in [by : Triggers \cup {Nobody}, answer : Answer]

Init ==
  /\ runs = <<>> /\ launched = {}
  /\ poll = [k \in Triggers |-> [pc |-> "idle", from |-> 1, attempt |-> 0,
                                 answer |-> NoAnswer]]
  /\ timer = Nobody
  /\ shown = [by |-> Nobody, answer |-> NoAnswer]

-----------------------------------------------------------------------------
(* The machine.                                                            *)

\* A batch enters its row: one that was triggered, or the scheduler's.
StartRun(k) ==
  /\ Len(runs) < MaxRuns
  /\ k \in launched \cup {Nobody}
  /\ launched' = launched \ {k}
  /\ runs' = Append(runs, [by |-> k, over |-> FALSE, there |-> TRUE])
  /\ UNCHANGED <<poll, timer, shown>>

\* It ends, or is stopped.
EndRun(r) ==
  /\ ~runs[r].over
  /\ runs' = [runs EXCEPT ![r].over = TRUE]
  /\ UNCHANGED <<launched, poll, timer, shown>>

\* Reset all data.
Reset ==
  /\ runs' = [r \in DOMAIN runs |-> [runs[r] EXCEPT !.there = FALSE]]
  /\ UNCHANGED <<launched, poll, timer, shown>>

\* POST /ingest/trigger: the batch is spawned, or the request fails.
Spawn(k) ==
  /\ poll[k].pc = "posting"
  /\ launched' = launched \cup {k}
  /\ poll' = [poll EXCEPT ![k].pc = "spawned"]
  /\ UNCHANGED <<runs, timer, shown>>
Refuse(k) ==
  /\ poll[k].pc = "posting"
  /\ poll' = [poll EXCEPT ![k].pc = "refused"]
  /\ UNCHANGED <<runs, launched, timer, shown>>

\* For history: the row of trigger k.
OwnRun(k) == Max({NoRun} \cup {r \in DOMAIN runs : runs[r].by = k /\ runs[r].there})

\* GET /sources/status: get_last_ingestion_run().
LastRun == Max({NoRun} \cup {r \in DOMAIN runs : runs[r].there})
ServeStatus(k) ==
  /\ poll[k].pc = "asking"
  /\ LET last == LastRun IN
       poll' = [poll EXCEPT
                  ![k].pc = "answered",
                  ![k].answer = [run |-> last, own |-> OwnRun(k),
                                 over |-> IF last = NoRun THEN FALSE ELSE runs[last].over]]
  /\ UNCHANGED <<runs, launched, timer, shown>>

-----------------------------------------------------------------------------
(* The browser.                                                            *)

\* handleTriggerIngestion(): the button of the screen or of the wizard. Each is
\* disabled while its own request runs, but not the other.
Trigger(k) ==
  /\ poll[k].pc = "idle"
  /\ \A j \in Triggers : j < k => poll[j].pc # "idle"
  /\ \E from \in 1..Len(runs) + 1 :
       poll' = [poll EXCEPT ![k].pc = "posting", ![k].from = from]
  /\ UNCHANGED <<runs, launched, timer, shown>>

\* The timer that was set last is cleared, if it has not fired yet.
BeginPolling(k) ==
  /\ poll[k].pc = "spawned"
  /\ shown' = [by |-> k, answer |-> NoAnswer]
  /\ poll' = [j \in Triggers |->
                IF j = k THEN [poll[k] EXCEPT !.pc = "asking"]
                ELSE IF j = timer /\ poll[j].pc = "waiting"
                     THEN [poll[j] EXCEPT !.pc = "cleared"] ELSE poll[j]]
  /\ UNCHANGED <<runs, launched, timer>>

TimerFires(k) ==
  /\ poll[k].pc = "waiting"
  /\ poll' = [poll EXCEPT ![k].pc = "asking"]
  /\ UNCHANGED <<runs, launched, timer, shown>>

\* Poll k is over with an outcome, or sets its timer again.
PollAgain(k, end) ==
  IF poll[k].attempt < MaxPolls
  THEN /\ timer' = k
       /\ poll' = [poll EXCEPT ![k].pc = "waiting", ![k].attempt = @ + 1,
                               ![k].answer = NoAnswer]
  ELSE /\ UNCHANGED timer
       /\ poll' = [poll EXCEPT ![k].pc = end, ![k].answer = NoAnswer]
Report(k) ==
  /\ UNCHANGED timer
  /\ poll' = [poll EXCEPT ![k].pc = "reported", ![k].answer = NoAnswer]

\* Did the run begin at triggeredAt, less the slack, or later?
IsThisRun(k) == poll[k].answer.run # NoRun /\ poll[k].answer.run >= poll[k].from

\* The answer arrives.
\* Mutant of TakeStatus: a run that is not the one triggered ends the polling.
TakeStatusOnce(k) ==
  /\ poll[k].pc = "answered"
  /\ shown' = IF IsThisRun(k) THEN [by |-> k, answer |-> poll[k].answer] ELSE shown
  /\ IF ~IsThisRun(k) \/ poll[k].answer.over THEN Report(k) ELSE PollAgain(k, "slow")
  /\ UNCHANGED <<runs, launched>>
TakeStatus(k) ==
  /\ poll[k].pc = "answered"
  /\ shown' = IF IsThisRun(k) THEN [by |-> k, answer |-> poll[k].answer] ELSE shown
  /\ IF IsThisRun(k) /\ poll[k].answer.over THEN Report(k) ELSE PollAgain(k, "slow")
  /\ UNCHANGED <<runs, launched>>

\* The request fails; after the last attempt, nothing is said.
StatusFails(k) ==
  /\ poll[k].pc = "asking"
  /\ PollAgain(k, "silent")
  /\ UNCHANGED <<runs, launched, shown>>

-----------------------------------------------------------------------------
Serve(k) == Spawn(k) \/ Refuse(k) \/ ServeStatus(k)
Follow(k) == BeginPolling(k) \/ TimerFires(k) \/ TakeStatus(k) \/ StatusFails(k)
Next ==
  \/ Reset
  \/ \E k \in Triggers \cup {Nobody} : StartRun(k)
  \/ \E r \in DOMAIN runs : EndRun(r)
  \/ \E k \in Triggers : Trigger(k) \/ Serve(k) \/ Follow(k)

Spec == Init /\ [][Next]_pollVars

-----------------------------------------------------------------------------
(* Property.                                                               *)

\* The run that the Settings screen shows. "Running" is never left standing: the
\* polling that put it there goes on, or has given up, however pollings overlap.
\* "Finished" is true of the run. And a run shown for a trigger is not older than
\* the one triggered, once that had its row when the table was read: only
\* before that, one begun just before the click is taken for it.
ShownRunIsFollowed ==
  LET k == shown.by
      r == shown.answer.run
  IN /\ k # Nobody /\ ~shown.answer.over => poll[k].pc \in Underway \cup GaveUp
     /\ shown.answer.over => runs[r].over
     /\ shown.answer.own <= r
=============================================================================
