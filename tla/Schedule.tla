------------------------------ MODULE Schedule ------------------------------
(***************************************************************************)
(* The scheduler container: run_forever() polls the clock and config.yaml  *)
(* and runs a batch, in its own process, whenever the schedule has come    *)
(* due since the last check.                                               *)
(*                                                                         *)
(* Time is counted in polls. A schedule is the set of its fire times. The  *)
(* file is written in place by the API: while it is, it reads as empty,    *)
(* which is every setting's default, or as cut off, which is no YAML.      *)
(***************************************************************************)
EXTENDS Naturals

CONSTANTS
  Schedules,     \* the schedules a user sets
  Default,       \* the schedule of an empty file
  FireTimes(_),  \* of a schedule
  MaxTime,       \* bound
  MaxWrites      \* bound: how often the API writes the file

Assumptions ==
  /\ MaxTime \in Nat /\ MaxWrites \in Nat
  /\ \A s \in Schedules \cup {Default} : FireTimes(s) \subseteq Nat

VARIABLES
  time,
  file,      \* config.yaml
  schedule,  \* what the file says when it is whole
  writes,
  loop,      \* run_forever(): its place, last_check and now
  due        \* history: the fire times that have passed and had no run yet

loopVars == <<time, file, schedule, writes, loop, due>>

TypeOK ==
  /\ time \in 0..MaxTime
  /\ file \in {"whole", "empty", "cut"}
  /\ schedule \in Schedules
  /\ writes \in 0..MaxWrites
  /\ loop \in [pc : {"down", "sleeping", "batch"}, lastCheck : 0..MaxTime, now : 0..MaxTime]
  /\ due \subseteq 0..MaxTime

Init ==
  /\ time = 0
  /\ file = "whole" /\ schedule \in Schedules
  /\ writes = 0
  /\ loop = [pc |-> "sleeping", lastCheck |-> 0, now |-> 0]
  /\ due = {}

-----------------------------------------------------------------------------
\* A container that is down owes nothing: the loop starts with its own clock.
Tick ==
  /\ time < MaxTime
  /\ time' = time + 1
  /\ due' = IF time' \in FireTimes(schedule) /\ loop.pc # "down"
            THEN due \cup {time'} ELSE due
  /\ UNCHANGED <<file, schedule, writes, loop>>

\* PUT /settings, or the user's editor.
OpenForWriting ==
  /\ file = "whole" /\ writes < MaxWrites
  /\ writes' = writes + 1
  /\ file' = "empty"
  /\ UNCHANGED <<time, schedule, loop, due>>
WriteSome ==
  /\ file = "empty"
  /\ file' = "cut"
  /\ UNCHANGED <<time, schedule, writes, loop, due>>
\* With another schedule, the fire times of the old one are no longer owed.
WriteAll ==
  /\ file = "cut"
  /\ file' = "whole"
  /\ \E s \in Schedules :
       /\ schedule' = s
       /\ due' = IF s = schedule THEN due ELSE {}
  /\ UNCHANGED <<time, writes, loop>>

\* reload_settings()
Read == IF file = "empty" THEN Default ELSE schedule

\* _should_run(): is the first fire time after last_check past?
ShouldRun(s, lastCheck, now) == \E f \in FireTimes(s) : lastCheck < f /\ f <= now

\* A poll that finds nothing due. One that read the defaults instead has missed
\* what was.
PollIdle ==
  /\ loop.pc = "sleeping" /\ loop.lastCheck < time
  /\ file # "cut" /\ ~ShouldRun(Read, loop.lastCheck, time)
  /\ loop' = [loop EXCEPT !.lastCheck = time]
  /\ due' = IF file = "empty" THEN {} ELSE due
  /\ UNCHANGED <<time, file, schedule, writes>>

\* One run for all that has come due since the last check.
PollRun ==
  /\ loop.pc = "sleeping" /\ loop.lastCheck < time
  /\ file # "cut" /\ ShouldRun(Read, loop.lastCheck, time)
  /\ loop' = [loop EXCEPT !.pc = "batch", !.now = time]
  /\ due' = {}
  /\ UNCHANGED <<time, file, schedule, writes>>

\* The batch ends, or fails, which is logged. The check was at the time of the
\* poll, however long the batch took.
\* Mutant of EndBatch: the check was now.
EndBatchNow ==
  /\ loop.pc = "batch"
  /\ loop' = [loop EXCEPT !.pc = "sleeping", !.lastCheck = time]
  /\ UNCHANGED <<time, file, schedule, writes, due>>
EndBatch ==
  /\ loop.pc = "batch"
  /\ loop' = [loop EXCEPT !.pc = "sleeping", !.lastCheck = loop.now]
  /\ UNCHANGED <<time, file, schedule, writes, due>>

\* A ConfigError, which nothing catches, ends the loop; so does a kill.
Stop == loop' = [loop EXCEPT !.pc = "down"] /\ due' = {}
PollFails ==
  /\ loop.pc = "sleeping" /\ loop.lastCheck < time /\ file = "cut"
  /\ Stop
  /\ UNCHANGED <<time, file, schedule, writes>>
Killed ==
  /\ loop.pc # "down"
  /\ Stop
  /\ UNCHANGED <<time, file, schedule, writes>>

\* restart: unless-stopped
StartLoop ==
  /\ loop.pc = "down"
  /\ loop' = [pc |-> "sleeping", lastCheck |-> time, now |-> time]
  /\ UNCHANGED <<time, file, schedule, writes, due>>

Poll == PollIdle \/ PollRun \/ PollFails
Next ==
  \/ Tick \/ OpenForWriting \/ WriteSome \/ WriteAll
  \/ PollIdle \/ PollRun \/ PollFails \/ EndBatch \/ Killed \/ StartLoop

Spec == Init /\ [][Next]_loopVars
\* Sleeps and batches end; Docker starts the container again.
Fairness == WF_loopVars(Poll \/ EndBatch \/ StartLoop)

-----------------------------------------------------------------------------
(* Property.                                                               *)

\* Every fire time of the schedule is followed by a run that starts after it,
\* those that fall into a long batch included: unless the loop ends first, the
\* schedule is changed, or a poll reads the file while it is empty.
FireTimesAreServed == \A f \in 0..MaxTime : []<>(f \notin due)
=============================================================================
