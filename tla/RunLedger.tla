----------------------------- MODULE RunLedger -----------------------------
(***************************************************************************)
(* What ingestion_runs promises to those who read it: the status line, the *)
(* Stop button and the watermark. A run is launched, announced as running, *)
(* stores items and reports their count, and is settled once: by itself    *)
(* with all that it stored, or, when its process is gone, as force-stopped *)
(* with what was last reported. How stop requests, signals, pids and the   *)
(* steps of a batch bring that about is left to IngestionRuns.             *)
(***************************************************************************)
EXTENDS Naturals

CONSTANT Runs

VARIABLE run  \* run[r]: the process of r, what it has stored, and its row

Outcomes == {"success", "partial_failure", "failed", "cancelled"}

Unseen == [phase |-> "unborn", stored |-> 0, status |-> "absent", items |-> 0,
           log |-> "null"]

Init == run = [r \in Runs |-> Unseen]

Launch(r) ==
  /\ run[r].phase = "unborn"
  /\ run' = [run EXCEPT ![r].phase = "launched"]

Announce(r) ==
  /\ run[r].phase = "launched" /\ run[r].status = "absent"
  /\ run' = [run EXCEPT ![r] = [@ EXCEPT !.phase = "working", !.status = "running"]]

Store(r) ==
  /\ run[r].phase = "working"
  /\ run' = [run EXCEPT ![r].stored = @ + 1]

\* The count on the row becomes exact; it may lag behind for as long as it likes.
Report(r) ==
  /\ run[r].phase = "working" /\ run[r].status = "running"
  /\ run' = [run EXCEPT ![r].items = run[r].stored]

\* The run says how it ended, with all that it stored; a row that is gone stays
\* gone.
Settle(r) ==
  /\ run[r].phase = "working"
  /\ \/ /\ run[r].status = "absent"
        /\ run' = [run EXCEPT ![r].phase = "done"]
     \/ /\ run[r].status = "running"
        /\ \E s \in Outcomes :
             run' = [run EXCEPT ![r] =
                       [@ EXCEPT !.phase = "done", !.status = s, !.items = run[r].stored,
                                 !.log = IF s = "success" THEN "null" ELSE "errors"]]

\* Only a run that nobody works on any more is declared stopped.
ForceStop(r) ==
  /\ run[r].phase = "gone" /\ run[r].status = "running"
  /\ run' = [run EXCEPT ![r] = [@ EXCEPT !.status = "cancelled", !.log = "forced"]]

\* Processes end at any time, several at once.
Die(R) ==
  /\ \A r \in R : run[r].phase # "unborn"
  /\ run' = [r \in Runs |-> IF r \in R THEN [run[r] EXCEPT !.phase = "gone"] ELSE run[r]]

\* All rows are deleted. The runs go on, and are not announced again.
Forget ==
  run' = [r \in Runs |-> [run[r] EXCEPT !.status = "absent", !.items = 0, !.log = "null"]]

Next ==
  \/ \E r \in Runs : Launch(r) \/ Announce(r) \/ Store(r) \/ Report(r) \/ Settle(r)
                     \/ ForceStop(r)
  \/ \E R \in SUBSET Runs : Die(R)
  \/ Forget

Spec == Init /\ [][Next]_run
=============================================================================
