------------------------- MODULE ConnectionChecks -------------------------
(***************************************************************************)
(* The cached connection checks behind the Settings screen: two globals,   *)
(* the result and its time, read and written by the threads of the API     *)
(* without a lock. Reverify asks for a check whatever the cache has.       *)
(*                                                                         *)
(* A check takes any time; the statements around it take none. A result    *)
(* stands for what its check saw, from its beginning on: the settings are  *)
(* read then, and each of the six sources after that.                      *)
(***************************************************************************)
EXTENDS Naturals

CONSTANTS
  Requests,  \* threads that serve GET and POST /sources/connections
  MaxAge,    \* _DEFAULT_MAX_AGE_SECONDS
  MaxTime    \* bound

Assumptions == MaxAge \in Nat \ {0} /\ MaxTime \in Nat /\ "nobody" \notin Requests

VARIABLES
  now,
  cache,      \* _cache: the result, None at first
  cacheTime,  \* _cache_time
  request     \* request[r]

checkVars == <<now, cache, cacheTime, request>>

Time == 0..MaxTime
None == [began |-> 0, ended |-> 0, by |-> "nobody"]
Result == [began : Time, ended : Time, by : Requests] \cup {None}
NoTime == MaxTime + 1

\* `later`: another check was stored after the request's own, before it answered.
Request == [pc : {"idle", "asked", "checking", "stored", "timed", "answered"},
            forced : BOOLEAN, since : Time, began : Time, answer : Result,
            later : BOOLEAN]
Idle == [pc |-> "idle", forced |-> FALSE, since |-> 0, began |-> 0, answer |-> None,
         later |-> FALSE]

TypeOK ==
  /\ now \in Time
  /\ cache \in Result
  /\ cacheTime \in Time \cup {NoTime}
  /\ request \in [Requests -> Request]

Init ==
  /\ now = 0
  /\ cache = None /\ cacheTime = NoTime
  /\ request = [r \in Requests |-> Idle]

\* Only a check lets time pass.
Tick ==
  /\ now < MaxTime
  /\ \A r \in Requests : request[r].pc \in {"idle", "checking", "answered"}
  /\ now' = now + 1
  /\ UNCHANGED <<cache, cacheTime, request>>

Ask(r) ==
  /\ request[r].pc \in {"idle", "answered"}
  /\ \E forced \in BOOLEAN :
       request' = [request EXCEPT ![r] = [Idle EXCEPT !.pc = "asked", !.forced = forced,
                                                      !.since = now]]
  /\ UNCHANGED <<now, cache, cacheTime>>

Answered(r) == [request EXCEPT ![r].pc = "answered", ![r].answer = cache]

\* get_connection_status(): the age is that of the time, whatever the cache holds.
Cached == cache # None /\ cacheTime # NoTime /\ now - cacheTime < MaxAge
\* Mutant of Hit: an answer from the cache renews its time.
HitAndRenew(r) ==
  /\ request[r].pc = "asked" /\ ~request[r].forced /\ Cached
  /\ request' = Answered(r)
  /\ cacheTime' = now
  /\ UNCHANGED <<now, cache>>
Hit(r) ==
  /\ request[r].pc = "asked" /\ ~request[r].forced /\ Cached
  /\ request' = Answered(r)
  /\ UNCHANGED <<now, cache, cacheTime>>

BeginCheck(r) ==
  /\ request[r].pc = "asked" /\ (request[r].forced \/ ~Cached)
  /\ request' = [request EXCEPT ![r].pc = "checking", ![r].began = now]
  /\ UNCHANGED <<now, cache, cacheTime>>

\* Each source is ok, in error or not configured; no check raises.
EndCheck(r) ==
  /\ request[r].pc = "checking"
  /\ cache' = [began |-> request[r].began, ended |-> now, by |-> r]
  /\ request' = [s \in Requests |->
                   IF s = r THEN [request[r] EXCEPT !.pc = "stored"]
                   ELSE [request[s] EXCEPT !.later = @ \/ request[s].pc \in {"stored", "timed"}]]
  /\ UNCHANGED <<now, cacheTime>>

SetTime(r) ==
  /\ request[r].pc = "stored"
  /\ cacheTime' = now
  /\ request' = [request EXCEPT ![r].pc = "timed"]
  /\ UNCHANGED <<now, cache>>

\* What is returned is the global, not what this request has stored.
Return(r) ==
  /\ request[r].pc = "timed"
  /\ request' = Answered(r)
  /\ UNCHANGED <<now, cache, cacheTime>>

\* The API starts anew, its globals with it.
Restart ==
  /\ cache' = None /\ cacheTime' = NoTime
  /\ request' = [r \in Requests |-> Idle]
  /\ UNCHANGED now

Next ==
  \/ Tick \/ Restart
  \/ \E r \in Requests : Ask(r) \/ Hit(r) \/ BeginCheck(r) \/ EndCheck(r)
                         \/ SetTime(r) \/ Return(r)

Spec == Init /\ [][Next]_checkVars

-----------------------------------------------------------------------------
(* Property.                                                               *)

\* The check that an answer reports ended less than MaxAge before, whoever made
\* it and however the writes of the two globals fall between each other. The one
\* that Reverify reports ended after it was asked for, and also began after it,
\* so that it saw what was saved before: unless an older check that took longer
\* was stored just between.
AnswersAreRecent ==
  [][\A r \in Requests :
       LET q == request'[r] IN
       q.pc = "answered" /\ request[r].pc # "answered" =>
         /\ q.answer # None /\ now - q.answer.ended < MaxAge
         /\ q.forced => /\ q.answer.ended >= q.since
                        /\ q.answer.began >= q.since \/ q.later]_checkVars
=============================================================================
