----------------------------- MODULE MCServices -----------------------------
(***************************************************************************)
(* The parts of the program that share no state with each other: the       *)
(* conversations, one query on its way through the agent's graph, the      *)
(* access to Google, the cached connection checks, and the scheduler.      *)
(* A behaviour is one of one part, chosen at the start, which shows as     *)
(* much as their interleaving would.                                       *)
(***************************************************************************)
EXTENDS Integers

CONSTANTS
  Turns, Earlier, MaxRetries, MaxMounts, MaxUpsets,
  ItemCount, TopKVector, TopKKeyword, MaxLinks,
  Attempts, Callbacks, ApiLoaders, BatchLoaders, MaxPolls,
  Requests, MaxAge, MaxTime,
  Schedules, Default, MaxWrites

VARIABLES
  part,
  durable, view, clock, call, mishap, screen, app, resetting, upsets,
  query,
  flows, used, callback, token, loader, wizard, newest, lapses,
  now, cache, cacheTime, request,
  time, file, schedule, writes, loop, due

\* Two schedules that a user sets, one of them with two fire times in a row, and
\* that of an empty config.yaml.
FireTimes(s) == CASE s = "often" -> {1, 2, 4} [] s = "rarely" -> {3} [] OTHER -> {5}
TurnNumbers == 1..3
EarlierTurns == {1}
AttemptNumbers == 1..2

convVars == <<durable, view, clock, call, mishap, screen, app, resetting, upsets>>
queryVars == <<query>>
oauthVars == <<flows, used, callback, token, loader, wizard, newest, lapses>>
checkVars == <<now, cache, cacheTime, request>>
loopVars == <<time, file, schedule, writes, loop, due>>

Conv == INSTANCE Conversations
Query == INSTANCE QueryPipeline
OAuth == INSTANCE GoogleAccess
Checks == INSTANCE ConnectionChecks
Loop == INSTANCE Schedule WITH MaxTime <- MaxTime + 1

ASSUME ConversationsAssumption == Conv!Assumptions
ASSUME QueryAssumption == Query!Assumptions
ASSUME OAuthAssumption == OAuth!Assumptions
ASSUME ChecksAssumption == Checks!Assumptions
ASSUME LoopAssumption == Loop!Assumptions

Init ==
  /\ part \in {"conversations", "query", "google", "checks", "schedule"}
  /\ Conv!Init /\ Query!Init /\ OAuth!Init /\ Checks!Init /\ Loop!Init
  \* Where its own part starts matters to nobody else.
  /\ part # "conversations" => app = Conv!NoSession
  /\ part # "schedule" => schedule = "often"

Next ==
  /\ UNCHANGED part
  /\ \/ /\ part = "conversations" /\ Conv!Next
        /\ UNCHANGED <<queryVars, oauthVars, checkVars, loopVars>>
     \/ /\ part = "query" /\ Query!Next
        /\ UNCHANGED <<convVars, oauthVars, checkVars, loopVars>>
     \/ /\ part = "google" /\ OAuth!Next
        /\ UNCHANGED <<convVars, queryVars, checkVars, loopVars>>
     \/ /\ part = "checks" /\ Checks!Next
        /\ UNCHANGED <<convVars, queryVars, oauthVars, loopVars>>
     \/ /\ part = "schedule" /\ Loop!Next
        /\ UNCHANGED <<convVars, queryVars, oauthVars, checkVars>>

vars == <<part, convVars, queryVars, oauthVars, checkVars, loopVars>>
Spec == Init /\ [][Next]_vars

\* Each part runs under its own fairness; those that do not run are at rest.
FairSpec == Spec /\ Conv!Fairness /\ OAuth!Fairness /\ Loop!Fairness

-----------------------------------------------------------------------------
(* The properties of the parts. A part that does not run is as it started,  *)
(* so that its invariants are asked of its own behaviours alone.           *)

\* Every variable of every part keeps its type; in particular a model is called
\* at most MaxRetries + 1 times for one purpose.
TypeOK ==
  /\ part = "conversations" => Conv!TypeOK
  /\ part = "query" => Query!TypeOK
  /\ part = "google" => OAuth!TypeOK
  /\ part = "checks" => Checks!TypeOK
  /\ part = "schedule" => Loop!TypeOK

\* record_conversation_turn(): half a turn is stored only where another thread
\* committed, rolled back or reset in the middle of it.
TurnsAreWhole == part = "conversations" => Conv!TurnsAreWhole

\* An answer that was given is stored, unless it was reset or rolled back by
\* another thread while it was recorded.
AnswersAreKept == part = "conversations" => Conv!AnswersAreKept

\* get_messages_for_session(): every answer follows its question, also with rows of
\* another turn inserted in between, unless a commit came in the midst of its own.
HistoryAlternates == part = "conversations" => Conv!HistoryAlternates

\* ChatWindow: an answer or error that arrives is seen, unless the history came
\* after the question.
AnswersAreSeen == part = "conversations" => Conv!AnswersAreSeen

\* Every question ends, through retries, failures, restarts and left windows.
EveryQuestionSettles == Conv!EveryQuestionSettles

\* merge(): what both searches found is ahead of all else, and nothing is lost.
FoundTwiceIsAhead == part = "query" => Query!FoundTwiceIsAhead

\* graph_traversal(): all new neighbours and nothing else, the better connected first.
NeighboursByConnections == part = "query" => Query!NeighboursByConnections

\* synthesize(): the sources are what the model was given, in that order.
CitationsMatchContext == part = "query" => Query!CitationsMatchContext

\* The token file holds the newest grant, unless writers raced or died.
NewestGrantIsKept == part = "google" => OAuth!NewestGrantIsKept

\* The wizard stops waiting for Google's sign-in.
ConnectingEnds == OAuth!ConnectingEnds

\* get_connection_status(): no answer is older than the cache allows, and what
\* Reverify reports was checked after it was asked for.
AnswersAreRecent == Checks!AnswersAreRecent

\* run_forever(): every fire time leads to a run.
FireTimesAreServed == Loop!FireTimesAreServed
=============================================================================
