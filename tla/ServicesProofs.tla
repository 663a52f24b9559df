--------------------------- MODULE ServicesProofs ---------------------------
(***************************************************************************)
(* Proofs about the parts that MCServices puts side by side, for any       *)
(* numbers of requests, loaders, questions and items. A part that does not *)
(* run stands still, so that what is proved of its steps holds throughout. *)
(***************************************************************************)
EXTENDS MCServices, OrdersProofs

-----------------------------------------------------------------------------
(* The connection checks.                                                  *)

\* No result is older than the check behind it, and the two globals are written
\* at one time unless a second check comes between.
CacheInv ==
  /\ Checks!TypeOK
  /\ cacheTime # Checks!NoTime => cache # Checks!None /\ cacheTime <= cache.ended
  /\ cache # Checks!None => cache.began <= cache.ended /\ cache.ended <= now

\* A request that has stored its result finds it, or a later one, in the cache.
StoredInv ==
  \A r \in Requests :
    /\ request[r].since <= now
    /\ request[r].pc = "checking" =>
         request[r].since <= request[r].began /\ request[r].began <= now
    /\ request[r].pc \in {"stored", "timed"} =>
         /\ cache # Checks!None /\ cache.ended = now
         /\ request[r].later \/ request[r].since <= cache.began

ChecksInv == CacheInv /\ StoredInv

\* Before the first check nothing is cached and nothing is answered.
LEMMA ChecksInit == ASSUME Checks!Init PROVE ChecksInv
<1> USE ChecksAssumption DEF Checks!Assumptions
<1>1. Checks!TypeOK
  BY DEF Checks!Init, Checks!TypeOK, Checks!Time, Checks!NoTime, Checks!Result, Checks!None,
         Checks!Request, Checks!Idle
<1>2. StoredInv
  BY DEF Checks!Init, StoredInv, Checks!Idle
<1> QED
  BY <1>1, <1>2 DEF Checks!Init, ChecksInv, CacheInv, Checks!None

\* A check that ends is a result of its own.
LEMMA ResultIsSome ==
  ASSUME NEW r \in Requests, NEW b, NEW e
  PROVE  [began |-> b, ended |-> e, by |-> r] # Checks!None
BY ChecksAssumption DEF Checks!Assumptions, Checks!None

\* The steps of the checks keep the invariant.
LEMMA ChecksStep ==
  ASSUME ChecksInv, Checks!Next
  PROVE  ChecksInv'
<1> USE ChecksAssumption DEF Checks!Assumptions
<1> USE DEF ChecksInv, CacheInv, StoredInv, Checks!TypeOK, Checks!Time, Checks!NoTime,
            Checks!Request
<1>1. CASE Checks!Tick
  <2>1. now' = now + 1 /\ now' \in Nat /\ now' <= MaxTime
    BY <1>1 DEF Checks!Tick
  <2>2. \A r \in Requests : request[r].pc \notin {"stored", "timed"}
    BY <1>1 DEF Checks!Tick
  <2>3. CacheInv'
    BY <1>1, <2>1 DEF Checks!Tick, Checks!Result, Checks!None
  <2>4. StoredInv'
    BY <1>1, <2>1, <2>2 DEF Checks!Tick
  <2> QED
    BY <2>3, <2>4
<1>2. CASE Checks!Restart
  BY <1>2 DEF Checks!Restart, Checks!Result, Checks!None, Checks!Idle
<1>3. ASSUME NEW r \in Requests, Checks!Ask(r) PROVE ChecksInv'
  <2>1. PICK forced \in BOOLEAN :
          request' = [request EXCEPT ![r] = [Checks!Idle EXCEPT
                        !.pc = "asked", !.forced = forced, !.since = now]]
    BY <1>3 DEF Checks!Ask
  <2> DEFINE q == [Checks!Idle EXCEPT !.pc = "asked", !.forced = forced, !.since = now]
  <2>2. q \in Checks!Request /\ q.pc = "asked" /\ q.since = now
    <3>1. Checks!Idle \in Checks!Request
      BY DEF Checks!Idle, Checks!Result
    <3> QED
      BY <3>1
  <2>5. request' = [request EXCEPT ![r] = q]
    BY <2>1
  <2> HIDE DEF q
  <2>3. request' \in [Requests -> Checks!Request]
    BY <2>2, <2>5
  <2>4. StoredInv'
    BY <1>3, <2>2, <2>5 DEF Checks!Ask
  <2> QED
    BY <1>3, <2>3, <2>4 DEF Checks!Ask
<1>4. ASSUME NEW r \in Requests, Checks!Hit(r) PROVE ChecksInv'
  BY <1>4 DEF Checks!Hit, Checks!Answered
<1>5. ASSUME NEW r \in Requests, Checks!BeginCheck(r) PROVE ChecksInv'
  <2>1. request' \in [Requests -> Checks!Request]
    BY <1>5 DEF Checks!BeginCheck
  <2>2. StoredInv'
    BY <1>5 DEF Checks!BeginCheck
  <2> QED
    BY <1>5, <2>1, <2>2 DEF Checks!BeginCheck
<1>6. ASSUME NEW r \in Requests, Checks!EndCheck(r) PROVE ChecksInv'
  <2>1. cache' # Checks!None
    BY <1>6, ResultIsSome DEF Checks!EndCheck
  <2>2. cache' \in Checks!Result
    BY <1>6 DEF Checks!EndCheck, Checks!Result
  <2>3. request' \in [Requests -> Checks!Request]
    <3>1. \A s \in Requests :
            request'[s] = IF s = r THEN [request[r] EXCEPT !.pc = "stored"]
                          ELSE [request[s] EXCEPT
                                  !.later = @ \/ request[s].pc \in {"stored", "timed"}]
      BY <1>6 DEF Checks!EndCheck
    <3>2. ASSUME NEW s \in Requests PROVE request'[s] \in Checks!Request
      <4>1. request[s] \in Checks!Request
        OBVIOUS
      <4>2. CASE s = r
        BY <3>1, <4>1, <4>2
      <4>3. CASE s # r
        <5> DEFINE b == request[s].later \/ request[s].pc \in {"stored", "timed"}
        <5>1. request'[s] = [request[s] EXCEPT !.later = b]
          BY <3>1, <4>3
        <5>2. b \in BOOLEAN
          OBVIOUS
        <5> HIDE DEF b
        <5> QED
          BY <4>1, <5>1, <5>2
      <4> QED
        BY <4>2, <4>3
    <3>3. DOMAIN request' = Requests /\ request' = [s \in Requests |-> request'[s]]
      BY <1>6 DEF Checks!EndCheck
    <3> QED
      BY <3>2, <3>3
  <2>5. cache'.began = request[r].began /\ cache'.ended = now
    BY <1>6 DEF Checks!EndCheck
  <2>6. request[r].began <= now
    BY <1>6 DEF Checks!EndCheck
  <2>4. StoredInv'
    BY <1>6, <2>1 DEF Checks!EndCheck
  <2> QED
    <3>1. now' = now /\ cacheTime' = cacheTime
      BY <1>6 DEF Checks!EndCheck
    <3>2. cacheTime # Checks!NoTime => cacheTime <= now
      BY DEF Checks!Result, Checks!None
    <3>3. CacheInv'
      BY <2>1, <2>2, <2>3, <2>5, <2>6, <3>1, <3>2
    <3> QED
      BY <2>4, <3>3
<1>7. ASSUME NEW r \in Requests, Checks!SetTime(r) PROVE ChecksInv'
  BY <1>7 DEF Checks!SetTime
<1>8. ASSUME NEW r \in Requests, Checks!Return(r) PROVE ChecksInv'
  BY <1>8 DEF Checks!Return, Checks!Answered
<1> QED
  BY <1>1, <1>2, <1>3, <1>4, <1>5, <1>6, <1>7, <1>8 DEF Checks!Next

\* An answer is given of what the cache holds, and that is recent.
LEMMA AnswersStep ==
  ASSUME ChecksInv, Checks!Next, NEW r \in Requests,
         request'[r].pc = "answered", request[r].pc # "answered"
  PROVE  LET q == request'[r] IN
         /\ q.answer # Checks!None /\ now - q.answer.ended < MaxAge
         /\ q.forced => /\ q.answer.ended >= q.since
                        /\ q.answer.began >= q.since \/ q.later
<1> USE ChecksAssumption DEF Checks!Assumptions
<1> USE DEF ChecksInv, CacheInv, StoredInv, Checks!TypeOK, Checks!Time, Checks!NoTime,
            Checks!Request
<1>1. Checks!Hit(r) \/ Checks!Return(r)
  <2>1. ~Checks!Tick
    BY DEF Checks!Tick
  <2>2. ~Checks!Restart
    BY DEF Checks!Restart, Checks!Idle
  <2>3. PICK s \in Requests : \/ Checks!Ask(s) \/ Checks!Hit(s) \/ Checks!BeginCheck(s)
                              \/ Checks!EndCheck(s) \/ Checks!SetTime(s) \/ Checks!Return(s)
    BY <2>1, <2>2 DEF Checks!Next
  <2>4. ~Checks!Ask(s)
    BY DEF Checks!Ask, Checks!Idle
  <2>5. ~Checks!BeginCheck(s)
    BY DEF Checks!BeginCheck
  <2>6. ~Checks!EndCheck(s)
    BY DEF Checks!EndCheck
  <2>7. ~Checks!SetTime(s)
    BY DEF Checks!SetTime
  <2>8. Checks!Hit(s) \/ Checks!Return(s) => s = r
    BY DEF Checks!Hit, Checks!Return, Checks!Answered
  <2> QED
    BY <2>3, <2>4, <2>5, <2>6, <2>7, <2>8
<1>2. cache \in [began : Checks!Time, ended : Checks!Time, by : Requests] \/ cache = Checks!None
  BY DEF Checks!Result
<1>3. CASE Checks!Hit(r)
  <2>1. request'[r] = [request[r] EXCEPT !.pc = "answered", !.answer = cache]
    BY <1>3 DEF Checks!Hit, Checks!Answered
  <2>2. ~request'[r].forced /\ request'[r].answer = cache
    BY <1>3, <2>1 DEF Checks!Hit
  <2> QED
    BY <1>2, <1>3, <2>2 DEF Checks!Hit, Checks!Cached
<1>4. CASE Checks!Return(r)
  <2>1. request'[r] = [request[r] EXCEPT !.pc = "answered", !.answer = cache]
    BY <1>4 DEF Checks!Return, Checks!Answered
  <2>2. request[r].pc = "timed"
    BY <1>4 DEF Checks!Return
  <2> QED
    BY <1>2, <2>1, <2>2
<1> QED
  BY <1>1, <1>3, <1>4

\* get_connection_status(): every answer is of a check that ended less than the
\* cache's age before, and what Reverify reports ended after it was asked for,
\* for any number of threads, however their writes of the two globals fall.
THEOREM AnswersStayRecent == Spec => AnswersAreRecent
<1>1. Init => ChecksInv
  BY ChecksInit DEF Init
<1>2. ChecksInv /\ [Next]_vars => ChecksInv'
  <2> SUFFICES ASSUME ChecksInv, [Next]_vars PROVE ChecksInv'
    OBVIOUS
  <2>1. CASE Checks!Next
    BY <2>1, ChecksStep
  <2>2. CASE UNCHANGED checkVars
    BY <2>2 DEF checkVars, ChecksInv, CacheInv, StoredInv, Checks!TypeOK
  <2> QED
    BY <2>1, <2>2 DEF Next, vars
<1>3. ChecksInv /\ [Next]_vars =>
        [\A r \in Requests :
           LET q == request'[r] IN
           q.pc = "answered" /\ request[r].pc # "answered" =>
             /\ q.answer # Checks!None /\ now - q.answer.ended < MaxAge
             /\ q.forced => /\ q.answer.ended >= q.since
                            /\ q.answer.began >= q.since \/ q.later]_checkVars
  <2> SUFFICES ASSUME ChecksInv, [Next]_vars, ~UNCHANGED checkVars
               PROVE  \A r \in Requests :
           LET q == request'[r] IN
           q.pc = "answered" /\ request[r].pc # "answered" =>
             /\ q.answer # Checks!None /\ now - q.answer.ended < MaxAge
             /\ q.forced => /\ q.answer.ended >= q.since
                            /\ q.answer.began >= q.since \/ q.later
    OBVIOUS
  <2>1. Checks!Next
    BY DEF Next, vars, checkVars
  <2> QED
    BY <2>1, AnswersStep
<1> QED
  BY <1>1, <1>2, <1>3, PTL DEF Spec, AnswersAreRecent, Checks!AnswersAreRecent, checkVars,
     Checks!checkVars

-----------------------------------------------------------------------------
(* The access to Google.                                                   *)

HoldsGrant(c) == callback[c].pc \in {"opening", "writing"}
Rewrites(l) == loader[l].pc \in {"refreshing", "opening", "writing"}

\* The token file as it is when nobody writes and nothing went wrong.
NewestToken ==
  token = [state |-> IF newest = OAuth!NoGrant THEN "none" ELSE "whole", grant |-> newest]

\* Until something has gone wrong: a callback that has a grant is alone with it,
\* and it is the newest; a loader has the newest grant, too; and a file that is
\* empty will be filled.
Undisturbed ==
  /\ \A c \in Callbacks : HoldsGrant(c) =>
       /\ newest = callback[c].attempt
       /\ \A d \in Callbacks : HoldsGrant(d) => d = c
       /\ \A l \in OAuth!Loaders : ~Rewrites(l)
  /\ \A l \in OAuth!Loaders : Rewrites(l) =>
       loader[l].grant = newest /\ newest # OAuth!NoGrant
  /\ \/ \E c \in Callbacks : HoldsGrant(c)
     \/ NewestToken
     \/ token.state = "empty" /\ \E l \in OAuth!Loaders : loader[l].pc = "writing"
GrantInv ==
  /\ OAuth!TypeOK
  /\ \A c \in Callbacks :
       callback[c].pc \in {"exchanging", "opening", "writing"} => callback[c].attempt \in Attempts
  /\ lapses = {} => Undisturbed

\* Who writes, and whose token would be lost, told apart by what they are.
LEMMA WritersAre ==
  /\ \A c \in Callbacks : /\ c \in OAuth!Writing <=> HoldsGrant(c)
                          /\ c \in OAuth!Unsaved <=> HoldsGrant(c)
                          /\ c \notin BatchLoaders
  /\ \A l \in OAuth!Loaders : /\ l \in OAuth!Writing <=> Rewrites(l)
                              /\ l \in OAuth!Unsaved <=> loader[l].pc = "writing"
                              /\ l \notin Callbacks
  /\ OAuth!Writing \subseteq Callbacks \cup OAuth!Loaders
BY OAuthAssumption DEF OAuth!Assumptions, OAuth!Writing, OAuth!Unsaved, OAuth!Loaders,
   HoldsGrant, Rewrites

\* Before the first consent there is no grant to lose.
LEMMA GrantInit == ASSUME OAuth!Init PROVE GrantInv
BY OAuthAssumption
   DEF OAuth!Assumptions, OAuth!Init, GrantInv, OAuth!TypeOK, OAuth!Grants, OAuth!File,
       OAuth!NoGrant, OAuth!Wizard, HoldsGrant, Rewrites, NewestToken, Undisturbed

\* Once nobody writes, the file is as it should be.
LEMMA GrantInvSuffices == ASSUME GrantInv PROVE OAuth!NewestGrantIsKept
BY WritersAre DEF GrantInv, Undisturbed, OAuth!NewestGrantIsKept, NewestToken, Rewrites

\* The steps of the callback route keep the invariant.
LEMMA GrantCallback ==
  ASSUME GrantInv, NEW c \in Callbacks,
         OAuth!Complete(c) \/ \E a \in Attempts : OAuth!Redirect(c, a)
  PROVE  GrantInv'
<1> USE DEF GrantInv, OAuth!TypeOK, OAuth!Grants, OAuth!File, OAuth!NoGrant, OAuth!CallbackTo,
            HoldsGrant, Rewrites, NewestToken, Undisturbed
<1> USE WritersAre
<1>1. ASSUME NEW a \in Attempts, OAuth!Redirect(c, a) PROVE GrantInv'
  BY <1>1 DEF OAuth!Redirect
<1>2. CASE OAuth!PopFlow(c)
  BY <1>2 DEF OAuth!PopFlow
<1>3. CASE OAuth!Exchange(c)
  <2>1. CASE OAuth!CallbackTo(c, "ended") /\ UNCHANGED <<newest, lapses>>
    BY <1>3, <2>1 DEF OAuth!Exchange
  <2>2. CASE /\ OAuth!CallbackTo(c, "opening")
             /\ newest' = callback[c].attempt
             /\ OAuth!Note("raced", OAuth!Writing # {})
    <3>1. callback[c].pc = "exchanging" /\ callback[c].attempt \in Attempts
      BY <1>3 DEF OAuth!Exchange
    <3>2. OAuth!TypeOK'
      BY <1>3, <2>2, <3>1 DEF OAuth!Exchange, OAuth!Note
    <3>3. UNCHANGED <<flows, used, token, loader, wizard>>
      BY <1>3 DEF OAuth!Exchange
    <3>4. \A d \in Callbacks :
            callback'[d] = IF d = c THEN [callback[c] EXCEPT !.pc = "opening"] ELSE callback[d]
      BY <2>2
    <3>5. lapses' = {} => OAuth!Writing = {}
      BY <2>2 DEF OAuth!Note
    <3>6. (lapses = {} => Undisturbed)'
      <4> SUFFICES ASSUME OAuth!Writing = {} PROVE Undisturbed'
        BY <3>5
      <4>1. \A d \in Callbacks : HoldsGrant(d)' <=> d = c
        BY <3>1, <3>4
      <4>2. \A l \in OAuth!Loaders : ~Rewrites(l)'
        BY <3>3
      <4>3. callback'[c].attempt = newest'
        BY <2>2, <3>4
      <4> QED
        BY <4>1, <4>2, <4>3
    <3>7. \A d \in Callbacks : callback'[d].pc \in {"exchanging", "opening", "writing"} =>
                               callback'[d].attempt \in Attempts
      BY <3>1, <3>4
    <3> QED
      BY <3>2, <3>6, <3>7
  <2> QED
    BY <1>3, <2>1, <2>2 DEF OAuth!Exchange
<1>4. CASE OAuth!OpenFile(c)
  BY <1>4 DEF OAuth!OpenFile, OAuth!Empty
<1>5. CASE OAuth!WriteToken(c)
  <2>1. callback[c].pc = "writing" /\ callback[c].attempt \in Attempts
    BY <1>5 DEF OAuth!WriteToken
  <2>2. OAuth!TypeOK'
    BY <1>5, <2>1 DEF OAuth!WriteToken, OAuth!Fill
  <2>3. \A d \in Callbacks :
          callback'[d] = IF d = c THEN [callback[c] EXCEPT !.pc = "ended"] ELSE callback[d]
    BY <1>5 DEF OAuth!WriteToken
  <2>4. UNCHANGED <<loader, newest>> /\ token' = [state |-> "whole", grant |-> callback[c].attempt]
    BY <1>5 DEF OAuth!WriteToken, OAuth!Fill
  <2>5. lapses' = {} => OAuth!Writing = {c} /\ newest = callback[c].attempt
    <3>1. CASE OAuth!Writing = {c} /\ newest = callback[c].attempt
      BY <3>1
    <3>2. CASE lapses = {}
      <4>1. \A d \in Callbacks : HoldsGrant(d) => d = c
        BY <2>1, <3>2
      <4>2. \A l \in OAuth!Loaders : ~Rewrites(l)
        BY <2>1, <3>2
      <4>3. OAuth!Writing = {c}
        BY <2>1, <4>1, <4>2
      <4> QED
        BY <2>1, <3>2, <4>3
    <3> QED
      BY <1>5, <3>1, <3>2 DEF OAuth!WriteToken
  <2>6. (lapses = {} => Undisturbed)'
    <3> SUFFICES ASSUME OAuth!Writing = {c}, newest = callback[c].attempt PROVE Undisturbed'
      BY <2>5
    <3>1. \A d \in Callbacks : ~HoldsGrant(d)'
      <4>1. \A d \in Callbacks : HoldsGrant(d) => d = c
        BY WritersAre
      <4> QED
        BY <2>3, <4>1
    <3>2. \A l \in OAuth!Loaders : ~Rewrites(l)'
      <4>1. \A l \in OAuth!Loaders : l # c
        BY WritersAre
      <4> QED
        BY <2>4, <4>1, WritersAre
    <3>3. NewestToken'
      BY <2>1, <2>4, OAuthAssumption DEF OAuth!Assumptions
    <3> QED
      BY <3>1, <3>2, <3>3
  <2> QED
    BY <2>1, <2>2, <2>3, <2>6
<1> QED
  BY <1>1, <1>2, <1>3, <1>4, <1>5 DEF OAuth!Complete

\* So do those of load_credentials().
LEMMA GrantLoader ==
  ASSUME GrantInv, NEW l \in OAuth!Loaders, OAuth!Load(l)
  PROVE  GrantInv'
<1> USE DEF GrantInv, OAuth!TypeOK, OAuth!Grants, OAuth!File, OAuth!NoGrant, OAuth!LoaderTo,
            HoldsGrant, Rewrites, NewestToken, Undisturbed
<1> USE WritersAre
<1>1. CASE OAuth!FindFile(l)
  BY <1>1 DEF OAuth!FindFile
<1>2. CASE OAuth!ReadFile(l)
  <2>1. CASE OAuth!LoaderTo(l, "idle", OAuth!NoGrant) /\ UNCHANGED lapses
    BY <1>2, <2>1 DEF OAuth!ReadFile
  <2>2. CASE /\ token.state = "whole"
             /\ OAuth!LoaderTo(l, "refreshing", token.grant)
             /\ OAuth!Note("raced", OAuth!Writing \cap Callbacks # {})
    <3>1. lapses' = {} => lapses = {} /\ OAuth!Writing \cap Callbacks = {}
      BY <2>2 DEF OAuth!Note
    <3>2. OAuth!TypeOK'
      BY <1>2, <2>2 DEF OAuth!ReadFile, OAuth!Note
    <3>3. \A m \in OAuth!Loaders :
            loader'[m] = IF m = l THEN [pc |-> "refreshing", grant |-> token.grant] ELSE loader[m]
      BY <2>2
    <3>4. UNCHANGED <<callback, token, newest>>
      BY <1>2 DEF OAuth!ReadFile
    <3>5. (lapses = {} => Undisturbed)'
      <4> SUFFICES ASSUME lapses = {}, OAuth!Writing \cap Callbacks = {} PROVE Undisturbed'
        BY <3>1
      <4>1. \A d \in Callbacks : ~HoldsGrant(d)
        BY WritersAre
      <4>2. NewestToken
        BY <2>2, <4>1
      <4>3. token.grant = newest /\ newest # OAuth!NoGrant
        BY <2>2, <4>2
      <4>4. \A m \in OAuth!Loaders : Rewrites(m)' => loader'[m].grant = newest
        BY <3>3, <4>3
      <4> QED
        BY <3>4, <4>1, <4>2, <4>3, <4>4
    <3> QED
      BY <3>2, <3>4, <3>5
  <2> QED
    BY <1>2, <2>1, <2>2 DEF OAuth!ReadFile
<1>3. CASE OAuth!Refresh(l)
  <2>1. PICK pc \in {"idle", "opening"}, g \in OAuth!Grants :
          /\ loader' = [loader EXCEPT ![l] = [pc |-> pc, grant |-> g]]
          /\ pc = "opening" => g = loader[l].grant
    BY <1>3 DEF OAuth!Refresh
  <2>2. \A m \in OAuth!Loaders :
          loader'[m] = IF m = l THEN [pc |-> pc, grant |-> g] ELSE loader[m]
    BY <2>1
  <2>3. UNCHANGED <<flows, used, callback, token, wizard, newest, lapses>> /\ Rewrites(l)
    BY <1>3 DEF OAuth!Refresh
  <2>4. OAuth!TypeOK'
    BY <2>1, <2>3
  <2>5. \A m \in OAuth!Loaders : /\ Rewrites(m)' => Rewrites(m) /\ loader'[m].grant = loader[m].grant
                                 /\ loader[m].pc = "writing" => loader'[m].pc = "writing"
    BY <1>3, <2>1, <2>2 DEF OAuth!Refresh
  <2>6. (lapses = {} => Undisturbed)'
    BY <2>3, <2>5
  <2> QED
    BY <2>3, <2>4, <2>6
<1>4. CASE OAuth!Reopen(l)
  BY <1>4 DEF OAuth!Reopen, OAuth!Empty
<1>5. CASE OAuth!Rewrite(l)
  BY <1>5 DEF OAuth!Rewrite, OAuth!Fill
<1> QED
  BY <1>1, <1>2, <1>3, <1>4, <1>5 DEF OAuth!Load

\* The wizard's steps keep its type.
LEMMA WizardTyped ==
  ASSUME NEW w \in OAuth!Wizard
  PROVE  /\ \A p \in {"open", "none"} :
              [w EXCEPT !.connecting = TRUE, !.popup = p, !.polling = TRUE, !.attempt = 0]
                \in OAuth!Wizard
         /\ [w EXCEPT !.popup = "closed"] \in OAuth!Wizard
         /\ [w EXCEPT !.polling = FALSE] \in OAuth!Wizard
         /\ [w EXCEPT !.polling = FALSE, !.connecting = FALSE] \in OAuth!Wizard
         /\ [w EXCEPT !.connected = TRUE, !.popup = "closed"] \in OAuth!Wizard
         /\ w.attempt # MaxPolls => [w EXCEPT !.attempt = @ + 1] \in OAuth!Wizard
<1> USE OAuthAssumption DEF OAuth!Assumptions, OAuth!Wizard
<1>1. ASSUME NEW p \in {"open", "none"}
      PROVE  [w EXCEPT !.connecting = TRUE, !.popup = p, !.polling = TRUE, !.attempt = 0]
               \in OAuth!Wizard
  <2> DEFINE v == [w EXCEPT !.connecting = TRUE, !.popup = p]
  <2>1. v \in OAuth!Wizard
    OBVIOUS
  <2>2. [w EXCEPT !.connecting = TRUE, !.popup = p, !.polling = TRUE, !.attempt = 0]
          = [v EXCEPT !.polling = TRUE, !.attempt = 0]
    OBVIOUS
  <2> HIDE DEF v
  <2>3. [v EXCEPT !.polling = TRUE] \in OAuth!Wizard
    BY <2>1
  <2>4. 0 \in 0..MaxPolls
    OBVIOUS
  <2>5. [v EXCEPT !.polling = TRUE, !.attempt = 0] \in OAuth!Wizard
    BY <2>3, <2>4
  <2> QED
    BY <2>2, <2>5
<1>2. /\ [w EXCEPT !.popup = "closed"] \in OAuth!Wizard
      /\ [w EXCEPT !.polling = FALSE] \in OAuth!Wizard
      /\ [w EXCEPT !.polling = FALSE, !.connecting = FALSE] \in OAuth!Wizard
      /\ [w EXCEPT !.connected = TRUE, !.popup = "closed"] \in OAuth!Wizard
  OBVIOUS
<1>3. w.attempt # MaxPolls => [w EXCEPT !.attempt = @ + 1] \in OAuth!Wizard
  OBVIOUS
<1> QED
  BY <1>1, <1>2, <1>3

\* And what ends a process, and the wizard.
LEMMA GrantOther ==
  ASSUME GrantInv,
         \/ OAuth!Restart \/ OAuth!Killed
         \/ OAuth!ClosePopup \/ OAuth!Poll \/ OAuth!PollFails
         \/ \E a \in Attempts : OAuth!Connect(a)
  PROVE  GrantInv'
<1> USE DEF GrantInv, OAuth!TypeOK, OAuth!Grants, OAuth!File, OAuth!NoGrant,
            HoldsGrant, Rewrites, NewestToken, Undisturbed
<1> USE OAuthAssumption, WritersAre DEF OAuth!Assumptions
<1>1. CASE OAuth!Restart
  <2>1. \A c \in Callbacks :
          callback'[c] = IF callback[c].pc = "unsent" THEN callback[c]
                         ELSE [callback[c] EXCEPT !.pc = "ended"]
    BY <1>1 DEF OAuth!Restart
  <2>2. \A l \in OAuth!Loaders :
          loader'[l] = IF l \in ApiLoaders THEN [pc |-> "idle", grant |-> OAuth!NoGrant]
                       ELSE loader[l]
    BY <1>1 DEF OAuth!Restart
  <2>3. UNCHANGED <<used, token, wizard, newest>> /\ flows' = {}
    BY <1>1 DEF OAuth!Restart
  <2>4. lapses' \in SUBSET {"raced", "crashed"}
    BY <1>1 DEF OAuth!Restart, OAuth!Note
  <2>5. lapses' = {} => lapses = {} /\ OAuth!Unsaved \ BatchLoaders = {}
    BY <1>1 DEF OAuth!Restart, OAuth!Note
  <2>6. OAuth!TypeOK'
    <3>1. callback' \in [Callbacks -> [pc : {"unsent", "sent", "exchanging", "opening", "writing",
                                           "ended"},
                                     attempt : OAuth!Grants]]
      BY <1>1 DEF OAuth!Restart
    <3>2. loader' \in [OAuth!Loaders -> [pc : {"idle", "reading", "refreshing", "opening",
                                               "writing"}, grant : OAuth!Grants]]
      BY <1>1 DEF OAuth!Restart
    <3> QED
      BY <2>3, <2>4, <3>1, <3>2
  <2>7. \A c \in Callbacks : callback'[c].pc \in {"unsent", "ended"}
    <3> SUFFICES ASSUME NEW c \in Callbacks PROVE callback'[c].pc \in {"unsent", "ended"}
      OBVIOUS
    <3>1. callback[c] \in [pc : {"unsent", "sent", "exchanging", "opening", "writing", "ended"},
                          attempt : OAuth!Grants]
      OBVIOUS
    <3>2. CASE callback[c].pc = "unsent"
      BY <2>1, <3>2
    <3>3. CASE callback[c].pc # "unsent"
      <4>1. callback'[c] = [callback[c] EXCEPT !.pc = "ended"]
        BY <2>1, <3>3
      <4> QED
        BY <3>1, <4>1
    <3> QED
      BY <3>2, <3>3
  <2>8. (lapses = {} => Undisturbed)'
    <3> SUFFICES ASSUME lapses = {}, OAuth!Unsaved \ BatchLoaders = {} PROVE Undisturbed'
      BY <2>5
    <3>1. \A c \in Callbacks : ~HoldsGrant(c)
      BY WritersAre
    <3>2. \A l \in OAuth!Loaders : loader[l].pc = "writing" => l \in BatchLoaders /\ l \notin ApiLoaders
      BY WritersAre
    <3> QED
      BY <2>2, <2>3, <2>7, <3>1, <3>2
  <2> QED
    BY <2>6, <2>7, <2>8
<1>2. CASE OAuth!Killed
  BY <1>2 DEF OAuth!Killed, OAuth!Note, OAuth!Loaders
<1>3. CASE OAuth!ClosePopup
  BY <1>3, WizardTyped DEF OAuth!ClosePopup
<1>4. CASE OAuth!Poll
  <2>1. wizard' \in OAuth!Wizard
    <3>1. OAuth!Ended \in OAuth!Wizard
      BY WizardTyped DEF OAuth!Ended
    <3>2. [OAuth!Ended EXCEPT !.connected = TRUE, !.popup = "closed"] \in OAuth!Wizard
      BY <3>1, WizardTyped
    <3>3. wizard.attempt # MaxPolls => OAuth!Again \in OAuth!Wizard
      BY WizardTyped DEF OAuth!Again
    <3> QED
      BY <1>4, <3>1, <3>2, <3>3 DEF OAuth!Poll
  <2> QED
    BY <1>4, <2>1 DEF OAuth!Poll
<1>5. CASE OAuth!PollFails
  <2>1. wizard' \in OAuth!Wizard
    <3>1. wizard.attempt < MaxPolls => OAuth!Again \in OAuth!Wizard
      <4>1. wizard.attempt < MaxPolls => wizard.attempt # MaxPolls
        BY DEF OAuth!Wizard
      <4> QED
        BY <4>1, WizardTyped DEF OAuth!Again
    <3> QED
      BY <1>5, <3>1, WizardTyped DEF OAuth!PollFails
  <2> QED
    BY <1>5, <2>1 DEF OAuth!PollFails
<1>6. ASSUME NEW a \in Attempts, OAuth!Connect(a) PROVE GrantInv'
  <2>1. wizard' \in OAuth!Wizard
    <3>1. PICK p \in {"open", "none"} :
            wizard' = [wizard EXCEPT !.connecting = TRUE, !.popup = p,
                                     !.polling = TRUE, !.attempt = 0]
      BY <1>6 DEF OAuth!Connect
    <3> QED
      BY <3>1, WizardTyped
  <2>2. flows' \subseteq used' /\ used' \subseteq Attempts
    BY <1>6 DEF OAuth!Connect
  <2> QED
    BY <1>6, <2>1, <2>2 DEF OAuth!Connect
<1> QED
  BY <1>1, <1>2, <1>3, <1>4, <1>5, <1>6

\* The token file: once nobody writes, it is whole and holds the newest grant,
\* through repeated and late callbacks, refreshes and restarts, but for races and
\* processes that end in the middle; for any numbers of callbacks and loaders.
THEOREM GrantIsKept == Spec => []NewestGrantIsKept
<1>1. Init => GrantInv
  BY GrantInit DEF Init
<1>2. GrantInv /\ [Next]_vars => GrantInv'
  <2> SUFFICES ASSUME GrantInv, [Next]_vars PROVE GrantInv'
    OBVIOUS
  <2>1. CASE OAuth!Next
    BY <2>1, GrantCallback, GrantLoader, GrantOther DEF OAuth!Next
  <2>2. CASE UNCHANGED oauthVars
    BY <2>2 DEF oauthVars, GrantInv, OAuth!TypeOK, HoldsGrant, Rewrites, NewestToken, Undisturbed
  <2> QED
    BY <2>1, <2>2 DEF Next, vars
<1>3. GrantInv => NewestGrantIsKept
  BY GrantInvSuffices DEF NewestGrantIsKept
<1> QED
  BY <1>1, <1>2, <1>3, PTL DEF Spec

-----------------------------------------------------------------------------
(* The conversations: what a step does.                                    *)

\* The operators on sets and orders that the parts' modules bring are the same.
LEMMA SameSets ==
  /\ \A S : Conv!Cardinality(S) = Cardinality(S)
  /\ \A S : Conv!IsFiniteSet(S) <=> IsFiniteSet(S)
  /\ \A S, R : Conv!Sorted(S, R) = Sorted(S, R)
<1>1. ASSUME NEW S PROVE Conv!Cardinality(S) = Cardinality(S)
  BY DEF Conv!Cardinality, Cardinality
<1>2. ASSUME NEW S PROVE Conv!IsFiniteSet(S) <=> IsFiniteSet(S)
  BY DEF Conv!IsFiniteSet, IsFiniteSet
<1>3. ASSUME NEW S, NEW R PROVE Conv!Sorted(S, R) = Sorted(S, R)
  BY DEF Conv!Sorted, Conv!Preceding, Conv!Cardinality, Sorted, Preceding, Cardinality
<1> QED
  BY <1>1, <1>2, <1>3

\* The messages of a session are rows of the table, by time and then by place.
InSession(S, s) == {i \in DOMAIN S.rows : S.rows[i].session = s}
ByTime(S, s) == {p \in InSession(S, s) \X InSession(S, s) : Conv!InOrder(S, p[1], p[2])}

\* The messages of a session are in a strict order: by time, and by row where times are
\* equal.
LEMMA ByTimeIsOrder ==
  ASSUME NEW S \in Conv!Store, NEW s
  PROVE  /\ InSession(S, s) \subseteq 1..Len(S.rows)
         /\ IsFiniteSet(InSession(S, s))
         /\ StrictOrder(InSession(S, s), ByTime(S, s))
<1>1. S.rows \in Seq(Conv!Row)
  BY DEF Conv!Store
<1>2. InSession(S, s) \subseteq 1..Len(S.rows) /\ Len(S.rows) \in Nat
  BY <1>1 DEF InSession
<1>3. IsFiniteSet(InSession(S, s))
  <2>1. IsFiniteSet(1..Len(S.rows))
    BY <1>2, FS_Interval
  <2> QED
    BY <1>2, <2>1, FS_Subset
<1>4. ASSUME NEW i \in InSession(S, s) PROVE S.rows[i].at \in Nat /\ i \in Nat
  <2>1. i \in 1..Len(S.rows)
    BY <1>2
  <2>2. S.rows[i] \in Conv!Row
    BY <1>1, <2>1
  <2> QED
    BY <1>2, <2>1, <2>2 DEF Conv!Row
<1>5. \A i, j \in InSession(S, s) : <<i, j>> \in ByTime(S, s) <=>
        S.rows[i].at < S.rows[j].at \/ (S.rows[i].at = S.rows[j].at /\ i < j)
  <2>1. \A i, j \in InSession(S, s) : <<i, j>> \in ByTime(S, s) <=> Conv!InOrder(S, i, j)
    BY DEF ByTime
  <2>2. ASSUME NEW i, NEW j
        PROVE  Conv!InOrder(S, i, j) <=>
                 S.rows[i].at < S.rows[j].at \/ (S.rows[i].at = S.rows[j].at /\ i < j)
    BY DEF Conv!InOrder
  <2> QED
    BY <2>1, <2>2, Zenon
<1>6. StrictOrder(InSession(S, s), ByTime(S, s))
  <2> DEFINE I == InSession(S, s)
             at(i) == S.rows[i].at
  <2>1. \A i \in I : at(i) \in Nat /\ i \in Nat
    BY <1>4
  <2>2. \A i, j \in I : <<i, j>> \in ByTime(S, s) <=>
                          at(i) < at(j) \/ (at(i) = at(j) /\ i < j)
    BY <1>5
  <2> HIDE DEF at, I
  <2>3. \A i \in I : <<i, i>> \notin ByTime(S, s)
    BY <2>1, <2>2
  <2>4. \A i, j \in I : i # j => <<i, j>> \in ByTime(S, s) \/ <<j, i>> \in ByTime(S, s)
    BY <2>1, <2>2
  <2>5. ASSUME NEW i \in I, NEW j \in I, NEW k \in I,
               <<i, j>> \in ByTime(S, s), <<j, k>> \in ByTime(S, s)
        PROVE  <<i, k>> \in ByTime(S, s)
    <3>1. /\ at(i) \in Nat /\ at(j) \in Nat /\ at(k) \in Nat
          /\ i \in Nat /\ j \in Nat /\ k \in Nat
      BY <2>1
    <3>2. /\ at(i) < at(j) \/ (at(i) = at(j) /\ i < j)
          /\ at(j) < at(k) \/ (at(j) = at(k) /\ j < k)
      BY <2>2, <2>5
    <3>3. at(i) < at(k) \/ (at(i) = at(k) /\ i < k)
      BY <3>1, <3>2
    <3> QED
      BY <2>2, <3>3
  <2> QED
    BY <2>3, <2>4, <2>5 DEF I, StrictOrder
<1> QED
  BY <1>2, <1>3, <1>6

\* What is read of a session are its rows, in that order.
LEMMA MessagesAre ==
  ASSUME NEW S \in Conv!Store, NEW s
  PROVE  /\ Conv!Messages(S, s) =
              [k \in DOMAIN Sorted(InSession(S, s), ByTime(S, s)) |->
                 S.rows[Sorted(InSession(S, s), ByTime(S, s))[k]]]
         /\ Conv!Messages(S, s) \in Seq(Conv!Row)
<1> DEFINE order == Sorted(InSession(S, s), ByTime(S, s))
           n == Cardinality(InSession(S, s))
<1>1. Conv!Messages(S, s) = [k \in DOMAIN order |-> S.rows[order[k]]]
  BY SameSets DEF Conv!Messages, InSession, ByTime
<1>2. n \in Nat /\ order \in [1..n -> InSession(S, s)]
  BY ByTimeIsOrder, SortedIs
<1> HIDE DEF order, n
<1>3. S.rows \in Seq(Conv!Row)
  BY DEF Conv!Store
<1>4. \A k \in 1..n : S.rows[order[k]] \in Conv!Row
  BY <1>2, <1>3, ByTimeIsOrder
<1>5. [k \in DOMAIN order |-> S.rows[order[k]]] \in Seq(Conv!Row)
  BY <1>2, <1>4
<1> QED
  BY <1>1, <1>5 DEF order

\* The table as it is at the start.
LEMMA EarlierTyped ==
  /\ Conv!EarlierSession \in Conv!Sessions
  /\ Conv!EarlierRows \in Seq(Conv!Row)
  /\ Cardinality(Earlier) \in Nat
  /\ DOMAIN Conv!EarlierRows = 1..2 * Cardinality(Earlier)
  /\ Earlier = 1..Cardinality(Earlier)
<1> USE ConversationsAssumption, SameSets DEF Conv!Assumptions
<1> DEFINE n == Cardinality(Earlier)
<1>1. n \in Nat
  BY FS_Subset, FS_CardinalityType
<1>2. Earlier = 1..n /\ Earlier \subseteq Turns
  OBVIOUS
<1> HIDE DEF n
<1>3. Earlier # {} => 1 \in Turns
  BY <1>1, <1>2
<1>4. Conv!EarlierSession \in Conv!Sessions
  BY <1>3 DEF Conv!EarlierSession, Conv!Sessions, Conv!NoSession
<1>5. ASSUME NEW k \in 1..2 * n
      PROVE  [session |-> Conv!EarlierSession, turn |-> (k + 1) \div 2, at |-> (k + 1) \div 2,
              role |-> IF k % 2 = 1 THEN "user" ELSE "agent"] \in Conv!Row
  <2>1. (k + 1) \div 2 \in 1..n
    BY <1>1
  <2>2. (k + 1) \div 2 \in Turns /\ (k + 1) \div 2 \in Nat
    BY <1>1, <1>2, <2>1
  <2>3. Conv!EarlierSession \in Turns
    BY <1>1, <1>2, <1>3, <2>1 DEF Conv!EarlierSession
  <2> QED
    BY <2>2, <2>3 DEF Conv!Row, Conv!Roles
<1>6. Conv!EarlierRows =
        [k \in 1..2 * n |->
           [session |-> Conv!EarlierSession, turn |-> (k + 1) \div 2, at |-> (k + 1) \div 2,
            role |-> IF k % 2 = 1 THEN "user" ELSE "agent"]]
  BY DEF Conv!EarlierRows, n
<1>7. 2 * n \in Nat
  BY <1>1
<1>8. Conv!EarlierRows \in Seq(Conv!Row) /\ DOMAIN Conv!EarlierRows = 1..2 * n
  BY <1>5, <1>6, <1>7
<1> QED
  BY <1>1, <1>2, <1>4, <1>8 DEF n

\* Before the first question every variable has its type.
LEMMA ConvTypeInit == ASSUME Conv!Init PROVE Conv!TypeOK
<1> USE ConversationsAssumption, SameSets DEF Conv!Assumptions
<1>1. durable \in Conv!Store /\ view \in Conv!Store
  <2>1. {Conv!EarlierSession} \ {Conv!NoSession} \subseteq Turns
    BY EarlierTyped DEF Conv!Sessions
  <2> QED
    BY <2>1, EarlierTyped DEF Conv!Init, Conv!Store
<1>2. clock \in Nat
  BY EarlierTyped DEF Conv!Init
<1>3. call \in [Turns -> Conv!Call] /\ \A t \in Turns : call[t].tries <= MaxRetries
  <2>1. \A t \in Turns :
          [pc |-> IF t \in Earlier THEN "shown" ELSE "unasked",
           here |-> FALSE, tries |-> 0, at |-> 0,
           session |-> IF t \in Earlier THEN Conv!EarlierSession ELSE Conv!NoSession]
             \in Conv!Call
    BY EarlierTyped DEF Conv!Call, Conv!Sessions, Conv!NoSession
  <2> QED
    BY <2>1 DEF Conv!Init
<1>4. screen \in Conv!Screen /\ app \in Conv!Sessions
  <2>1. app \in Conv!Sessions
    BY EarlierTyped DEF Conv!Init, Conv!Sessions, Conv!NoSession
  <2> QED
    BY <2>1 DEF Conv!Init, Conv!Mounted, Conv!Screen
<1> QED
  BY <1>1, <1>2, <1>3, <1>4 DEF Conv!Init, Conv!TypeOK

\* What a request does: it thinks, without touching the tables, or it inserts,
\* commits or rolls back.
Thinks(t, c) ==
  /\ call[t].pc \in {"sent", "condensing", "answering"}
  /\ c.pc \in {"condensing", "answering", "session", "refused"}
  /\ c.session \in Turns \/ (call[t].pc # "sent" /\ c.session = call[t].session)
  /\ UNCHANGED <<durable, view, clock, mishap>>

Opens(t, c) ==
  /\ call[t].pc = "session" /\ c.pc = "user"
  /\ c.session = call[t].session /\ c.at = clock + 1
  /\ clock' = clock + 1
  /\ view' = [view EXCEPT !.sessions = view.sessions \cup {call[t].session}]
  /\ UNCHANGED <<durable, mishap>>

Inserts(t, c, role) ==
  /\ call[t].pc = role /\ c.pc = IF role = "user" THEN "agent" ELSE "commit"
  /\ c.session = call[t].session /\ c.at = call[t].at
  /\ call[t].session \in view.sessions
  /\ view' = [view EXCEPT !.rows = Append(view.rows,
                [session |-> call[t].session, turn |-> t, role |-> role, at |-> call[t].at])]
  /\ UNCHANGED <<durable, clock, mishap>>

Commits(t, c) ==
  /\ call[t].pc = "commit" /\ c.pc = "answered"
  /\ c.session = call[t].session
  /\ Conv!CommitBy(t)

Fails(t, c) ==
  /\ call[t].pc \in Conv!Recording \cup {"session"} /\ c.pc = "refused"
  /\ Conv!RollbackBy(t)

Served(t, c) ==
  \/ Thinks(t, c) \/ Opens(t, c)
  \/ Inserts(t, c, "user") \/ Inserts(t, c, "agent")
  \/ Commits(t, c) \/ Fails(t, c)

\* A call that changes is still a call.
LEMMA CallTyped ==
  ASSUME NEW c \in Conv!Call,
         NEW p \in {"condensing", "answering", "session", "user", "agent", "commit", "answered",
                    "refused"}
  PROVE  /\ [c EXCEPT !.pc = p, !.tries = 0] \in Conv!Call
         /\ [c EXCEPT !.pc = p, !.at = 0] \in Conv!Call
         /\ [c EXCEPT !.tries = @ + 1] \in Conv!Call
<1>1. [c EXCEPT !.pc = p, !.tries = 0] \in Conv!Call
  BY DEF Conv!Call, Conv!Served, Conv!Recording
<1>2. [c EXCEPT !.pc = p, !.at = 0] \in Conv!Call
  BY DEF Conv!Call, Conv!Served, Conv!Recording
<1>3. [c EXCEPT !.tries = @ + 1] \in Conv!Call
  BY DEF Conv!Call
<1> QED
  BY <1>1, <1>2, <1>3

\* Every step of a request is one of these, and leaves the browser alone.
LEMMA ServeActs ==
  ASSUME Conv!TypeOK, NEW t \in Turns, Conv!Serve(t)
  PROVE  \E c \in Conv!Call :
           /\ c.tries <= MaxRetries /\ c.here = call[t].here
           /\ call' = [call EXCEPT ![t] = c]
           /\ Served(t, c)
           /\ UNCHANGED <<screen, app, resetting, upsets>>
<1> DEFINE Goal == \E c \in Conv!Call :
                     /\ c.tries <= MaxRetries /\ c.here = call[t].here
                     /\ call' = [call EXCEPT ![t] = c]
                     /\ Served(t, c)
                     /\ UNCHANGED <<screen, app, resetting, upsets>>
           Went(p) == [call[t] EXCEPT !.pc = p, !.tries = 0]
           Replied(p) == [call[t] EXCEPT !.pc = p, !.at = 0]
           P == {"condensing", "answering", "session", "user", "agent", "commit", "answered",
                 "refused"}
<1>1. /\ call \in [Turns -> Conv!Call] /\ call[t] \in Conv!Call /\ call[t].tries <= MaxRetries
      /\ call[t].tries \in Nat /\ MaxRetries \in Nat
  BY ConversationsAssumption DEF Conv!TypeOK, Conv!Call, Conv!Assumptions
<1>2. \A p \in P : /\ Went(p) \in Conv!Call /\ Went(p).pc = p /\ Went(p).tries = 0
                   /\ Went(p).here = call[t].here /\ Went(p).at = call[t].at
                   /\ Went(p).session = call[t].session
                   /\ Conv!GoTo(t, p) => call' = [call EXCEPT ![t] = Went(p)]
  <2> TAKE p \in P
  <2>1. Went(p) \in Conv!Call
    BY <1>1, CallTyped
  <2>2. [call EXCEPT ![t].pc = p, ![t].tries = 0] = [call EXCEPT ![t] = Went(p)]
    BY <1>1
  <2>3. Conv!GoTo(t, p) => call' = [call EXCEPT ![t] = Went(p)]
    BY <2>2, Zenon DEF Conv!GoTo
  <2> QED
    BY <1>1, <2>1, <2>3 DEF Conv!Call
<1>3. \A p \in P : /\ Replied(p) \in Conv!Call /\ Replied(p).pc = p
                   /\ Replied(p).tries = call[t].tries /\ Replied(p).here = call[t].here
                   /\ Replied(p).session = call[t].session
                   /\ Conv!Reply(t, p) => call' = [call EXCEPT ![t] = Replied(p)]
  <2> TAKE p \in P
  <2>1. Replied(p) \in Conv!Call
    BY <1>1, CallTyped
  <2>2. [call EXCEPT ![t].pc = p, ![t].at = 0] = [call EXCEPT ![t] = Replied(p)]
    BY <1>1
  <2>3. Conv!Reply(t, p) => call' = [call EXCEPT ![t] = Replied(p)]
    BY <2>2, Zenon DEF Conv!Reply
  <2> QED
    BY <1>1, <2>1, <2>3 DEF Conv!Call
<1> HIDE DEF Went, Replied
<1>4. ASSUME NEW p \in {"condensing", "answering", "session", "refused"},
             call[t].pc \in {"condensing", "answering"}, Conv!GoTo(t, p), Conv!Quiet
      PROVE  Goal
  <2>1. Thinks(t, Went(p))
    BY <1>2, <1>4 DEF Thinks, Conv!Quiet, Conv!storeVars
  <2> QED
    BY <1>1, <1>2, <1>4, <2>1 DEF Served, Conv!Quiet
<1>5. ASSUME NEW p \in {"answering", "refused"},
             call[t].pc \in {"condensing", "answering"}, Conv!AttemptFails(t, p)
      PROVE  Goal
  <2>1. CASE call[t].tries < MaxRetries
    <3> DEFINE c == [call[t] EXCEPT !.tries = call[t].tries + 1]
    <3>1. c \in Conv!Call
      BY <1>1, CallTyped
    <3>2. call' = [call EXCEPT ![t] = c]
      BY <1>1, <1>5, <2>1 DEF Conv!AttemptFails
    <3>3. /\ c.tries <= MaxRetries /\ c.here = call[t].here /\ c.pc = call[t].pc
          /\ c.session = call[t].session
      BY <1>1, <2>1 DEF Conv!Call
    <3> HIDE DEF c
    <3>4. Thinks(t, c)
      BY <1>5, <3>3 DEF Conv!AttemptFails, Thinks, Conv!Quiet, Conv!storeVars
    <3> QED
      BY <1>5, <3>1, <3>2, <3>3, <3>4 DEF Served, Conv!AttemptFails, Conv!Quiet
  <2>2. CASE ~(call[t].tries < MaxRetries)
    BY <1>4, <1>5, <2>2 DEF Conv!AttemptFails
  <2> QED
    BY <2>1, <2>2
<1>6. CASE Conv!Resolve(t)
  <2> DEFINE s == IF call[t].session = Conv!NoSession THEN t ELSE call[t].session
  <2>1. PICK p \in {"condensing", "answering"} :
          call' = [call EXCEPT ![t].session = s, ![t].pc = p]
    BY <1>6 DEF Conv!Resolve
  <2> DEFINE c == [call[t] EXCEPT !.session = s, !.pc = p]
  <2>2. s \in Conv!Sessions /\ s \in Turns
    BY <1>1 DEF Conv!Call, Conv!Sessions
  <2> HIDE DEF s
  <2>3. /\ c \in Conv!Call /\ c.pc = p /\ c.tries = call[t].tries /\ c.here = call[t].here
        /\ c.session = s
    BY <1>1, <2>2 DEF Conv!Call, Conv!Served
  <2>4. call' = [call EXCEPT ![t] = c]
    BY <1>1, <2>1
  <2> HIDE DEF c
  <2>5. Thinks(t, c) /\ UNCHANGED <<screen, app, resetting, upsets>>
    BY <1>6, <2>2, <2>3 DEF Conv!Resolve, Thinks, Conv!Quiet, Conv!storeVars
  <2> QED
    BY <1>1, <2>3, <2>4, <2>5 DEF Served
<1>7. CASE Conv!Condense(t)
  BY <1>4, <1>5, <1>7 DEF Conv!Condense
<1>8. CASE Conv!Answer(t)
  BY <1>4, <1>5, <1>8 DEF Conv!Answer
<1>9. CASE Conv!SearchFails(t)
  BY <1>4, <1>9 DEF Conv!SearchFails
<1>10. CASE Conv!InsertSession(t)
  <2> DEFINE c == [call[t] EXCEPT !.pc = "user", !.at = clock + 1]
  <2>1. clock \in Nat
    BY DEF Conv!TypeOK
  <2>2. /\ c \in Conv!Call /\ c.pc = "user" /\ c.at = clock + 1
        /\ c.tries = call[t].tries /\ c.here = call[t].here /\ c.session = call[t].session
    <3>1. "user" \in Conv!Served /\ clock + 1 \in Nat
      BY <2>1 DEF Conv!Served, Conv!Recording
    <3>2. [call[t] EXCEPT !.pc = "user"] \in Conv!Call
      BY <1>1, <3>1 DEF Conv!Call
    <3>3. c \in Conv!Call
      BY <3>1, <3>2 DEF Conv!Call
    <3> QED
      BY <1>1, <3>3 DEF Conv!Call
  <2>3. call' = [call EXCEPT ![t] = c]
    BY <1>1, <1>10 DEF Conv!InsertSession
  <2> HIDE DEF c
  <2>4. Opens(t, c) /\ UNCHANGED <<screen, app, resetting, upsets>>
    BY <1>10, <2>2 DEF Conv!InsertSession, Opens
  <2> QED
    BY <1>1, <2>2, <2>3, <2>4 DEF Served
<1>11. CASE Conv!InsertUser(t)
  <2>1. Inserts(t, Went("agent"), "user") /\ UNCHANGED <<screen, app, resetting, upsets>>
    BY <1>2, <1>11 DEF Conv!InsertUser, Conv!InsertMessage, Inserts
  <2>2. call' = [call EXCEPT ![t] = Went("agent")]
    BY <1>2, <1>11 DEF Conv!InsertUser
  <2>3. /\ Went("agent") \in Conv!Call /\ Went("agent").tries <= MaxRetries
        /\ Went("agent").here = call[t].here
    BY <1>1, <1>2
  <2>4. Served(t, Went("agent"))
    BY <2>1 DEF Served
  <2> QED
    BY <2>1, <2>2, <2>3, <2>4
<1>12. CASE Conv!InsertAgent(t)
  <2>1. Inserts(t, Went("commit"), "agent") /\ UNCHANGED <<screen, app, resetting, upsets>>
    BY <1>2, <1>12 DEF Conv!InsertAgent, Conv!InsertMessage, Inserts
  <2>2. call' = [call EXCEPT ![t] = Went("commit")]
    BY <1>2, <1>12 DEF Conv!InsertAgent
  <2>3. /\ Went("commit") \in Conv!Call /\ Went("commit").tries <= MaxRetries
        /\ Went("commit").here = call[t].here
    BY <1>1, <1>2
  <2>4. Served(t, Went("commit"))
    BY <2>1 DEF Served
  <2> QED
    BY <2>1, <2>2, <2>3, <2>4
<1>13. CASE Conv!CommitTurn(t)
  <2>1. Commits(t, Replied("answered")) /\ UNCHANGED <<screen, app, resetting, upsets>>
    BY <1>3, <1>13 DEF Conv!CommitTurn, Commits
  <2>2. call' = [call EXCEPT ![t] = Replied("answered")]
    BY <1>3, <1>13 DEF Conv!CommitTurn
  <2> QED
    BY <1>1, <1>3, <2>1, <2>2 DEF Served
<1>14. CASE Conv!RecordFails(t)
  <2>1. Fails(t, Replied("refused")) /\ UNCHANGED <<screen, app, resetting, upsets>>
    BY <1>3, <1>14 DEF Conv!RecordFails, Fails
  <2>2. call' = [call EXCEPT ![t] = Replied("refused")]
    BY <1>3, <1>14 DEF Conv!RecordFails
  <2> QED
    BY <1>1, <1>3, <2>1, <2>2 DEF Served
<1> QED
  BY <1>6, <1>7, <1>8, <1>9, <1>10, <1>11, <1>12, <1>13, <1>14 DEF Conv!Serve

\* A request that has been resolved has a session.
Resolved == {"condensing", "answering", "session", "answered", "shown"} \cup Conv!Recording
ConvType ==
  /\ Conv!TypeOK
  /\ \A t \in Turns : call[t].pc \in Resolved => call[t].session \in Turns

\* Every step of the server on a question keeps the types.
LEMMA ConvTypeServe ==
  ASSUME ConvType, NEW t \in Turns, Conv!Serve(t)
  PROVE  ConvType'
<1>1. PICK c \in Conv!Call :
           /\ c.tries <= MaxRetries /\ c.here = call[t].here
           /\ call' = [call EXCEPT ![t] = c]
           /\ Served(t, c)
           /\ UNCHANGED <<screen, app, resetting, upsets>>
  BY ServeActs DEF ConvType
<1>2. Conv!TypeOK /\ call[t] \in Conv!Call
  BY DEF ConvType, Conv!TypeOK
<1>3. call' \in [Turns -> Conv!Call] /\ \A u \in Turns : call'[u].tries <= MaxRetries
  BY <1>1, <1>2 DEF Conv!TypeOK
<1>4. \A u \in Turns : call'[u] = IF u = t THEN c ELSE call[u]
  BY <1>1, <1>2 DEF Conv!TypeOK
<1>5. c.pc \in Resolved => c.session \in Turns
  BY <1>1 DEF ConvType, Served, Thinks, Opens, Inserts, Commits, Fails, Resolved, Conv!Recording
<1>6. ASSUME durable' \in Conv!Store, view' \in Conv!Store, clock' \in Nat,
             mishap' \in [Turns -> SUBSET {"cut", "undone", "erased"}]
      PROVE  ConvType'
  <2>1. Conv!TypeOK'
    BY <1>1, <1>2, <1>3, <1>6 DEF Conv!TypeOK
  <2>2. \A u \in Turns : call'[u].pc \in Resolved => call'[u].session \in Turns
    BY <1>4, <1>5 DEF ConvType
  <2> QED
    BY <2>1, <2>2 DEF ConvType
<1>7. CASE Thinks(t, c)
  BY <1>2, <1>6, <1>7 DEF Thinks, Conv!TypeOK
<1>8. CASE Opens(t, c)
  <2>1. call[t].session \in Turns
    BY <1>8 DEF Opens, ConvType, Resolved
  <2>2. view' \in Conv!Store
    BY <1>2, <1>8, <2>1 DEF Opens, Conv!TypeOK, Conv!Store
  <2> QED
    BY <1>2, <1>6, <1>8, <2>2 DEF Opens, Conv!TypeOK
<1>9. ASSUME NEW role \in {"user", "agent"}, Inserts(t, c, role)
      PROVE  ConvType'
  <2> DEFINE row == [session |-> call[t].session, turn |-> t, role |-> role, at |-> call[t].at]
  <2>1. view \in Conv!Store
    BY <1>2 DEF Conv!TypeOK
  <2>2. call[t].session \in Turns
    BY <1>9, <2>1 DEF Inserts, Conv!Store
  <2>3. row \in Conv!Row
    BY <1>2, <2>2 DEF Conv!Row, Conv!Roles, Conv!Call
  <2>4. view' = [view EXCEPT !.rows = Append(view.rows, row)]
    BY <1>9 DEF Inserts
  <2> HIDE DEF row
  <2>5. view' \in Conv!Store
    <3>1. Append(view.rows, row) \in Seq(Conv!Row)
      BY <2>1, <2>3 DEF Conv!Store
    <3> QED
      BY <2>1, <2>4, <3>1 DEF Conv!Store
  <2> QED
    BY <1>2, <1>6, <1>9, <2>5 DEF Inserts, Conv!TypeOK
<1>10. CASE Commits(t, c)
  BY <1>2, <1>6, <1>10 DEF Commits, Conv!CommitBy, Conv!Note, Conv!TypeOK
<1>11. CASE Fails(t, c)
  BY <1>2, <1>6, <1>11 DEF Fails, Conv!RollbackBy, Conv!Note, Conv!TypeOK
<1> QED
  BY <1>1, <1>7, <1>8, <1>9, <1>10, <1>11 DEF Served

\* What other threads do to the tables.
LEMMA ConvTypeOthers ==
  ASSUME ConvType,
         \/ Conv!OtherWrites \/ Conv!Restart
         \/ Conv!AskReset \/ Conv!CommitReset \/ Conv!ResetFails
  PROVE  ConvType'
<1> USE DEF ConvType
<1>1. CASE Conv!OtherWrites
  <2>1. upsets' \in 0..MaxUpsets
    BY <1>1, ConversationsAssumption
       DEF Conv!OtherWrites, Conv!Upset, Conv!TypeOK, Conv!Assumptions
  <2> QED
    BY <1>1, <2>1 DEF Conv!OtherWrites, Conv!CommitBy, Conv!RollbackBy, Conv!Note, Conv!TypeOK
<1>2. CASE Conv!Restart
  <2>1. upsets' \in 0..MaxUpsets
    <3>1. upsets < MaxUpsets /\ upsets' = upsets + 1
      BY <1>2 DEF Conv!Restart, Conv!Upset
    <3> QED
      BY <3>1, ConversationsAssumption DEF Conv!TypeOK, Conv!Assumptions
  <2>2. ASSUME NEW u \in Turns
        PROVE  /\ call'[u] \in Conv!Call /\ call'[u].tries <= MaxRetries
               /\ call'[u].pc \in Resolved => call'[u].session \in Turns
    <3>1. call[u] \in Conv!Call /\ call[u].tries <= MaxRetries /\ MaxRetries \in Nat
      BY ConversationsAssumption DEF Conv!TypeOK, Conv!Assumptions
    <3>2. CASE call[u].pc \in Conv!Served
      <4>1. call'[u] = [call[u] EXCEPT !.pc = "refused", !.tries = 0, !.at = 0]
        BY <1>2, <3>2 DEF Conv!Restart
      <4>2. call'[u] \in Conv!Call /\ call'[u].pc = "refused" /\ call'[u].tries = 0
        <5> DEFINE v == [call[u] EXCEPT !.pc = "refused", !.tries = 0]
        <5>1. v \in Conv!Call /\ v.pc = "refused" /\ v.tries = 0
          BY <3>1, CallTyped DEF Conv!Call
        <5>2. call'[u] = [v EXCEPT !.at = 0]
          BY <4>1
        <5> HIDE DEF v
        <5> QED
          BY <5>1, <5>2 DEF Conv!Call
      <4> QED
        BY <3>1, <4>2 DEF Resolved, Conv!Recording
    <3>3. CASE call[u].pc \notin Conv!Served
      BY <1>2, <3>1, <3>3 DEF Conv!Restart
    <3> QED
      BY <3>2, <3>3
  <2>3. call' \in [Turns -> Conv!Call]
    BY <1>2, <2>2 DEF Conv!Restart
  <2> QED
    BY <1>2, <2>1, <2>2, <2>3 DEF Conv!Restart, Conv!TypeOK
<1>3. CASE Conv!AskReset
  <2>1. upsets' \in 0..MaxUpsets
    BY <1>3, ConversationsAssumption
       DEF Conv!AskReset, Conv!Upset, Conv!TypeOK, Conv!Assumptions
  <2>2. view' \in Conv!Store
    BY <1>3 DEF Conv!AskReset, Conv!EmptyStore, Conv!Store
  <2> QED
    BY <1>3, <2>1, <2>2 DEF Conv!AskReset, Conv!Note, Conv!TypeOK
<1>4. CASE Conv!CommitReset
  BY <1>4 DEF Conv!CommitReset, Conv!CommitBy, Conv!Note, Conv!TypeOK
<1>5. CASE Conv!ResetFails
  BY <1>5 DEF Conv!ResetFails, Conv!RollbackBy, Conv!Note, Conv!TypeOK
<1> QED
  BY <1>1, <1>2, <1>3, <1>4, <1>5

\* What the browser does to the requests: a question is asked, an answer or an
\* error taken, and a window left; the tables stay as they are.
BrowserStep ==
  \/ \E t \in Turns : Conv!Take(t) \/ Conv!Submit(t)
  \/ Conv!TakeReset \/ Conv!TakeHistory
  \/ Conv!NewChat \/ (\E s \in Turns : Conv!SelectSession(s)) \/ Conv!OpenChat
  \/ Conv!LeaveChat

Asks(u) == call[u].pc = "unasked" /\ call'[u].pc = "sent"
Takes(u) ==
  \/ call[u].pc = "answered" /\ call'[u].pc = "shown"
  \/ call[u].pc = "refused" /\ call'[u].pc = "failed"
CallsKept ==
  \A u \in Turns :
    /\ call'[u] \in Conv!Call /\ call'[u].tries = call[u].tries /\ call'[u].at = call[u].at
    /\ Asks(u) \/ (call'[u].session = call[u].session
                   /\ (call'[u].pc = call[u].pc \/ Takes(u)))

\* A window is mounted, or closed.
LEMMA MountedTyped ==
  ASSUME NEW n \in Nat, NEW s \in Conv!Sessions
  PROVE  /\ Conv!Mounted(n, s) \in Conv!Screen
         /\ [Conv!Mounted(n, s) EXCEPT !.open = FALSE] \in Conv!Screen
<1>1. Conv!Mounted(n, s) \in Conv!Screen
  BY DEF Conv!Mounted, Conv!Screen
<1>2. ASSUME NEW w \in Conv!Screen PROVE [w EXCEPT !.open = FALSE] \in Conv!Screen
  BY DEF Conv!Screen
<1> QED
  BY <1>1, <1>2

\* A screen that is left keeps its calls, and is no longer there to show their answers.
LEMMA UnmountKeeps ==
  ASSUME ConvType, Conv!Unmount
  PROVE  /\ call' \in [Turns -> Conv!Call] /\ CallsKept
         /\ \A u \in Turns : ~call'[u].here
<1>1. ASSUME NEW u \in Turns
      PROVE  call'[u] \in Conv!Call /\ ~call'[u].here /\ call'[u].pc = call[u].pc
             /\ call'[u].tries = call[u].tries /\ call'[u].at = call[u].at
             /\ call'[u].session = call[u].session
  <2>1. call[u] \in Conv!Call
    BY DEF ConvType, Conv!TypeOK
  <2>2. call'[u] = [call[u] EXCEPT !.here = FALSE]
    BY DEF Conv!Unmount
  <2>3. call'[u] \in Conv!Call
    BY <2>1, <2>2 DEF Conv!Call
  <2> QED
    BY <2>1, <2>2, <2>3 DEF Conv!Call
<1> QED
  BY <1>1 DEF Conv!Unmount, CallsKept

\* Bubbles that are settled, or come from the history.
LEMMA SettledTyped ==
  ASSUME ConvType, NEW t \in Turns, NEW status \in {"done", "error"}
  PROVE  /\ Conv!Settled(t, status) \in Seq(Conv!Bubble)
         /\ DOMAIN Conv!Settled(t, status) = DOMAIN screen.bubbles
<1>1. screen.bubbles \in Seq(Conv!Bubble)
  BY DEF ConvType, Conv!TypeOK, Conv!Screen
<1>2. ASSUME NEW b \in Conv!Bubble PROVE [b EXCEPT !.status = status] \in Conv!Bubble
  BY DEF Conv!Bubble
<1>3. DOMAIN screen.bubbles = 1..Len(screen.bubbles) /\ Len(screen.bubbles) \in Nat
  BY <1>1
<1>4. ASSUME NEW k \in 1..Len(screen.bubbles)
      PROVE  Conv!Settled(t, status)[k] \in Conv!Bubble
  <2>1. screen.bubbles[k] \in Conv!Bubble
    BY <1>1, <1>4
  <2> QED
    BY <1>2, <1>3, <2>1 DEF Conv!Settled
<1>5. Conv!Settled(t, status) = [k \in 1..Len(screen.bubbles) |-> Conv!Settled(t, status)[k]]
  BY <1>3 DEF Conv!Settled
<1>6. DOMAIN Conv!Settled(t, status) = DOMAIN screen.bubbles
  BY DEF Conv!Settled
<1>7. Conv!Settled(t, status) \in Seq(Conv!Bubble)
  BY <1>3, <1>4, <1>5
<1> QED
  BY <1>6, <1>7

\* Every step of the browser keeps the types, and the requests but for these.
LEMMA BrowserActs ==
  ASSUME ConvType, BrowserStep
  PROVE  ConvType' /\ CallsKept /\ UNCHANGED <<durable, view, clock, mishap>>
<1>1. /\ call \in [Turns -> Conv!Call] /\ \A u \in Turns : call[u].tries <= MaxRetries
      /\ screen \in Conv!Screen /\ app \in Conv!Sessions
  BY DEF ConvType, Conv!TypeOK
<1>2. ASSUME call' \in [Turns -> Conv!Call], CallsKept, screen' \in Conv!Screen,
             app' \in Conv!Sessions, resetting' \in {resetting, "no"},
             UNCHANGED <<durable, view, clock, mishap, upsets>>
      PROVE  ConvType' /\ CallsKept /\ UNCHANGED <<durable, view, clock, mishap>>
  <2>1. Conv!TypeOK'
    BY <1>1, <1>2 DEF ConvType, Conv!TypeOK, CallsKept
  <2>2. \A u \in Turns : call'[u].pc \in Resolved => call'[u].session \in Turns
    BY <1>2 DEF ConvType, CallsKept, Asks, Takes, Resolved, Conv!Recording
  <2> QED
    BY <1>2, <2>1, <2>2 DEF ConvType
<1>3. ASSUME NEW s \in Conv!Sessions, Conv!Mount(s)
      PROVE  ConvType' /\ CallsKept /\ UNCHANGED <<durable, view, clock, mishap>>
  <2>1. screen.mount + 1 \in Nat
    BY <1>1 DEF Conv!Screen
  <2>2. screen' \in Conv!Screen
    BY <1>3, <2>1, MountedTyped DEF Conv!Mount
  <2> QED
    BY <1>2, <1>3, <2>2, UnmountKeeps DEF Conv!Mount, Conv!storeVars
<1>4. CASE Conv!LeaveChat
  <2>1. screen.mount \in Nat /\ Conv!NoSession \in Conv!Sessions
    BY <1>1 DEF Conv!Screen, Conv!Sessions
  <2>2. screen' \in Conv!Screen
    BY <1>4, <2>1, MountedTyped DEF Conv!LeaveChat
  <2> QED
    BY <1>1, <1>2, <1>4, <2>2, UnmountKeeps DEF Conv!LeaveChat, Conv!storeVars
<1>5. CASE Conv!TakeReset
  <2>1. screen.mount \in Nat /\ Conv!NoSession \in Conv!Sessions
    BY <1>1 DEF Conv!Screen, Conv!Sessions
  <2>2. screen' \in Conv!Screen
    BY <1>1, <1>5, <2>1, MountedTyped DEF Conv!TakeReset
  <2> QED
    BY <1>1, <1>2, <1>5, <2>1, <2>2, UnmountKeeps DEF Conv!TakeReset, Conv!storeVars
<1>6. CASE Conv!TakeHistory
  <2>1. PICK rows \in {Conv!Messages(view, screen.session), <<>>} :
          screen' = [screen EXCEPT
                       !.loading = FALSE,
                       !.overwritten = screen.bubbles # <<>>,
                       !.bubbles = [k \in DOMAIN rows |->
                          [turn |-> rows[k].turn, role |-> rows[k].role, status |-> "done"]]]
    BY <1>6 DEF Conv!TakeHistory
  <2> DEFINE bubbles == [k \in DOMAIN rows |->
                          [turn |-> rows[k].turn, role |-> rows[k].role, status |-> "done"]]
             late == screen.bubbles # <<>>
  <2>2. rows \in Seq(Conv!Row)
    <3>1. Conv!Messages(view, screen.session) \in Seq(Conv!Row)
      BY MessagesAre DEF ConvType, Conv!TypeOK
    <3>2. <<>> \in Seq(Conv!Row)
      OBVIOUS
    <3> QED
      BY <2>1, <3>1, <3>2
  <2>3. bubbles \in Seq(Conv!Bubble)
    <3>1. \A k \in 1..Len(rows) :
            [turn |-> rows[k].turn, role |-> rows[k].role, status |-> "done"] \in Conv!Bubble
      <4> TAKE k \in 1..Len(rows)
      <4>1. rows[k] \in Conv!Row
        BY <2>2
      <4> QED
        BY <4>1 DEF Conv!Row, Conv!Bubble
    <3> QED
      BY <2>2, <3>1
  <2>4. late \in BOOLEAN
    OBVIOUS
  <2> HIDE DEF bubbles, late
  <2>5. screen' = [screen EXCEPT !.loading = FALSE, !.overwritten = late, !.bubbles = bubbles]
    BY <2>1 DEF bubbles, late
  <2>6. screen' \in Conv!Screen
    BY <1>1, <2>3, <2>4, <2>5 DEF Conv!Screen
  <2>7. CallsKept
    BY <1>1, <1>6 DEF Conv!TakeHistory, CallsKept
  <2> QED
    BY <1>1, <1>2, <1>6, <2>6, <2>7 DEF Conv!TakeHistory, Conv!storeVars
<1>7. ASSUME NEW t \in Turns, Conv!Submit(t)
      PROVE  ConvType' /\ CallsKept /\ UNCHANGED <<durable, view, clock, mishap>>
  <2> DEFINE c == [call[t] EXCEPT !.pc = "sent", !.here = TRUE, !.session = screen.session]
             two == <<[turn |-> t, role |-> "user", status |-> "asked"],
                      [turn |-> t, role |-> "agent", status |-> "pending"]>>
  <2>1. /\ c \in Conv!Call /\ c.pc = "sent" /\ c.tries = call[t].tries /\ c.at = call[t].at
    BY <1>1 DEF Conv!Call, Conv!Served, Conv!Screen
  <2>2. call' = [call EXCEPT ![t] = c]
    BY <1>1, <1>7 DEF Conv!Submit
  <2>3. two \in Seq(Conv!Bubble)
    BY DEF Conv!Bubble, Conv!Roles
  <2>4. screen' = [screen EXCEPT !.sending = t, !.bubbles = screen.bubbles \o two]
    BY <1>1, <1>7 DEF Conv!Submit
  <2> HIDE DEF c, two
  <2>5. screen.bubbles \o two \in Seq(Conv!Bubble)
    BY <1>1, <2>3 DEF Conv!Screen
  <2>6. screen' \in Conv!Screen
    BY <1>1, <2>4, <2>5 DEF Conv!Screen
  <2>7. CallsKept
    BY <1>1, <1>7, <2>1, <2>2 DEF Conv!Submit, CallsKept, Asks
  <2> QED
    BY <1>1, <1>2, <1>7, <2>1, <2>2, <2>6, <2>7 DEF Conv!Submit, Conv!storeVars
<1>8. ASSUME NEW t \in Turns, NEW p \in {"shown", "failed"}, call' = [call EXCEPT ![t].pc = p],
             call[t].pc = IF p = "shown" THEN "answered" ELSE "refused"
      PROVE  call' \in [Turns -> Conv!Call] /\ CallsKept
  <2> DEFINE c == [call[t] EXCEPT !.pc = p]
  <2>1. /\ c \in Conv!Call /\ c.pc = p /\ c.tries = call[t].tries /\ c.at = call[t].at
        /\ c.session = call[t].session
    BY <1>1 DEF Conv!Call
  <2>2. call' = [call EXCEPT ![t] = c]
    BY <1>1, <1>8
  <2> HIDE DEF c
  <2> QED
    BY <1>1, <1>8, <2>1, <2>2 DEF CallsKept, Takes
<1>9. ASSUME NEW t \in Turns, Conv!TakeAnswer(t)
      PROVE  ConvType' /\ CallsKept /\ UNCHANGED <<durable, view, clock, mishap>>
  <2> DEFINE bubbles == Conv!Settled(t, "done")
             s == call[t].session
  <2>1. bubbles \in Seq(Conv!Bubble) /\ s \in Conv!Sessions
    BY <1>1, SettledTyped DEF Conv!Call
  <2>2. screen' = IF call[t].here
                  THEN [screen EXCEPT !.session = s, !.sending = 0, !.bubbles = bubbles]
                  ELSE screen
    BY <1>9 DEF Conv!TakeAnswer
  <2>3. app' = s
    BY <1>9 DEF Conv!TakeAnswer
  <2> HIDE DEF bubbles, s
  <2>4. screen' \in Conv!Screen
    BY <1>1, <2>1, <2>2 DEF Conv!Screen
  <2>5. call' \in [Turns -> Conv!Call] /\ CallsKept
    BY <1>8, <1>9 DEF Conv!TakeAnswer
  <2> QED
    BY <1>2, <1>9, <2>1, <2>3, <2>4, <2>5 DEF Conv!TakeAnswer, Conv!storeVars
<1>10. ASSUME NEW t \in Turns, Conv!TakeError(t)
       PROVE  ConvType' /\ CallsKept /\ UNCHANGED <<durable, view, clock, mishap>>
  <2> DEFINE bubbles == Conv!Settled(t, "error")
  <2>1. bubbles \in Seq(Conv!Bubble)
    BY SettledTyped
  <2>2. screen' = IF call[t].here THEN [screen EXCEPT !.sending = 0, !.bubbles = bubbles]
                  ELSE screen
    BY <1>10 DEF Conv!TakeError
  <2> HIDE DEF bubbles
  <2>4. screen' \in Conv!Screen
    BY <1>1, <2>1, <2>2 DEF Conv!Screen
  <2>5. call' \in [Turns -> Conv!Call] /\ CallsKept
    BY <1>8, <1>10 DEF Conv!TakeError
  <2> QED
    BY <1>1, <1>2, <1>10, <2>4, <2>5 DEF Conv!TakeError, Conv!storeVars
<1>11. \A s \in Turns : s \in Conv!Sessions
  BY DEF Conv!Sessions
<1>12. Conv!NoSession \in Conv!Sessions
  BY DEF Conv!Sessions
<1> QED
  BY <1>1, <1>3, <1>4, <1>5, <1>6, <1>7, <1>9, <1>10, <1>11, <1>12
     DEF BrowserStep, Conv!Take, Conv!NewChat, Conv!SelectSession, Conv!OpenChat

-----------------------------------------------------------------------------
(* The conversations: turns are stored whole. Only the question is in the   *)
(* connection's view while the answer is about to be inserted; a commit or  *)
(* rollback of another thread is noted just then.                           *)

Lost(t) == mishap[t] \cap {"undone", "erased"} # {}
HalfIsNoted(S, t) ==
  /\ Conv!Has(S, t, "user") /\ ~Conv!Has(S, t, "agent") => "cut" \in mishap[t]
  /\ Conv!Has(S, t, "agent") /\ ~Conv!Has(S, t, "user") => Lost(t)
TurnOK(t) ==
  /\ HalfIsNoted(durable, t)
  /\ call[t].pc # "agent" => HalfIsNoted(view, t)
  /\ call[t].pc = "agent" => Conv!Has(view, t, "user") \/ Lost(t)
  /\ call[t].pc = "commit" => Conv!Whole(view, t) \/ Lost(t)
  /\ call[t].pc \in {"answered", "shown"} =>
       (Conv!Whole(durable, t) /\ Conv!Whole(view, t)) \/ Lost(t)
TurnInv == ConvType /\ \A t \in Turns : TurnOK(t)

\* A row that is appended is there with those before it.
LEMMA HasAppended ==
  ASSUME NEW S \in Conv!Store, NEW row \in Conv!Row, NEW T, NEW t, NEW role,
         T = [S EXCEPT !.rows = Append(S.rows, row)]
  PROVE  Conv!Has(T, t, role) <=>
           Conv!Has(S, t, role) \/ (row.turn = t /\ row.role = role)
<1>1. S.rows \in Seq(Conv!Row) /\ T.rows = Append(S.rows, row)
  BY DEF Conv!Store
<1>2. Len(S.rows) \in Nat /\ DOMAIN S.rows = 1..Len(S.rows)
      /\ DOMAIN T.rows = 1..(Len(S.rows) + 1)
  BY <1>1
<1>3. T.rows[Len(S.rows) + 1] = row
  BY <1>1
<1>4. \A i \in 1..Len(S.rows) : T.rows[i] = S.rows[i]
  BY <1>1
<1>5. Conv!Has(S, t, role) <=>
        \E i \in 1..Len(S.rows) : S.rows[i].turn = t /\ S.rows[i].role = role
  BY <1>2 DEF Conv!Has, Conv!Rows
<1>6. Conv!Has(T, t, role) <=>
        \E i \in 1..(Len(S.rows) + 1) : T.rows[i].turn = t /\ T.rows[i].role = role
  BY <1>2 DEF Conv!Has, Conv!Rows
<1>7. \A i : i \in 1..(Len(S.rows) + 1) <=> i \in 1..Len(S.rows) \/ i = Len(S.rows) + 1
  BY <1>2
<1> QED
  BY <1>3, <1>4, <1>5, <1>6, <1>7

\* What other threads do is noted for every turn that is being recorded.
LEMMA NoteAdds ==
  ASSUME ConvType, NEW what \in {"cut", "undone", "erased"}, NEW who, Conv!Note(what, who),
         NEW t \in Turns
  PROVE  mishap'[t] = IF t \in who THEN mishap[t] \cup {what} ELSE mishap[t]
BY DEF Conv!Note

\* A commit or a rollback, by the thread of a turn that is about to be answered
\* or refused, or by another, leaves every other turn as it should be.
LEMMA CommitKeepsTurn ==
  ASSUME TurnInv, NEW u \in Turns, NEW t, Conv!CommitBy(t), call'[u].pc = call[u].pc, u # t
  PROVE  TurnOK(u)'
<1>1. TurnOK(u) /\ durable' = view /\ view' = view
  BY DEF TurnInv, Conv!CommitBy
<1>2. mishap'[u] = IF u \in Conv!BeingRecorded \ {t} THEN mishap[u] \cup {"cut"} ELSE mishap[u]
  BY NoteAdds DEF Conv!CommitBy, TurnInv
<1>3. call[u].pc = "agent" => "cut" \in mishap'[u]
  BY <1>2 DEF Conv!BeingRecorded, Conv!Recording
<1>4. Lost(u) <=> Lost(u)'
  BY <1>2 DEF Lost
<1>5. "cut" \in mishap[u] => "cut" \in mishap'[u]
  BY <1>2
<1>6. Conv!Has(durable', u, "user") <=> Conv!Has(view, u, "user")
  BY <1>1
<1> QED
  BY <1>1, <1>3, <1>4, <1>5 DEF TurnOK, HalfIsNoted, Conv!Whole

\* A rollback by one question leaves another whole, or notes that it was undone.
LEMMA RollbackKeepsTurn ==
  ASSUME TurnInv, NEW u \in Turns, NEW t, Conv!RollbackBy(t), call'[u].pc = call[u].pc, u # t
  PROVE  TurnOK(u)'
<1>1. TurnOK(u) /\ durable' = durable /\ view' = durable
  BY DEF TurnInv, Conv!RollbackBy
<1>2. mishap'[u] = IF u \in Conv!BeingRecorded \ {t} THEN mishap[u] \cup {"undone"}
                   ELSE mishap[u]
  BY NoteAdds DEF Conv!RollbackBy, TurnInv
<1>3. call[u].pc \in {"agent", "commit"} => Lost(u)'
  BY <1>2 DEF Conv!BeingRecorded, Conv!Recording, Lost
<1>4. Lost(u) => Lost(u)'
  BY <1>2 DEF Lost
<1>5. "cut" \in mishap[u] => "cut" \in mishap'[u]
  BY <1>2
<1> QED
  BY <1>1, <1>3, <1>4, <1>5 DEF TurnOK, HalfIsNoted, Conv!Whole

\* A step of a request keeps the turns: its own, and the others.
LEMMA TurnServe ==
  ASSUME TurnInv, NEW t \in Turns, Conv!Serve(t)
  PROVE  TurnInv'
<1>1. PICK c \in Conv!Call :
           /\ c.tries <= MaxRetries /\ c.here = call[t].here
           /\ call' = [call EXCEPT ![t] = c]
           /\ Served(t, c)
           /\ UNCHANGED <<screen, app, resetting, upsets>>
  BY ServeActs DEF TurnInv, ConvType
<1>2. ConvType'
  BY ConvTypeServe DEF TurnInv
<1>3. \A u \in Turns : call'[u] = IF u = t THEN c ELSE call[u]
  BY <1>1 DEF TurnInv, ConvType, Conv!TypeOK
<1> SUFFICES ASSUME NEW u \in Turns PROVE TurnOK(u)'
  BY <1>2 DEF TurnInv
<1>4. TurnOK(u)
  BY DEF TurnInv
<1>5. CASE Thinks(t, c)
  BY <1>3, <1>4, <1>5 DEF Thinks, TurnOK, HalfIsNoted, Lost, Conv!Whole
<1>6. CASE Opens(t, c)
  <2>1. view'.rows = view.rows
    BY <1>6 DEF Opens, TurnInv, ConvType, Conv!TypeOK, Conv!Store
  <2>2. \A role : Conv!Has(view', u, role) <=> Conv!Has(view, u, role)
    BY <2>1 DEF Conv!Has, Conv!Rows
  <2>3. call'[u].pc = call[u].pc \/ (call[u].pc = "session" /\ call'[u].pc = "user")
    BY <1>3, <1>6 DEF Opens
  <2>4. durable' = durable /\ mishap' = mishap
    BY <1>6 DEF Opens
  <2> QED
    BY <1>4, <2>2, <2>3, <2>4 DEF TurnOK, HalfIsNoted, Lost, Conv!Whole
<1>7. ASSUME NEW role \in {"user", "agent"}, Inserts(t, c, role)
      PROVE  TurnOK(u)'
  <2> DEFINE row == [session |-> call[t].session, turn |-> t, role |-> role, at |-> call[t].at]
  <2>1. view \in Conv!Store /\ call[t] \in Conv!Call
    BY DEF TurnInv, ConvType, Conv!TypeOK
  <2>2. row \in Conv!Row
    BY <1>7, <2>1 DEF Inserts, Conv!Store, Conv!Row, Conv!Roles, Conv!Call
  <2>3. view' = [view EXCEPT !.rows = Append(view.rows, row)]
    BY <1>7 DEF Inserts
  <2>4. row.turn = t /\ row.role = role
    OBVIOUS
  <2> HIDE DEF row
  <2>5. \A r : Conv!Has(view', u, r) <=> Conv!Has(view, u, r) \/ (t = u /\ role = r)
    BY <2>1, <2>2, <2>3, <2>4, HasAppended
  <2>6. durable' = durable /\ mishap' = mishap
    BY <1>7 DEF Inserts
  <2>7. call[t].pc = role /\ c.pc = IF role = "user" THEN "agent" ELSE "commit"
    BY <1>7 DEF Inserts
  <2>8. CASE u # t
    <3>1. call'[u] = call[u] /\ \A r : Conv!Has(view', u, r) <=> Conv!Has(view, u, r)
      BY <1>3, <2>5, <2>8
    <3> QED
      BY <1>4, <2>6, <3>1 DEF TurnOK, HalfIsNoted, Lost, Conv!Whole
  <2>9. CASE u = t /\ role = "user"
    BY <1>3, <1>4, <2>5, <2>6, <2>7, <2>9 DEF TurnOK, HalfIsNoted, Lost, Conv!Whole
  <2>10. CASE u = t /\ role = "agent"
    BY <1>3, <1>4, <2>5, <2>6, <2>7, <2>10 DEF TurnOK, HalfIsNoted, Lost, Conv!Whole
  <2> QED
    BY <2>8, <2>9, <2>10
<1>8. CASE Commits(t, c)
  <2>1. CASE u # t
    BY <1>3, <1>8, <2>1, CommitKeepsTurn DEF Commits
  <2>2. CASE u = t
    <3>1. call[u].pc = "commit" /\ call'[u].pc = "answered"
      BY <1>3, <1>8, <2>2 DEF Commits
    <3>2. durable' = view /\ view' = view
      BY <1>8 DEF Commits, Conv!CommitBy
    <3>3. mishap'[u] = mishap[u]
      <4>1. Conv!Note("cut", Conv!BeingRecorded \ {t})
        BY <1>8 DEF Commits, Conv!CommitBy
      <4>2. mishap'[u] = IF u \in Conv!BeingRecorded \ {t} THEN mishap[u] \cup {"cut"}
                         ELSE mishap[u]
        BY <4>1, NoteAdds DEF TurnInv
      <4> QED
        BY <2>2, <4>2
    <3> QED
      BY <1>4, <3>1, <3>2, <3>3 DEF TurnOK, HalfIsNoted, Lost, Conv!Whole
  <2> QED
    BY <2>1, <2>2
<1>9. CASE Fails(t, c)
  <2>1. CASE u # t
    BY <1>3, <1>9, <2>1, RollbackKeepsTurn DEF Fails
  <2>2. CASE u = t
    <3>1. call'[u].pc = "refused"
      BY <1>3, <1>9, <2>2 DEF Fails
    <3>2. durable' = durable /\ view' = durable
      BY <1>9 DEF Fails, Conv!RollbackBy
    <3>3. mishap'[u] = mishap[u]
      <4>1. Conv!Note("undone", Conv!BeingRecorded \ {t})
        BY <1>9 DEF Fails, Conv!RollbackBy
      <4>2. mishap'[u] = IF u \in Conv!BeingRecorded \ {t} THEN mishap[u] \cup {"undone"}
                         ELSE mishap[u]
        BY <4>1, NoteAdds DEF TurnInv
      <4> QED
        BY <2>2, <4>2
    <3> QED
      BY <1>4, <3>1, <3>2, <3>3 DEF TurnOK, HalfIsNoted, Lost, Conv!Whole
  <2> QED
    BY <2>1, <2>2
<1> QED
  BY <1>1, <1>5, <1>6, <1>7, <1>8, <1>9 DEF Served

\* So do the writes of other routes, a restart, and a reset.
LEMMA TurnOthers ==
  ASSUME TurnInv,
         \/ Conv!OtherWrites \/ Conv!Restart
         \/ Conv!AskReset \/ Conv!CommitReset \/ Conv!ResetFails
  PROVE  TurnInv'
<1>1. ConvType'
  BY ConvTypeOthers DEF TurnInv
<1> SUFFICES ASSUME NEW u \in Turns PROVE TurnOK(u)'
  BY <1>1 DEF TurnInv
<1>2. TurnOK(u) /\ u # 0
  BY ConversationsAssumption DEF TurnInv, Conv!Assumptions
<1>3. CASE Conv!OtherWrites
  BY <1>2, <1>3, CommitKeepsTurn, RollbackKeepsTurn DEF Conv!OtherWrites
<1>4. CASE Conv!CommitReset
  BY <1>2, <1>4, CommitKeepsTurn DEF Conv!CommitReset
<1>5. CASE Conv!ResetFails
  BY <1>2, <1>5, RollbackKeepsTurn DEF Conv!ResetFails
<1>6. CASE Conv!Restart
  <2>1. call[u] \in Conv!Call
    BY DEF TurnInv, ConvType, Conv!TypeOK
  <2>2. call'[u].pc = IF call[u].pc \in Conv!Served THEN "refused" ELSE call[u].pc
    <3>1. CASE call[u].pc \in Conv!Served
      <4>1. call'[u] = [call[u] EXCEPT !.pc = "refused", !.tries = 0, !.at = 0]
        BY <1>6, <3>1 DEF Conv!Restart
      <4> DEFINE v == [call[u] EXCEPT !.pc = "refused", !.tries = 0]
      <4>2. v.pc = "refused" /\ v \in Conv!Call
        BY <2>1, CallTyped DEF Conv!Call
      <4>3. call'[u] = [v EXCEPT !.at = 0]
        BY <4>1
      <4> HIDE DEF v
      <4> QED
        BY <3>1, <4>2, <4>3 DEF Conv!Call
    <3>2. CASE call[u].pc \notin Conv!Served
      BY <1>6, <3>2 DEF Conv!Restart
    <3> QED
      BY <3>1, <3>2
  <2>3. view' = durable /\ durable' = durable /\ mishap' = mishap
    BY <1>6 DEF Conv!Restart
  <2>4. call'[u].pc \notin {"agent", "commit"}
        /\ (call'[u].pc \in {"answered", "shown"} => call[u].pc = call'[u].pc)
    BY <2>2 DEF Conv!Served, Conv!Recording
  <2> QED
    BY <1>2, <2>3, <2>4 DEF TurnOK, HalfIsNoted, Lost, Conv!Whole
<1>7. CASE Conv!AskReset
  <2>1. durable' = durable /\ view' = Conv!EmptyStore /\ call' = call
    BY <1>7 DEF Conv!AskReset
  <2>2. \A role : ~Conv!Has(view', u, role)
    BY <2>1 DEF Conv!Has, Conv!Rows, Conv!EmptyStore
  <2>3. mishap'[u] = IF call[u].pc \notin {"unasked", "refused", "failed"}
                     THEN mishap[u] \cup {"erased"} ELSE mishap[u]
    BY <1>7, NoteAdds DEF Conv!AskReset, TurnInv
  <2>4. call[u].pc \in {"agent", "commit", "answered", "shown"} => Lost(u)'
    BY <2>3 DEF Lost
  <2>5. (Lost(u) => Lost(u)') /\ ("cut" \in mishap[u] => "cut" \in mishap'[u])
    BY <2>3 DEF Lost
  <2> QED
    BY <1>2, <2>1, <2>2, <2>4, <2>5 DEF TurnOK, HalfIsNoted, Conv!Whole
<1> QED
  BY <1>3, <1>4, <1>5, <1>6, <1>7

\* And so does the browser.
LEMMA TurnBrowser ==
  ASSUME TurnInv, BrowserStep
  PROVE  TurnInv'
<1>1. ConvType' /\ CallsKept /\ UNCHANGED <<durable, view, clock, mishap>>
  BY BrowserActs DEF TurnInv
<1> SUFFICES ASSUME NEW u \in Turns PROVE TurnOK(u)'
  BY <1>1 DEF TurnInv
<1>2. TurnOK(u)
  BY DEF TurnInv
<1>3. \/ call'[u].pc = call[u].pc \/ call'[u].pc \in {"sent", "failed"}
      \/ call[u].pc = "answered" /\ call'[u].pc = "shown"
  BY <1>1 DEF CallsKept, Asks, Takes
<1>4. call[u].pc = "agent" => call'[u].pc = "agent"
  BY <1>1 DEF CallsKept, Asks, Takes
<1> QED
  BY <1>1, <1>2, <1>3, <1>4 DEF TurnOK, HalfIsNoted, Lost, Conv!Whole

\* At the start the earlier turns are stored whole, and no other.
LEMMA TurnInit == ASSUME Conv!Init PROVE TurnInv
<1> DEFINE n == Cardinality(Earlier)
<1>1. ConvType
  <2>1. \A t \in Turns : call[t].pc \in Resolved => call[t].session \in Turns
    <3> SUFFICES ASSUME NEW t \in Turns, call[t].pc \in Resolved
                 PROVE  call[t].session \in Turns
      OBVIOUS
    <3>1. t \in Earlier /\ call[t].session = Conv!EarlierSession
      BY DEF Conv!Init, Resolved, Conv!Recording
    <3>2. 1 \in Earlier
      BY <3>1, EarlierTyped
    <3> QED
      BY <3>1, <3>2, ConversationsAssumption DEF Conv!EarlierSession, Conv!Assumptions
  <2> QED
    BY <2>1, ConvTypeInit DEF ConvType
<1>2. n \in Nat /\ Earlier = 1..n /\ DOMAIN Conv!EarlierRows = 1..2 * n
  BY EarlierTyped
<1> HIDE DEF n
<1>3. \A k \in 1..2 * n : /\ Conv!EarlierRows[k].turn = (k + 1) \div 2
                          /\ Conv!EarlierRows[k].role = IF k % 2 = 1 THEN "user" ELSE "agent"
  BY SameSets DEF Conv!EarlierRows, n
<1>4. durable.rows = Conv!EarlierRows /\ view = durable
  BY DEF Conv!Init
<1> SUFFICES ASSUME NEW t \in Turns PROVE TurnOK(t)
  BY <1>1 DEF TurnInv
<1>5. CASE t \in Earlier
  <2>1. t \in 1..n
    BY <1>2, <1>5
  <2>2. 2 * t - 1 \in 1..2 * n /\ 2 * t \in 1..2 * n
    BY <1>2, <2>1
  <2>3. /\ (2 * t - 1 + 1) \div 2 = t /\ (2 * t + 1) \div 2 = t
        /\ (2 * t - 1) % 2 = 1 /\ (2 * t) % 2 # 1
    BY <1>2, <2>1
  <2>4. /\ durable.rows[2 * t - 1].turn = t /\ durable.rows[2 * t - 1].role = "user"
        /\ durable.rows[2 * t].turn = t /\ durable.rows[2 * t].role = "agent"
    BY <1>3, <1>4, <2>2, <2>3
  <2>5. Conv!Whole(durable, t)
    BY <1>2, <1>4, <2>2, <2>4 DEF Conv!Whole, Conv!Has, Conv!Rows
  <2>6. call[t].pc = "shown"
    BY <1>5 DEF Conv!Init
  <2> QED
    BY <1>4, <2>5, <2>6 DEF TurnOK, HalfIsNoted, Conv!Whole
<1>6. CASE t \notin Earlier
  <2>1. \A k \in 1..2 * n : durable.rows[k].turn # t
    <3> TAKE k \in 1..2 * n
    <3>1. (k + 1) \div 2 \in 1..n
      BY <1>2
    <3> QED
      BY <1>2, <1>3, <1>4, <1>6, <3>1
  <2>2. \A role : ~Conv!Has(durable, t, role)
    BY <1>2, <1>4, <2>1 DEF Conv!Has, Conv!Rows
  <2>3. call[t].pc = "unasked"
    BY <1>6 DEF Conv!Init
  <2> QED
    BY <1>4, <2>2, <2>3 DEF TurnOK, HalfIsNoted
<1> QED
  BY <1>5, <1>6

\* Every step keeps the turns.
LEMMA TurnNext == ASSUME TurnInv, [Next]_vars PROVE TurnInv'
<1>1. CASE Conv!Next
  <2>1. CASE \E t \in Turns : Conv!Serve(t)
    BY <2>1, TurnServe
  <2>2. CASE Conv!OtherWrites \/ Conv!Restart \/ Conv!AskReset \/ Conv!CommitReset
             \/ Conv!ResetFails
    BY <2>2, TurnOthers
  <2>3. CASE BrowserStep
    BY <2>3, TurnBrowser
  <2> QED
    BY <1>1, <2>1, <2>2, <2>3 DEF Conv!Next, BrowserStep
<1>2. CASE UNCHANGED convVars
  BY <1>2 DEF convVars, TurnInv, ConvType, Conv!TypeOK, TurnOK, HalfIsNoted, Lost, Conv!Whole
<1> QED
  BY <1>1, <1>2 DEF Next, vars

\* record_conversation_turn(): whatever the number of questions, retries, windows,
\* restarts and resets, half a turn is stored only where another thread committed,
\* rolled back or reset in the middle of it.
THEOREM TurnsStayWhole == Spec => []TurnsAreWhole
<1>1. Init => TurnInv
  BY TurnInit DEF Init
<1>2. TurnInv /\ [Next]_vars => TurnInv'
  BY TurnNext
<1>3. TurnInv => TurnsAreWhole
  BY DEF TurnInv, TurnOK, HalfIsNoted, Lost, TurnsAreWhole, Conv!TurnsAreWhole
<1> QED
  BY <1>1, <1>2, <1>3, PTL DEF Spec

\* What the user was given as an answer is in the database, unless another thread
\* rolled it back while it was recorded, or all data were reset.
THEOREM AnswersStay == Spec => []AnswersAreKept
<1>1. Init => TurnInv
  BY TurnInit DEF Init
<1>2. TurnInv /\ [Next]_vars => TurnInv'
  BY TurnNext
<1>3. TurnInv => AnswersAreKept
  BY DEF TurnInv, TurnOK, Lost, AnswersAreKept, Conv!AnswersAreKept
<1> QED
  BY <1>1, <1>2, <1>3, PTL DEF Spec

-----------------------------------------------------------------------------
(* The conversations: answers are seen. A question that was asked in the    *)
(* window has its bubble there until the history overwrites the bubbles,    *)
(* and the history is only awaited once.                                    *)

StatusOf(t) ==
  CASE call[t].pc = "shown" -> "done" [] call[t].pc = "failed" -> "error" [] OTHER -> "pending"
HasBubble(t) ==
  \E k \in DOMAIN screen.bubbles :
    screen.bubbles[k].turn = t /\ screen.bubbles[k].status = StatusOf(t)
SeenInv ==
  /\ ConvType
  /\ screen.loading => ~screen.overwritten
  /\ \A t \in Turns :
       /\ call[t].pc = "unasked" => ~call[t].here
       /\ call[t].here /\ ~screen.overwritten => HasBubble(t)

\* Before the first question there is no answer to show.
LEMMA SeenInit == ASSUME Conv!Init PROVE SeenInv
<1>1. ConvType
  BY TurnInit DEF TurnInv
<1>2. \A t \in Turns : ~call[t].here
  BY DEF Conv!Init
<1>3. ~screen.overwritten
  BY DEF Conv!Init, Conv!Mounted
<1> QED
  BY <1>1, <1>2, <1>3 DEF SeenInv

\* What the API does settles no bubble.
LEMMA SeenApi ==
  ASSUME SeenInv, ConvType', screen' = screen,
         \A t \in Turns : /\ call'[t].here = call[t].here
                          /\ \/ call'[t].pc = call[t].pc
                             \/ /\ call[t].pc \notin {"unasked", "shown", "failed"}
                                /\ call'[t].pc \notin {"unasked", "shown", "failed"}
  PROVE  SeenInv'
<1> SUFFICES ASSUME NEW t \in Turns
             PROVE  /\ call'[t].pc = "unasked" => ~call'[t].here
                    /\ call'[t].here /\ ~screen'.overwritten => HasBubble(t)'
  BY DEF SeenInv
<1>1. StatusOf(t)' = StatusOf(t)
  BY DEF StatusOf
<1> QED
  BY <1>1 DEF SeenInv, HasBubble

\* A new window has no question of its own.
LEMMA SeenMounted ==
  ASSUME SeenInv, ConvType', Conv!Unmount, screen'.loading => ~screen'.overwritten
  PROVE  SeenInv'
BY UnmountKeeps DEF SeenInv

\* A step of the browser keeps what it shows for its questions.
LEMMA SeenBrowser ==
  ASSUME SeenInv, BrowserStep
  PROVE  SeenInv'
<1>1. ConvType' /\ CallsKept
  BY BrowserActs DEF SeenInv
<1>2. /\ call \in [Turns -> Conv!Call] /\ screen \in Conv!Screen
      /\ screen.bubbles \in Seq(Conv!Bubble) /\ \A t \in Turns : call[t] \in Conv!Call
  BY DEF SeenInv, ConvType, Conv!TypeOK, Conv!Screen
<1>3. \A n, s : ~Conv!Mounted(n, s).overwritten
  BY DEF Conv!Mounted
<1>4. ASSUME NEW s, Conv!Mount(s) PROVE SeenInv'
  BY <1>1, <1>3, <1>4, SeenMounted DEF Conv!Mount
<1>5. CASE Conv!LeaveChat
  <2>1. ~screen'.overwritten
    BY <1>5 DEF Conv!LeaveChat, Conv!Mounted
  <2> QED
    BY <1>1, <1>5, <2>1, SeenMounted DEF Conv!LeaveChat
<1>6. CASE Conv!TakeReset
  <2>1. screen'.loading => ~screen'.overwritten
    BY <1>3, <1>6 DEF Conv!TakeReset, SeenInv
  <2> QED
    BY <1>1, <1>6, <2>1, SeenMounted DEF Conv!TakeReset
<1>7. CASE Conv!TakeHistory
  <2>1. /\ screen.loading /\ call' = call
        /\ screen'.overwritten = (screen.bubbles # <<>>)
        /\ screen'.loading = FALSE
    BY <1>2, <1>7 DEF Conv!TakeHistory, Conv!Screen
  <2>2. screen.bubbles = <<>> => \A t \in Turns : ~call[t].here
    BY <2>1 DEF SeenInv, HasBubble
  <2> QED
    BY <1>1, <2>1, <2>2 DEF SeenInv
<1>8. ASSUME NEW t \in Turns, Conv!Submit(t) PROVE SeenInv'
  <2> DEFINE two == <<[turn |-> t, role |-> "user", status |-> "asked"],
                      [turn |-> t, role |-> "agent", status |-> "pending"]>>
             n == Len(screen.bubbles)
  <2>1. /\ screen'.bubbles = screen.bubbles \o two
        /\ screen'.loading = screen.loading /\ screen'.overwritten = screen.overwritten
    BY <1>2, <1>8 DEF Conv!Submit, Conv!Screen
  <2>2. call[t].pc = "unasked" /\ call'[t].pc = "sent"
    <3> DEFINE c == [call[t] EXCEPT !.pc = "sent", !.here = TRUE]
    <3>1. c.pc = "sent" /\ c \in Conv!Call
      BY <1>2 DEF Conv!Call, Conv!Served
    <3>2. call'[t] = [c EXCEPT !.session = screen.session]
      BY <1>2, <1>8 DEF Conv!Submit
    <3> HIDE DEF c
    <3> QED
      BY <1>8, <3>1, <3>2 DEF Conv!Submit, Conv!Call
  <2>3. \A u \in Turns : u # t => call'[u] = call[u]
    BY <1>2, <1>8 DEF Conv!Submit
  <2>4. /\ n \in Nat /\ DOMAIN screen.bubbles = 1..n /\ DOMAIN screen'.bubbles = 1..(n + 2)
        /\ \A k \in 1..n : screen'.bubbles[k] = screen.bubbles[k]
        /\ screen'.bubbles[n + 2] = two[2]
    BY <1>2, <2>1
  <2>5. HasBubble(t)'
    <3>1. StatusOf(t)' = "pending"
      BY <2>2 DEF StatusOf
    <3>2. two[2].turn = t /\ two[2].status = "pending"
      OBVIOUS
    <3>3. n + 2 \in DOMAIN screen'.bubbles
      BY <2>4
    <3> QED
      BY <2>4, <3>1, <3>2, <3>3 DEF HasBubble
  <2> HIDE DEF two, n
  <2>6. ASSUME NEW u \in Turns, u # t, HasBubble(u) PROVE HasBubble(u)'
    <3>1. StatusOf(u)' = StatusOf(u)
      BY <2>3, <2>6 DEF StatusOf
    <3>2. PICK k \in 1..n : screen.bubbles[k].turn = u /\ screen.bubbles[k].status = StatusOf(u)
      BY <2>4, <2>6 DEF HasBubble
    <3>3. k \in DOMAIN screen'.bubbles
      BY <2>4
    <3> QED
      BY <2>4, <3>1, <3>2, <3>3 DEF HasBubble
  <2> QED
    BY <1>1, <2>1, <2>2, <2>3, <2>5, <2>6 DEF SeenInv
<1>9. ASSUME NEW t \in Turns, NEW status \in {"done", "error"},
             NEW p \in {"shown", "failed"}, status = IF p = "shown" THEN "done" ELSE "error",
             call[t].pc = IF p = "shown" THEN "answered" ELSE "refused",
             call' = [call EXCEPT ![t].pc = p],
             \/ screen' = screen /\ ~call[t].here
             \/ /\ screen'.loading = screen.loading /\ screen'.overwritten = screen.overwritten
                /\ screen'.bubbles = Conv!Settled(t, status)
      PROVE  SeenInv'
  <2>1. /\ call'[t].pc = p /\ call'[t].here = call[t].here
        /\ \A u \in Turns : u # t => call'[u] = call[u]
    BY <1>2, <1>9 DEF Conv!Call
  <2>2. screen'.loading => ~screen'.overwritten
    BY <1>9 DEF SeenInv
  <2>3. StatusOf(t) = "pending" /\ StatusOf(t)' = status
    BY <1>9, <2>1 DEF StatusOf
  <2>4. \A u \in Turns : u # t => StatusOf(u)' = StatusOf(u)
    BY <2>1 DEF StatusOf
  <2>5. CASE screen' = screen /\ ~call[t].here
    <3>1. \A u \in Turns : u # t /\ HasBubble(u) => HasBubble(u)'
      BY <2>4, <2>5 DEF HasBubble
    <3> QED
      BY <1>1, <1>9, <2>1, <2>2, <2>5, <3>1 DEF SeenInv
  <2>6. CASE /\ screen'.overwritten = screen.overwritten
             /\ screen'.bubbles = Conv!Settled(t, status)
    <3>1. DOMAIN screen'.bubbles = DOMAIN screen.bubbles
      BY <2>6 DEF Conv!Settled
    <3>2. ASSUME NEW k \in DOMAIN screen.bubbles
          PROVE  /\ screen'.bubbles[k].turn = screen.bubbles[k].turn
                 /\ screen'.bubbles[k].status =
                      IF screen.bubbles[k].turn = t /\ screen.bubbles[k].status = "pending"
                      THEN status ELSE screen.bubbles[k].status
      <4>1. screen.bubbles[k] \in Conv!Bubble
        BY <1>2
      <4> QED
        BY <2>6, <4>1 DEF Conv!Settled, Conv!Bubble
    <3>3. ASSUME NEW u \in Turns, HasBubble(u) PROVE HasBubble(u)'
      <4>1. PICK k \in DOMAIN screen.bubbles :
              screen.bubbles[k].turn = u /\ screen.bubbles[k].status = StatusOf(u)
        BY <3>3 DEF HasBubble
      <4>2. screen'.bubbles[k].turn = u /\ screen'.bubbles[k].status = StatusOf(u)'
        BY <2>3, <2>4, <3>2, <4>1
      <4> QED
        BY <3>1, <4>2 DEF HasBubble
    <3> QED
      BY <1>1, <1>9, <2>1, <2>2, <2>6, <3>3 DEF SeenInv
  <2> QED
    BY <1>9, <2>5, <2>6
<1>10. ASSUME NEW t \in Turns, Conv!TakeAnswer(t) PROVE SeenInv'
  <2>1. CASE call[t].here
    <3>1. /\ screen'.loading = screen.loading /\ screen'.overwritten = screen.overwritten
          /\ screen'.bubbles = Conv!Settled(t, "done")
      <4> DEFINE b == Conv!Settled(t, "done")
                 s == call[t].session
      <4>1. screen' = [screen EXCEPT !.session = s, !.sending = 0, !.bubbles = b]
        BY <1>10, <2>1 DEF Conv!TakeAnswer
      <4> HIDE DEF b, s
      <4>2. /\ screen'.loading = screen.loading /\ screen'.overwritten = screen.overwritten
            /\ screen'.bubbles = b
        BY <1>2, <4>1 DEF Conv!Screen
      <4> QED
        BY <4>2 DEF b
    <3> QED
      BY <1>9, <1>10, <3>1 DEF Conv!TakeAnswer
  <2>2. CASE ~call[t].here
    BY <1>9, <1>10, <2>2 DEF Conv!TakeAnswer
  <2> QED
    BY <2>1, <2>2
<1>11. ASSUME NEW t \in Turns, Conv!TakeError(t) PROVE SeenInv'
  <2>1. CASE call[t].here
    <3>1. /\ screen'.loading = screen.loading /\ screen'.overwritten = screen.overwritten
          /\ screen'.bubbles = Conv!Settled(t, "error")
      <4> DEFINE b == Conv!Settled(t, "error")
      <4>1. screen' = [screen EXCEPT !.sending = 0, !.bubbles = b]
        BY <1>11, <2>1 DEF Conv!TakeError
      <4> HIDE DEF b
      <4>2. /\ screen'.loading = screen.loading /\ screen'.overwritten = screen.overwritten
            /\ screen'.bubbles = b
        BY <1>2, <4>1 DEF Conv!Screen
      <4> QED
        BY <4>2 DEF b
    <3> QED
      BY <1>9, <1>11, <3>1 DEF Conv!TakeError
  <2>2. CASE ~call[t].here
    BY <1>9, <1>11, <2>2 DEF Conv!TakeError
  <2> QED
    BY <2>1, <2>2
<1> QED
  BY <1>4, <1>5, <1>6, <1>7, <1>8, <1>10, <1>11
     DEF BrowserStep, Conv!Take, Conv!NewChat, Conv!SelectSession, Conv!OpenChat

\* Every step keeps what is seen.
LEMMA SeenNext == ASSUME SeenInv, [Next]_vars PROVE SeenInv'
<1>1. ASSUME NEW t \in Turns, Conv!Serve(t) PROVE SeenInv'
  <2>1. PICK c \in Conv!Call :
           /\ c.tries <= MaxRetries /\ c.here = call[t].here
           /\ call' = [call EXCEPT ![t] = c]
           /\ Served(t, c)
           /\ UNCHANGED <<screen, app, resetting, upsets>>
    BY <1>1, ServeActs DEF SeenInv, ConvType
  <2>2. \A u \in Turns : call'[u] = IF u = t THEN c ELSE call[u]
    BY <2>1 DEF SeenInv, ConvType, Conv!TypeOK
  <2>3. /\ call[t].pc \notin {"unasked", "shown", "failed"}
        /\ c.pc \notin {"unasked", "shown", "failed"}
    BY <2>1 DEF Served, Thinks, Opens, Inserts, Commits, Fails, Conv!Recording
  <2> QED
    BY <1>1, <2>1, <2>2, <2>3, ConvTypeServe, SeenApi DEF SeenInv
<1>2. CASE Conv!OtherWrites \/ Conv!AskReset \/ Conv!CommitReset \/ Conv!ResetFails
  <2>1. call' = call /\ screen' = screen
    BY <1>2 DEF Conv!OtherWrites, Conv!AskReset, Conv!CommitReset, Conv!ResetFails
  <2> QED
    BY <1>2, <2>1, ConvTypeOthers, SeenApi DEF SeenInv
<1>3. CASE Conv!Restart
  <2>1. ASSUME NEW u \in Turns
        PROVE  /\ call'[u].here = call[u].here
               /\ \/ call'[u].pc = call[u].pc
                  \/ /\ call[u].pc \notin {"unasked", "shown", "failed"}
                     /\ call'[u].pc \notin {"unasked", "shown", "failed"}
    <3>1. CASE call[u].pc \in Conv!Served
      <4>1. call'[u] = [call[u] EXCEPT !.pc = "refused", !.tries = 0, !.at = 0]
        BY <1>3, <3>1 DEF Conv!Restart
      <4> DEFINE v == [call[u] EXCEPT !.pc = "refused", !.tries = 0]
      <4>2. call[u] \in Conv!Call
        BY DEF SeenInv, ConvType, Conv!TypeOK
      <4>3. v.pc = "refused" /\ v.here = call[u].here /\ v \in Conv!Call
        BY <4>2, CallTyped DEF Conv!Call
      <4>4. call'[u] = [v EXCEPT !.at = 0]
        BY <4>1
      <4> HIDE DEF v
      <4>5. call'[u].pc = "refused" /\ call'[u].here = call[u].here
        BY <4>3, <4>4 DEF Conv!Call
      <4> QED
        BY <3>1, <4>5 DEF Conv!Served, Conv!Recording
    <3>2. CASE call[u].pc \notin Conv!Served
      BY <1>3, <3>2 DEF Conv!Restart
    <3> QED
      BY <3>1, <3>2
  <2>2. screen' = screen
    BY <1>3 DEF Conv!Restart
  <2> QED
    BY <1>3, <2>1, <2>2, ConvTypeOthers, SeenApi DEF SeenInv
<1>4. CASE UNCHANGED convVars
  <2>1. ConvType'
    BY <1>4 DEF convVars, SeenInv, ConvType, Conv!TypeOK
  <2> QED
    BY <1>4, <2>1, SeenApi DEF convVars
<1>5. CASE Conv!Next
  BY <1>1, <1>2, <1>3, <1>5, SeenBrowser DEF Conv!Next, BrowserStep
<1> QED
  BY <1>4, <1>5 DEF Next, vars

\* ChatWindow: whatever is mounted, left, reset or restarted in between, an answer
\* or an error that arrives in the window that asked is seen there, unless the
\* history came after the question.
THEOREM AnswersStaySeen == Spec => []AnswersAreSeen
<1>1. Init => SeenInv
  BY SeenInit DEF Init
<1>2. SeenInv /\ [Next]_vars => SeenInv'
  BY SeenNext
<1>3. SeenInv => AnswersAreSeen
  BY DEF SeenInv, HasBubble, StatusOf, AnswersAreSeen, Conv!AnswersAreSeen
<1> QED
  BY <1>1, <1>2, <1>3, PTL DEF Spec

-----------------------------------------------------------------------------
(* The conversations: the history alternates. What is in the tables, or is  *)
(* being recorded, ties a turn to one created_at and one session; each turn *)
(* has one row of each role at most, the question's before the answer's.    *)

Early == {"unasked", "sent", "condensing", "answering", "session", "user"}
InRows(S, t, a, s) ==
  \E i \in DOMAIN S.rows :
    S.rows[i].turn = t /\ S.rows[i].at = a /\ S.rows[i].session = s
Claimed(V, D, c, t, a, s) ==
  \/ InRows(V, t, a, s) \/ InRows(D, t, a, s)
  \/ t \in Turns /\ c[t].pc \in Conv!Recording /\ c[t].at = a /\ c[t].session = s
ClaimsOK(V, D, c, n) ==
  \A t, u, a, b, s, v :
    Claimed(V, D, c, t, a, s) /\ Claimed(V, D, c, u, b, v) =>
      /\ t = u <=> a = b
      /\ t = u => s = v
      /\ a <= n
RowsOK(S, c) ==
  /\ \A i, j \in DOMAIN S.rows :
       S.rows[i].turn = S.rows[j].turn =>
         /\ S.rows[i].role = S.rows[j].role => i = j
         /\ S.rows[i].role = "user" /\ S.rows[j].role = "agent" => i < j
  /\ \A i \in DOMAIN S.rows :
       /\ c[S.rows[i].turn].pc \notin Early
       /\ c[S.rows[i].turn].pc = "agent" => S.rows[i].role = "user"
HistoryInv ==
  /\ TurnInv
  /\ ClaimsOK(view, durable, call, clock)
  /\ RowsOK(view, call) /\ RowsOK(durable, call)

\* The calls have gone on: none starts to record.
Later(c, d) ==
  \A t \in Turns :
    /\ d[t].pc \in Early => c[t].pc \in Early
    /\ d[t].pc = "agent" => c[t].pc = "agent"
    /\ d[t].pc \in Conv!Recording =>
         c[t].pc \in Conv!Recording /\ d[t].at = c[t].at /\ d[t].session = c[t].session

\* What the stores and the calls claim of times stays so as the calls go on, whether the
\* stores stay, are reset or are restored.
LEMMA LaterKeeps ==
  ASSUME NEW V, NEW D, NEW W, NEW E, NEW c, NEW d, NEW n, Later(c, d),
         ClaimsOK(V, D, c, n), RowsOK(V, c), RowsOK(D, c), V \in Conv!Store, D \in Conv!Store,
         W \in {V, D, Conv!EmptyStore}, E \in {V, D}
  PROVE  ClaimsOK(W, E, d, n) /\ RowsOK(W, d) /\ RowsOK(E, d)
<1>1. \A t, a, s : ~InRows(Conv!EmptyStore, t, a, s)
  BY DEF InRows, Conv!EmptyStore
<1>2. \A t, a, s : Claimed(W, E, d, t, a, s) => Claimed(V, D, c, t, a, s)
  <2> TAKE t, a, s
  <2>1. InRows(W, t, a, s) => InRows(V, t, a, s) \/ InRows(D, t, a, s)
    BY <1>1
  <2>2. InRows(E, t, a, s) => InRows(V, t, a, s) \/ InRows(D, t, a, s)
    OBVIOUS
  <2> QED
    BY <2>1, <2>2 DEF Claimed, Later
<1>3. ClaimsOK(W, E, d, n)
  BY <1>2 DEF ClaimsOK
<1>4. RowsOK(Conv!EmptyStore, d)
  BY DEF RowsOK, Conv!EmptyStore
<1>5. ASSUME NEW S \in Conv!Store, RowsOK(S, c) PROVE RowsOK(S, d)
  <2>1. \A i \in DOMAIN S.rows : S.rows[i].turn \in Turns
    <3> TAKE i \in DOMAIN S.rows
    <3>1. S.rows[i] \in Conv!Row
      BY DEF Conv!Store
    <3> QED
      BY <3>1 DEF Conv!Row
  <2> QED
    BY <1>5, <2>1 DEF RowsOK, Later
<1> QED
  BY <1>3, <1>4, <1>5

\* A row of a turn that is being recorded, after those that are there.
LEMMA InsertKeeps ==
  ASSUME view \in Conv!Store, durable \in Conv!Store, NEW t \in Turns,
         NEW role \in {"user", "agent"},
         NEW row \in Conv!Row, view' = [view EXCEPT !.rows = Append(view.rows, row)],
         row.turn = t, row.role = role, row.at = call[t].at, row.session = call[t].session,
         call[t].pc = role, call'[t].pc = IF role = "user" THEN "agent" ELSE "commit",
         call'[t].at = call[t].at, call'[t].session = call[t].session,
         \A u \in Turns : u # t => call'[u] = call[u],
         ClaimsOK(view, durable, call, clock), RowsOK(view, call), RowsOK(durable, call)
  PROVE  ClaimsOK(view', durable, call', clock) /\ RowsOK(view', call') /\ RowsOK(durable, call')
<1> DEFINE l == Len(view.rows)
<1>1. /\ l \in Nat /\ DOMAIN view.rows = 1..l /\ DOMAIN view'.rows = 1..(l + 1)
      /\ view'.rows[l + 1] = row /\ \A i \in 1..l : view'.rows[i] = view.rows[i]
  <2>1. view.rows \in Seq(Conv!Row) /\ view'.rows = Append(view.rows, row)
    BY DEF Conv!Store
  <2> QED
    BY <2>1
<1> HIDE DEF l
<1>2. \A i : i \in 1..(l + 1) <=> i \in 1..l \/ i = l + 1
  BY <1>1
<1>3. ASSUME NEW u, NEW a, NEW s, Claimed(view', durable, call', u, a, s)
      PROVE  Claimed(view, durable, call, u, a, s)
  <2>1. role \in Conv!Recording
    BY DEF Conv!Recording
  <2>2. CASE InRows(view', u, a, s)
    <3>1. PICK i \in 1..(l + 1) :
            view'.rows[i].turn = u /\ view'.rows[i].at = a /\ view'.rows[i].session = s
      BY <1>1, <2>2 DEF InRows
    <3>2. CASE i \in 1..l
      BY <1>1, <3>1, <3>2 DEF InRows, Claimed
    <3>3. CASE i = l + 1
      BY <1>1, <2>1, <3>1, <3>3 DEF Claimed
    <3> QED
      BY <1>2, <3>2, <3>3
  <2>3. CASE InRows(durable, u, a, s)
    BY <2>3 DEF Claimed
  <2>4. CASE u \in Turns /\ call'[u].pc \in Conv!Recording /\ call'[u].at = a /\ call'[u].session = s
    BY <2>1, <2>4 DEF Claimed
  <2> QED
    BY <1>3, <2>2, <2>3, <2>4 DEF Claimed
<1>4. ClaimsOK(view', durable, call', clock)
  BY <1>3 DEF ClaimsOK
<1>5. ASSUME NEW S \in Conv!Store, RowsOK(S, call)
      PROVE  RowsOK(S, call') /\ (\A i \in DOMAIN S.rows : S.rows[i].turn # t \/ S.rows[i].role # role)
             /\ (role = "user" => \A i \in DOMAIN S.rows : S.rows[i].turn # t)
  <2>1. \A i \in DOMAIN S.rows : S.rows[i].turn \in Turns
    <3> TAKE i \in DOMAIN S.rows
    <3>1. S.rows[i] \in Conv!Row
      BY DEF Conv!Store
    <3> QED
      BY <3>1 DEF Conv!Row
  <2>2. role = "user" => \A i \in DOMAIN S.rows : S.rows[i].turn # t
    BY <1>5 DEF RowsOK, Early
  <2>3. \A i \in DOMAIN S.rows : S.rows[i].turn # t \/ S.rows[i].role # role
    BY <1>5, <2>2 DEF RowsOK
  <2>4. \A i \in DOMAIN S.rows :
          /\ call'[S.rows[i].turn].pc \notin Early
          /\ call'[S.rows[i].turn].pc = "agent" => S.rows[i].role = "user"
    BY <1>5, <2>1, <2>2 DEF RowsOK, Early
  <2> QED
    BY <1>5, <2>2, <2>3, <2>4 DEF RowsOK
<1>6. RowsOK(view', call')
  <2>1. RowsOK(view, call')
    BY <1>5
  <2>2. \A i \in 1..l : view.rows[i].turn # t \/ view.rows[i].role # role
    BY <1>1, <1>5
  <2>3. role = "user" => \A i \in 1..l : view.rows[i].turn # t
    BY <1>1, <1>5
  <2>4. ASSUME NEW i \in 1..(l + 1), NEW j \in 1..(l + 1), view'.rows[i].turn = view'.rows[j].turn
        PROVE  /\ view'.rows[i].role = view'.rows[j].role => i = j
               /\ view'.rows[i].role = "user" /\ view'.rows[j].role = "agent" => i < j
    <3>1. CASE i \in 1..l /\ j \in 1..l
      BY <1>1, <2>1, <2>4, <3>1 DEF RowsOK
    <3>2. CASE i = l + 1 /\ j \in 1..l
      <4>1. view'.rows[i] = row /\ view'.rows[j] = view.rows[j] /\ view.rows[j].turn = t
        BY <1>1, <2>4, <3>2
      <4>2. role # "user" /\ view.rows[j].role # role
        BY <2>2, <2>3, <3>2, <4>1
      <4> QED
        BY <4>1, <4>2
    <3>3. CASE i \in 1..l /\ j = l + 1
      BY <1>1, <2>2, <2>3, <2>4, <3>3
    <3>4. CASE i = l + 1 /\ j = l + 1
      BY <1>1, <3>4
    <3> QED
      BY <1>2, <3>1, <3>2, <3>3, <3>4
  <2>5. ASSUME NEW i \in 1..(l + 1)
        PROVE  /\ call'[view'.rows[i].turn].pc \notin Early
               /\ call'[view'.rows[i].turn].pc = "agent" => view'.rows[i].role = "user"
    <3>1. CASE i \in 1..l
      BY <1>1, <2>1, <3>1 DEF RowsOK
    <3>2. CASE i = l + 1
      BY <1>1, <3>2 DEF Early
    <3> QED
      BY <1>2, <3>1, <3>2
  <2> QED
    BY <1>1, <2>4, <2>5 DEF RowsOK
<1> QED
  BY <1>4, <1>5, <1>6

\* A turn takes its created_at, later than any other.
LEMMA OpenKeeps ==
  ASSUME NEW V \in Conv!Store, NEW D \in Conv!Store, NEW n \in Nat, NEW t \in Turns,
         NEW c \in [Turns -> Conv!Call], NEW d, NEW W, W.rows = V.rows,
         c[t].pc = "session", d[t].pc = "user", d[t].at = n + 1,
         \A u \in Turns : u # t => d[u] = c[u],
         ClaimsOK(V, D, c, n), RowsOK(V, c), RowsOK(D, c)
  PROVE  ClaimsOK(W, D, d, n + 1) /\ RowsOK(W, d) /\ RowsOK(D, d)
<1>1. ASSUME NEW S \in Conv!Store, RowsOK(S, c)
      PROVE  RowsOK(S, d) /\ \A a, s : ~InRows(S, t, a, s)
  <2>1. \A i \in DOMAIN S.rows : S.rows[i].turn \in Turns /\ S.rows[i].at \in Nat
    <3> TAKE i \in DOMAIN S.rows
    <3>1. S.rows[i] \in Conv!Row
      BY DEF Conv!Store
    <3> QED
      BY <3>1 DEF Conv!Row
  <2>2. \A i \in DOMAIN S.rows : S.rows[i].turn # t
    BY <1>1 DEF RowsOK, Early
  <2>3. RowsOK(S, d)
    BY <1>1, <2>1, <2>2 DEF RowsOK
  <2> QED
    BY <2>2, <2>3 DEF InRows
<1>2. \A u, a, s : InRows(W, u, a, s) <=> InRows(V, u, a, s)
  BY DEF InRows
<1>3. RowsOK(W, d) /\ RowsOK(D, d)
  <2>1. RowsOK(V, d) /\ RowsOK(D, d)
    BY <1>1
  <2> QED
    BY <2>1 DEF RowsOK
<1>4. \A u, a, s : Claimed(W, D, d, u, a, s) =>
        \/ u # t /\ Claimed(V, D, c, u, a, s)
        \/ u = t /\ a = n + 1 /\ s = d[t].session
  <2> TAKE u, a, s
  <2>1. u # t => (Claimed(W, D, d, u, a, s) => Claimed(V, D, c, u, a, s))
    BY <1>2 DEF Claimed
  <2>2. u = t /\ Claimed(W, D, d, u, a, s) => a = n + 1 /\ s = d[t].session
    BY <1>1, <1>2 DEF Claimed
  <2> QED
    BY <2>1, <2>2
<1>5. \A u, a, s : Claimed(V, D, c, u, a, s) => a <= n
  BY DEF ClaimsOK
<1>6. \A u, a, s : Claimed(V, D, c, u, a, s) => a \in Nat
  <2> TAKE u, a, s
  <2>1. ASSUME NEW S \in Conv!Store, InRows(S, u, a, s) PROVE a \in Nat
    <3>1. PICK i \in DOMAIN S.rows : S.rows[i].at = a
      BY <2>1 DEF InRows
    <3>2. S.rows[i] \in Conv!Row
      BY DEF Conv!Store
    <3> QED
      BY <3>1, <3>2 DEF Conv!Row
  <2>2. u \in Turns => c[u].at \in Nat
    BY DEF Conv!Call
  <2> QED
    BY <2>1, <2>2 DEF Claimed
<1>7. ClaimsOK(W, D, d, n + 1)
  <2> SUFFICES ASSUME NEW x, NEW u, NEW a, NEW b, NEW s, NEW v,
                      Claimed(W, D, d, x, a, s), Claimed(W, D, d, u, b, v)
               PROVE  /\ x = u <=> a = b
                      /\ x = u => s = v
                      /\ a <= n + 1
    BY DEF ClaimsOK
  <2>1. CASE x # t /\ u # t
    <3>1. Claimed(V, D, c, x, a, s) /\ Claimed(V, D, c, u, b, v)
      BY <1>4, <2>1
    <3>2. (x = u <=> a = b) /\ (x = u => s = v) /\ a <= n
      BY <3>1 DEF ClaimsOK
    <3>3. a \in Nat
      BY <1>6, <3>1
    <3> QED
      BY <3>2, <3>3
  <2>2. CASE x = t /\ u # t
    <3>1. Claimed(V, D, c, u, b, v) /\ a = n + 1
      BY <1>4, <2>2
    <3>2. b \in Nat /\ b <= n
      BY <1>5, <1>6, <3>1
    <3> QED
      BY <2>2, <3>1, <3>2
  <2>3. CASE x # t /\ u = t
    <3>1. Claimed(V, D, c, x, a, s) /\ b = n + 1
      BY <1>4, <2>3
    <3>2. a \in Nat /\ a <= n
      BY <1>5, <1>6, <3>1
    <3> QED
      BY <2>3, <3>1, <3>2
  <2>4. CASE x = t /\ u = t
    BY <1>4, <2>4
  <2> QED
    BY <2>1, <2>2, <2>3, <2>4
<1> QED
  BY <1>3, <1>7

\* At the start, turn k has the rows 2k - 1 and 2k, its number for created_at, and
\* the earlier session.
LEMMA HistoryInit == ASSUME Conv!Init PROVE HistoryInv
<1> DEFINE n == Cardinality(Earlier)
           R == Conv!EarlierRows
<1>1. TurnInv
  BY TurnInit
<1>2. n \in Nat /\ Earlier = 1..n /\ DOMAIN R = 1..2 * n
  BY EarlierTyped
<1>3. \A k \in 1..2 * n : /\ R[k].turn = (k + 1) \div 2 /\ R[k].at = (k + 1) \div 2
                          /\ R[k].session = Conv!EarlierSession
                          /\ R[k].role = IF k % 2 = 1 THEN "user" ELSE "agent"
  BY SameSets DEF Conv!EarlierRows
<1>4. durable.rows = R /\ view = durable /\ clock = n
  BY SameSets DEF Conv!Init
<1> HIDE DEF n, R
<1>5. \A k \in 1..2 * n : (k + 1) \div 2 \in 1..n
  BY <1>2
<1>6. ClaimsOK(view, durable, call, clock)
  <2>1. \A t \in Turns : call[t].pc \notin Conv!Recording
    BY DEF Conv!Init, Conv!Recording
  <2>2. \A t, a, s : Claimed(view, durable, call, t, a, s) =>
          t = a /\ a \in 1..n /\ s = Conv!EarlierSession
    <3> TAKE t, a, s
    <3>1. InRows(durable, t, a, s) => t = a /\ a \in 1..n /\ s = Conv!EarlierSession
      BY <1>2, <1>3, <1>4, <1>5 DEF InRows
    <3> QED
      BY <1>4, <2>1, <3>1 DEF Claimed
  <2>3. \A a \in 1..n : a <= clock
    BY <1>2, <1>4
  <2> QED
    BY <2>2, <2>3 DEF ClaimsOK
<1>7. RowsOK(durable, call)
  <2>1. ASSUME NEW i \in 1..2 * n, NEW j \in 1..2 * n, (i + 1) \div 2 = (j + 1) \div 2
        PROVE  /\ (i % 2 = 1 <=> j % 2 = 1) => i = j
               /\ i % 2 = 1 /\ j % 2 # 1 => i < j
    BY <1>2, <2>1
  <2>2. ASSUME NEW i \in 1..2 * n
        PROVE  call[R[i].turn].pc = "shown"
    <3>1. R[i].turn \in Earlier /\ R[i].turn \in Turns
      BY <1>2, <1>3, <1>5, ConversationsAssumption DEF Conv!Assumptions
    <3> QED
      BY <3>1 DEF Conv!Init
  <2>3. \A i, j \in 1..2 * n : R[i].turn = R[j].turn =>
         /\ R[i].role = R[j].role => i = j
         /\ R[i].role = "user" /\ R[j].role = "agent" => i < j
    BY <1>3, <2>1
  <2> QED
    BY <1>2, <1>4, <2>2, <2>3 DEF RowsOK, Early
<1> QED
  BY <1>1, <1>4, <1>6, <1>7 DEF HistoryInv

\* Every step of the server on a question keeps the history alternating.
LEMMA HistoryServe ==
  ASSUME HistoryInv, NEW t \in Turns, Conv!Serve(t)
  PROVE  HistoryInv'
<1>1. PICK c \in Conv!Call :
           /\ c.tries <= MaxRetries /\ c.here = call[t].here
           /\ call' = [call EXCEPT ![t] = c]
           /\ Served(t, c)
           /\ UNCHANGED <<screen, app, resetting, upsets>>
  BY ServeActs DEF HistoryInv, TurnInv, ConvType
<1>2. TurnInv'
  BY TurnServe DEF HistoryInv
<1>3. call \in [Turns -> Conv!Call] /\ durable \in Conv!Store /\ view \in Conv!Store
      /\ clock \in Nat
  BY DEF HistoryInv, TurnInv, ConvType, Conv!TypeOK
<1>4. \A u \in Turns : call'[u] = IF u = t THEN c ELSE call[u]
  BY <1>1, <1>3
<1>5. ASSUME Later(call, call'), clock' = clock, view' \in {view, durable},
             durable' \in {view, durable}
      PROVE  HistoryInv'
  BY <1>2, <1>3, <1>5, LaterKeeps DEF HistoryInv
<1>6. CASE Thinks(t, c)
  <2>1. Later(call, call')
    BY <1>4, <1>6 DEF Thinks, Later, Early, Conv!Recording
  <2> QED
    BY <1>5, <1>6, <2>1 DEF Thinks
<1>7. CASE Opens(t, c)
  <2>1. view'.rows = view.rows
    BY <1>3, <1>7 DEF Opens, Conv!Store
  <2>2. /\ call[t].pc = "session" /\ call'[t].pc = "user" /\ call'[t].at = clock + 1
        /\ clock' = clock + 1 /\ durable' = durable
    BY <1>4, <1>7 DEF Opens
  <2>3. \A u \in Turns : u # t => call'[u] = call[u]
    BY <1>4
  <2>4. /\ ClaimsOK(view', durable, call', clock + 1)
        /\ RowsOK(view', call') /\ RowsOK(durable, call')
    BY <1>3, <2>1, <2>2, <2>3, OpenKeeps DEF HistoryInv
  <2> QED
    BY <1>2, <2>2, <2>4 DEF HistoryInv
<1>8. ASSUME NEW role \in {"user", "agent"}, Inserts(t, c, role)
      PROVE  HistoryInv'
  <2> DEFINE row == [session |-> call[t].session, turn |-> t, role |-> role, at |-> call[t].at]
  <2>1. row \in Conv!Row
    BY <1>3, <1>8 DEF Inserts, Conv!Store, Conv!Row, Conv!Roles, Conv!Call
  <2>2. view' = [view EXCEPT !.rows = Append(view.rows, row)]
    BY <1>8 DEF Inserts
  <2>3. /\ row.turn = t /\ row.role = role /\ row.at = call[t].at
        /\ row.session = call[t].session
    OBVIOUS
  <2> HIDE DEF row
  <2>4. /\ durable' = durable /\ clock' = clock
        /\ call[t].pc = role /\ call'[t].pc = IF role = "user" THEN "agent" ELSE "commit"
        /\ call'[t].at = call[t].at /\ call'[t].session = call[t].session
    BY <1>4, <1>8 DEF Inserts
  <2>5. \A u \in Turns : u # t => call'[u] = call[u]
    BY <1>4
  <2>6. /\ ClaimsOK(view', durable, call', clock)
        /\ RowsOK(view', call') /\ RowsOK(durable, call')
    <3>1. ClaimsOK(view, durable, call, clock) /\ RowsOK(view, call) /\ RowsOK(durable, call)
      BY DEF HistoryInv
    <3> HIDE DEF ClaimsOK, RowsOK
    <3> QED
      BY <1>3, <2>1, <2>2, <2>3, <2>4, <2>5, <3>1, InsertKeeps
  <2> QED
    BY <1>2, <2>4, <2>6 DEF HistoryInv
<1>9. CASE Commits(t, c)
  <2>1. Later(call, call')
    BY <1>4, <1>9 DEF Commits, Later, Early, Conv!Recording
  <2> QED
    BY <1>5, <1>9, <2>1 DEF Commits, Conv!CommitBy
<1>10. CASE Fails(t, c)
  <2>1. Later(call, call')
    BY <1>4, <1>10 DEF Fails, Later, Early, Conv!Recording
  <2> QED
    BY <1>5, <1>10, <2>1 DEF Fails, Conv!RollbackBy
<1> QED
  BY <1>1, <1>6, <1>7, <1>8, <1>9, <1>10 DEF Served

\* Every step keeps the history.
LEMMA HistoryNext == ASSUME HistoryInv, [Next]_vars PROVE HistoryInv'
<1>1. TurnInv'
  BY TurnNext DEF HistoryInv
<1>2. durable \in Conv!Store /\ view \in Conv!Store
  BY DEF HistoryInv, TurnInv, ConvType, Conv!TypeOK
<1>3. ASSUME Later(call, call'), clock' = clock, view' \in {view, durable, Conv!EmptyStore},
             durable' \in {view, durable}
      PROVE  HistoryInv'
  BY <1>1, <1>2, <1>3, LaterKeeps DEF HistoryInv
<1>4. CASE Conv!OtherWrites \/ Conv!AskReset \/ Conv!CommitReset \/ Conv!ResetFails
           \/ UNCHANGED convVars
  <2>1. Later(call, call')
    <3>1. call' = call
      BY <1>4 DEF Conv!OtherWrites, Conv!AskReset, Conv!CommitReset, Conv!ResetFails, convVars
    <3> QED
      BY <3>1 DEF Later
  <2>2. /\ clock' = clock /\ view' \in {view, durable, Conv!EmptyStore}
        /\ durable' \in {view, durable}
    BY <1>4 DEF Conv!OtherWrites, Conv!AskReset, Conv!CommitReset, Conv!ResetFails, convVars,
                Conv!CommitBy, Conv!RollbackBy
  <2> QED
    BY <1>3, <2>1, <2>2
<1>5. CASE Conv!Restart
  <2>1. \A u \in Turns : call'[u].pc = "refused" \/ call'[u] = call[u]
    <3> TAKE u \in Turns
    <3>1. CASE call[u].pc \in Conv!Served
      <4>1. call'[u] = [call[u] EXCEPT !.pc = "refused", !.tries = 0, !.at = 0]
        BY <1>5, <3>1 DEF Conv!Restart
      <4> DEFINE v == [call[u] EXCEPT !.pc = "refused", !.tries = 0]
      <4>2. call[u] \in Conv!Call
        BY DEF HistoryInv, TurnInv, ConvType, Conv!TypeOK
      <4>3. v.pc = "refused" /\ v \in Conv!Call
        BY <4>2, CallTyped DEF Conv!Call
      <4>4. call'[u] = [v EXCEPT !.at = 0]
        BY <4>1
      <4> HIDE DEF v
      <4> QED
        BY <4>3, <4>4 DEF Conv!Call
    <3>2. CASE call[u].pc \notin Conv!Served
      BY <1>5, <3>2 DEF Conv!Restart
    <3> QED
      BY <3>1, <3>2
  <2>2. Later(call, call')
    BY <2>1 DEF Later, Early, Conv!Recording
  <2> QED
    BY <1>3, <1>5, <2>2 DEF Conv!Restart
<1>6. CASE BrowserStep
  <2>1. CallsKept /\ UNCHANGED <<durable, view, clock, mishap>>
    BY <1>6, BrowserActs DEF HistoryInv, TurnInv
  <2>2. Later(call, call')
    BY <2>1 DEF Later, CallsKept, Asks, Takes, Early, Conv!Recording
  <2> QED
    BY <1>3, <2>1, <2>2
<1>7. CASE Conv!Next
  BY <1>4, <1>5, <1>6, <1>7, HistoryServe DEF Conv!Next, BrowserStep
<1> QED
  BY <1>4, <1>7 DEF Next, vars

\* What the invariant says of a history that is read: between a question and its
\* answer, which have one created_at, nothing is sorted in.
LEMMA HistoryInvSuffices ==
  ASSUME HistoryInv
  PROVE  Conv!HistoryAlternates
<1> SUFFICES ASSUME NEW s \in view.sessions, NEW k \in DOMAIN Conv!Messages(view, s),
                    Conv!Messages(view, s)[k].role = "agent",
                    mishap[Conv!Messages(view, s)[k].turn] = {}
             PROVE  /\ k > 1
                    /\ Conv!Messages(view, s)[k - 1].turn = Conv!Messages(view, s)[k].turn
                    /\ Conv!Messages(view, s)[k - 1].role = "user"
  BY DEF Conv!HistoryAlternates
<1> DEFINE I == InSession(view, s)
           order == Sorted(I, ByTime(view, s))
           n == Cardinality(I)
           m == Conv!Messages(view, s)
           j == order[k]
           t == view.rows[j].turn
<1>1. view \in Conv!Store
  BY DEF HistoryInv, TurnInv, ConvType, Conv!TypeOK
<1>2. /\ I \subseteq 1..Len(view.rows) /\ IsFiniteSet(I) /\ StrictOrder(I, ByTime(view, s))
      /\ m = [q \in DOMAIN order |-> view.rows[order[q]]]
  BY <1>1, ByTimeIsOrder, MessagesAre
<1> HIDE DEF I
<1>3. /\ n \in Nat /\ order \in [1..n -> I]
      /\ \A x \in I : \E q \in 1..n : order[q] = x
      /\ \A p, q \in 1..n : /\ p < q <=> <<order[p], order[q]>> \in ByTime(view, s)
                            /\ order[p] = order[q] => p = q
  <2>1. IsFiniteSet(I) /\ StrictOrder(I, ByTime(view, s))
    BY <1>2
  <2> QED
    BY <2>1, SortedIs
<1> HIDE DEF order, n, m
<1>4. k \in 1..n /\ m[k] = view.rows[j] /\ j \in I
  BY <1>2, <1>3 DEF m
<1>5. j \in DOMAIN view.rows /\ view.rows[j].session = s /\ view.rows[j].role = "agent"
      /\ mishap[t] = {}
  BY <1>4 DEF InSession, I, m
<1>6. t \in Turns
  <2>1. view.rows[j] \in Conv!Row
    BY <1>1, <1>5 DEF Conv!Store
  <2> QED
    BY <2>1 DEF Conv!Row
<1>7. PICK i \in DOMAIN view.rows : view.rows[i].turn = t /\ view.rows[i].role = "user"
  <2>1. call[t].pc # "agent"
    BY <1>5 DEF HistoryInv, RowsOK
  <2>2. Conv!Has(view, t, "agent")
    BY <1>5 DEF Conv!Has, Conv!Rows
  <2>3. Conv!Has(view, t, "user")
    BY <1>5, <1>6, <2>1, <2>2 DEF HistoryInv, TurnInv, TurnOK, HalfIsNoted, Lost
  <2> QED
    BY <2>3 DEF Conv!Has, Conv!Rows
<1>8. i < j
  BY <1>5, <1>7 DEF HistoryInv, RowsOK
<1>9. \A x, y \in DOMAIN view.rows :
        /\ view.rows[x].turn = view.rows[y].turn <=> view.rows[x].at = view.rows[y].at
        /\ view.rows[x].turn = view.rows[y].turn => view.rows[x].session = view.rows[y].session
  <2> TAKE x, y \in DOMAIN view.rows
  <2>1. Claimed(view, durable, call, view.rows[x].turn, view.rows[x].at, view.rows[x].session)
    BY DEF Claimed, InRows
  <2>2. Claimed(view, durable, call, view.rows[y].turn, view.rows[y].at, view.rows[y].session)
    BY DEF Claimed, InRows
  <2>3. ClaimsOK(view, durable, call, clock)
    BY DEF HistoryInv
  <2> QED
    BY <2>1, <2>2, <2>3 DEF ClaimsOK
<1>10. i \in I /\ view.rows[i].at = view.rows[j].at
  BY <1>5, <1>7, <1>9 DEF InSession, I
<1>11. \A x, y \in I : <<x, y>> \in ByTime(view, s) <=>
         view.rows[x].at < view.rows[y].at \/ (view.rows[x].at = view.rows[y].at /\ x < y)
  <2>1. \A x, y \in I : <<x, y>> \in ByTime(view, s) <=> Conv!InOrder(view, x, y)
    BY DEF ByTime, I
  <2>2. ASSUME NEW x, NEW y
        PROVE  Conv!InOrder(view, x, y) <=>
                 view.rows[x].at < view.rows[y].at \/ (view.rows[x].at = view.rows[y].at /\ x < y)
    BY DEF Conv!InOrder
  <2> QED
    BY <2>1, <2>2, Zenon
<1>12. PICK p \in 1..n : order[p] = i
  BY <1>3, <1>10
<1>13. p < k
  <2>1. <<i, j>> \in ByTime(view, s)
    BY <1>4, <1>8, <1>10, <1>11
  <2> QED
    BY <1>3, <1>4, <1>12, <2>1
<1>14. p = k - 1
  <2> SUFFICES ASSUME p < k - 1 PROVE FALSE
    BY <1>3, <1>4, <1>13
  <2> DEFINE x == order[k - 1]
  <2>1. k - 1 \in 1..n /\ p < k - 1 /\ k - 1 < k /\ p # k - 1 /\ k - 1 # k
    BY <1>3, <1>4
  <2>2. x \in I /\ <<i, x>> \in ByTime(view, s) /\ <<x, j>> \in ByTime(view, s)
        /\ x # i /\ x # j
    BY <1>3, <1>4, <1>12, <2>1
  <2> HIDE DEF x
  <2>3. \A y \in I : view.rows[y].at \in Nat /\ view.rows[y].role \in {"user", "agent"}
                     /\ y \in DOMAIN view.rows
    <3> TAKE y \in I
    <3>1. y \in 1..Len(view.rows) /\ view.rows \in Seq(Conv!Row)
      BY <1>1, <1>2 DEF Conv!Store
    <3>2. view.rows[y] \in Conv!Row
      BY <3>1
    <3> QED
      BY <3>1, <3>2 DEF Conv!Row, Conv!Roles
  <2>4. view.rows[x].at = view.rows[i].at
    <3>1. view.rows[i].at <= view.rows[x].at
      BY <1>10, <1>11, <2>2, <2>3
    <3>2. view.rows[x].at <= view.rows[j].at
      BY <1>4, <1>11, <2>2, <2>3
    <3> QED
      BY <1>4, <1>10, <2>2, <2>3, <3>1, <3>2
  <2>5. view.rows[x].turn = t
    BY <1>7, <1>9, <2>2, <2>3, <2>4
  <2>6. view.rows[x].role = "user" => x = i
    BY <1>7, <2>2, <2>3, <2>5 DEF HistoryInv, RowsOK
  <2>7. view.rows[x].role = "agent" => x = j
    BY <1>5, <2>2, <2>3, <2>5 DEF HistoryInv, RowsOK
  <2> QED
    BY <2>2, <2>3, <2>6, <2>7
<1>15. m[k - 1] = view.rows[i] /\ k > 1
  <2>1. k - 1 \in 1..n /\ k > 1
    BY <1>3, <1>4, <1>12, <1>14
  <2>2. k - 1 \in DOMAIN order
    BY <1>3, <2>1
  <2> QED
    BY <1>2, <1>12, <1>14, <2>1, <2>2
<1> QED
  BY <1>4, <1>7, <1>15 DEF m

\* get_messages_for_session(): however the inserts of turns interleave, every answer
\* directly follows its question, but for turns in whose midst another thread has
\* committed, rolled back or reset.
THEOREM HistoryKeepsAlternating == Spec => []HistoryAlternates
<1>1. Init => HistoryInv
  BY HistoryInit DEF Init
<1>2. HistoryInv /\ [Next]_vars => HistoryInv'
  BY HistoryNext
<1>3. HistoryInv => HistoryAlternates
  BY HistoryInvSuffices DEF HistoryAlternates
<1> QED
  BY <1>1, <1>2, <1>3, PTL DEF Spec

-----------------------------------------------------------------------------
(* The query pipeline. query keeps QueryInv: its lists are what the nodes   *)
(* make them, each item in one place of each, and the merged list stays     *)
(* what Merged makes of the three.                                         *)

\* The operators on sets, sequences and orders that QueryPipeline brings.
LEMMA QuerySets ==
  /\ \A S : Query!Cardinality(S) = Cardinality(S)
  /\ \A S, R : Query!Sorted(S, R) = Sorted(S, R)
<1>1. ASSUME NEW S PROVE Query!Cardinality(S) = Cardinality(S)
  BY DEF Query!Cardinality, Cardinality
<1>2. ASSUME NEW S, NEW R PROVE Query!Sorted(S, R) = Sorted(S, R)
  BY DEF Query!Sorted, Query!Preceding, Query!Cardinality, Sorted, Preceding, Cardinality
<1> QED
  BY <1>1, <1>2

\* Sequences of at most n elements.
LEMMA BoundedIs ==
  ASSUME NEW S, NEW n \in Nat, NEW s
  PROVE  s \in Query!BoundedSeq(S, n) <=> s \in Seq(S) /\ Len(s) <= n
<1>1. s \in Query!BoundedSeq(S, n) <=> \E m \in 0..n : s \in [1..m -> S]
  BY DEF Query!BoundedSeq, Query!SeqOf
<1>2. ASSUME NEW m \in 0..n, s \in [1..m -> S] PROVE s \in Seq(S) /\ Len(s) <= n
  BY <1>2
<1>3. ASSUME s \in Seq(S), Len(s) <= n PROVE Len(s) \in 0..n /\ s \in [1..Len(s) -> S]
  BY <1>3
<1> QED
  BY <1>1, <1>2, <1>3

\* The least of a set of numbers.
LEMMA LeastIs ==
  ASSUME NEW T \in SUBSET Nat, T # {}
  PROVE  Query!Min(T) \in T /\ \A y \in T : Query!Min(T) <= y
<1>1. PICK x \in T : \A y \in T : ~(<<y, x>> \in OpToRel(<, Nat))
  BY NatLessThanWellFounded, WFMin
<1>2. \A y \in T : x <= y
  <2> TAKE y \in T
  <2>1. <<y, x>> \in OpToRel(<, Nat) <=> y < x
    BY DEF OpToRel
  <2>2. x \in Nat /\ y \in Nat
    OBVIOUS
  <2>3. ~(y < x)
    BY <1>1, <2>1, Zenon
  <2> QED
    BY <2>2, <2>3
<1> QED
  BY <1>2 DEF Query!Min

\* The place of an item in a list: the first, or 0.
LEMMA RankIs ==
  ASSUME NEW S, NEW s \in Seq(S), NEW i
  PROVE  /\ i \in Query!ToSet(s) =>
              Query!Rank(s, i) \in 1..Len(s) /\ s[Query!Rank(s, i)] = i
         /\ i \notin Query!ToSet(s) => Query!Rank(s, i) = 0
<1> DEFINE I == {k \in 1..Len(s) : s[k] = i}
<1>1. Query!Rank(s, i) = IF I # {} THEN Query!Min(I) ELSE 0
  BY DEF Query!Rank, Query!SelectInSeq
<1>2. i \in Query!ToSet(s) <=> I # {}
  BY DEF Query!ToSet
<1>3. I \in SUBSET Nat
  OBVIOUS
<1> HIDE DEF I
<1>4. I # {} => Query!Min(I) \in I
  BY <1>3, LeastIs
<1> QED
  BY <1>1, <1>2, <1>4 DEF I

\* In a list without repetitions the rank of a hit is its place.
LEMMA RankOfPlace ==
  ASSUME NEW S, NEW s \in Seq(S), Query!IsInjective(s), NEW k \in 1..Len(s)
  PROVE  Query!Rank(s, s[k]) = k
<1>1. s[k] \in Query!ToSet(s)
  BY DEF Query!ToSet
<1>2. Query!Rank(s, s[k]) \in DOMAIN s /\ s[Query!Rank(s, s[k])] = s[k] /\ k \in DOMAIN s
  BY <1>1, RankIs
<1> QED
  BY <1>2 DEF Query!IsInjective

\* _to_hits(): what was found, each item once.
LEMMA ToHitsIs ==
  ASSUME NEW S, NEW s \in Seq(S)
  PROVE  /\ Query!ToHits(s) \in Seq(S) /\ Len(Query!ToHits(s)) <= Len(s)
         /\ Query!IsInjective(Query!ToHits(s))
         /\ Query!ToSet(Query!ToHits(s)) = Query!ToSet(s)
<1> DEFINE first == {k \in DOMAIN s : \A j \in 1..k - 1 : s[j] # s[k]}
           R == {p \in first \X first : p[1] < p[2]}
           order == Sorted(first, R)
           n == Cardinality(first)
           h == Query!ToHits(s)
<1>1. h = [q \in DOMAIN order |-> s[order[q]]]
  BY QuerySets DEF Query!ToHits
<1>2. first \subseteq 1..Len(s) /\ Len(s) \in Nat
  OBVIOUS
<1>3. IsFiniteSet(first) /\ n <= Len(s)
  <2>1. IsFiniteSet(1..Len(s)) /\ Cardinality(1..Len(s)) = Len(s)
    <3>1. 1 \in Int /\ Len(s) \in Int
      BY <1>2
    <3>2. /\ IsFiniteSet(1..Len(s))
          /\ Cardinality(1..Len(s)) = IF 1 > Len(s) THEN 0 ELSE Len(s) - 1 + 1
      BY <3>1, FS_Interval
    <3> QED
      BY <1>2, <3>2
  <2> QED
    BY <1>2, <2>1, FS_Subset
<1>4. StrictOrder(first, R)
  <2>1. \A i, j \in first : <<i, j>> \in R <=> i < j
    OBVIOUS
  <2>2. \A i \in first : i \in Nat
    BY <1>2
  <2> HIDE DEF first, R
  <2> QED
    BY <2>1, <2>2 DEF StrictOrder
<1> DEFINE F == first
<1> HIDE DEF R, F
<1>5. /\ n \in Nat /\ order \in [1..n -> first]
      /\ \A x \in first : \E q \in 1..n : order[q] = x
      /\ \A p, q \in 1..n : order[p] = order[q] => p = q
  <2>1. IsFiniteSet(F) /\ StrictOrder(F, R)
    BY <1>3, <1>4 DEF F
  <2>2. /\ Cardinality(F) \in Nat /\ Sorted(F, R) \in [1..Cardinality(F) -> F]
        /\ \A x \in F : \E q \in 1..Cardinality(F) : Sorted(F, R)[q] = x
        /\ \A p, q \in 1..Cardinality(F) : Sorted(F, R)[p] = Sorted(F, R)[q] => p = q
    BY <2>1, SortedIs
  <2> QED
    BY <2>2 DEF F
<1> HIDE DEF order, n, h
<1>6. DOMAIN h = 1..n /\ \A q \in 1..n : h[q] = s[order[q]] /\ order[q] \in first
  BY <1>1, <1>5
<1>7. h \in Seq(S) /\ Len(h) = n
  <2>1. \A q \in 1..n : s[order[q]] \in S
    BY <1>6
  <2>2. h \in [1..n -> S]
    BY <1>1, <1>5, <2>1
  <2> QED
    BY <1>5, <2>2
<1>8. \A a, b \in first : s[a] = s[b] => a = b
  <2> TAKE a, b \in first
  <2>1. a \in Nat /\ b \in Nat /\ a >= 1 /\ b >= 1
    BY <1>2
  <2>2. a < b => s[a] # s[b]
    BY <2>1
  <2>3. b < a => s[a] # s[b]
    BY <2>1
  <2> QED
    BY <2>1, <2>2, <2>3
<1>9. Query!IsInjective(h)
  BY <1>5, <1>6, <1>8 DEF Query!IsInjective
<1>10. ASSUME NEW k \in DOMAIN s PROVE s[k] \in Query!ToSet(h)
  <2> DEFINE T == {j \in DOMAIN s : s[j] = s[k]}
  <2>1. T \in SUBSET Nat /\ T # {}
    BY <1>2
  <2>2. PICK l \in T : \A y \in T : l <= y
    BY <2>1, LeastIs
  <2>3. l \in first
    <3> SUFFICES ASSUME NEW j \in 1..l - 1, s[j] = s[l] PROVE FALSE
      OBVIOUS
    <3>1. j \in T /\ j < l
      BY <1>2
    <3> QED
      BY <1>2, <2>2, <3>1
  <2>4. PICK q \in 1..n : order[q] = l
    BY <1>5, <2>3
  <2>5. h[q] = s[k]
    BY <1>6, <2>4
  <2> QED
    BY <1>6, <2>5 DEF Query!ToSet
<1>11. Query!ToSet(h) \subseteq Query!ToSet(s)
  BY <1>6 DEF Query!ToSet
<1>12. Query!ToSet(h) = Query!ToSet(s)
  BY <1>10, <1>11 DEF Query!ToSet
<1> QED
  BY <1>3, <1>7, <1>9, <1>12 DEF h

\* A list of items, each at most once, is no longer than there are items.
LEMMA ListBound ==
  ASSUME NEW s \in Seq(Query!Items), Query!IsInjective(s)
  PROVE  Len(s) <= ItemCount /\ s \in Query!Hits
<1>1. ItemCount \in Nat
  BY QueryAssumption DEF Query!Assumptions
<1>2. IsFiniteSet(1..ItemCount) /\ Cardinality(1..ItemCount) = ItemCount
  BY <1>1, FS_Interval
<1>3. Cardinality(1..Len(s)) = Len(s) /\ Len(s) \in Nat
  BY FS_Interval
<1>4. s \in Injection(1..Len(s), 1..ItemCount)
  <2>1. s \in [1..Len(s) -> 1..ItemCount]
    <3>1. s \in [1..Len(s) -> Query!Items]
      OBVIOUS
    <3> QED
      BY <3>1, Zenon DEF Query!Items
  <2>2. IsInjective(s)
    BY DEF Query!IsInjective, IsInjective
  <2> QED
    BY <2>1, <2>2 DEF Injection
<1>5. Len(s) <= ItemCount
  BY <1>2, <1>3, <1>4, FS_Injection
<1> QED
  BY <1>1, <1>5, BoundedIs DEF Query!Hits

\* What the searches and the traversal have found, as merge() is given it.
QueryLists ==
  /\ \A l \in {query.vector, query.keyword, query.graph} :
       l \in Seq(Query!Items) /\ Query!IsInjective(l)
  /\ Query!ToSet(query.graph) \cap Query!ToSet(Query!Seeds) = {}
Found ==
  Query!ToSet(query.vector) \cup Query!ToSet(query.keyword) \cup Query!ToSet(query.graph)

\* The elements of two lists, one after the other.
LEMMA ConcatIs ==
  ASSUME NEW S, NEW s \in Seq(S), NEW r \in Seq(S)
  PROVE  s \o r \in Seq(S) /\ Query!ToSet(s \o r) = Query!ToSet(s) \cup Query!ToSet(r)
<1>1. s \o r \in Seq(S)
  OBVIOUS
<1>2. /\ Len(s) \in Nat /\ Len(r) \in Nat /\ DOMAIN s = 1..Len(s) /\ DOMAIN r = 1..Len(r)
      /\ DOMAIN (s \o r) = 1..(Len(s) + Len(r))
  OBVIOUS
<1>3. \A k \in 1..Len(s) : (s \o r)[k] = s[k] /\ k \in 1..(Len(s) + Len(r))
  BY <1>2
<1>4. \A k \in 1..Len(r) : (s \o r)[Len(s) + k] = r[k] /\ Len(s) + k \in 1..(Len(s) + Len(r))
  BY <1>2
<1>5. \A k \in 1..(Len(s) + Len(r)) :
        k \in 1..Len(s) \/ (k - Len(s) \in 1..Len(r) /\ k = Len(s) + (k - Len(s)))
  BY <1>2
<1>6. ASSUME NEW x PROVE x \in Query!ToSet(s \o r) <=> x \in Query!ToSet(s) \cup Query!ToSet(r)
  <2>1. ASSUME x \in Query!ToSet(s \o r) PROVE x \in Query!ToSet(s) \cup Query!ToSet(r)
    <3>1. PICK k \in 1..(Len(s) + Len(r)) : (s \o r)[k] = x
      BY <1>2, <2>1 DEF Query!ToSet
    <3>2. CASE k \in 1..Len(s)
      BY <1>2, <1>3, <3>1, <3>2 DEF Query!ToSet
    <3>3. CASE k - Len(s) \in 1..Len(r) /\ k = Len(s) + (k - Len(s))
      <4>1. r[k - Len(s)] = x
        BY <1>4, <3>1, <3>3
      <4> QED
        BY <1>2, <3>3, <4>1 DEF Query!ToSet
    <3> QED
      BY <1>5, <3>2, <3>3
  <2>2. ASSUME x \in Query!ToSet(s) PROVE x \in Query!ToSet(s \o r)
    BY <1>2, <1>3, <2>2 DEF Query!ToSet
  <2>3. ASSUME x \in Query!ToSet(r) PROVE x \in Query!ToSet(s \o r)
    BY <1>2, <1>4, <2>3 DEF Query!ToSet
  <2> QED
    BY <2>1, <2>2, <2>3
<1> QED
  BY <1>1, <1>6

\* The score of a place: the best is 1 / 61, and two of place 61 are more.
LEMMA RankScoreIs ==
  ASSUME NEW r \in Nat, r >= 1
  PROVE  /\ Query!RankScore(r) \in Nat /\ Query!RankScore(r) <= 249984
         /\ r <= 61 => Query!RankScore(r) >= 126024
BY DEF Query!RankScore, Query!Scale, Query!RrfK

\* The bounds of the score that a hit has in one list of at most 61.
LEMMA ScoreInIs ==
  ASSUME NEW l \in Seq(Query!Items), NEW i
  PROVE  /\ Query!ScoreIn(l, i) \in Nat /\ Query!ScoreIn(l, i) <= 249984
         /\ i \notin Query!ToSet(l) => Query!ScoreIn(l, i) = 0
         /\ i \in Query!ToSet(l) /\ Len(l) <= 61 => Query!ScoreIn(l, i) >= 126024
<1>1. CASE i \in Query!ToSet(l)
  <2>1. Query!Rank(l, i) \in 1..Len(l)
    BY <1>1, RankIs
  <2>2. Query!ScoreIn(l, i) = Query!RankScore(Query!Rank(l, i))
    BY <1>1 DEF Query!ScoreIn
  <2>3. Query!Rank(l, i) \in Nat /\ Query!Rank(l, i) >= 1
        /\ (Len(l) <= 61 => Query!Rank(l, i) <= 61)
    BY <2>1
  <2> QED
    BY <1>1, <2>2, <2>3, RankScoreIs
<1>2. CASE i \notin Query!ToSet(l)
  BY <1>2 DEF Query!ScoreIn
<1> QED
  BY <1>1, <1>2

\* merge(): all that was found, each item once, by score.
LEMMA MergedIs ==
  ASSUME QueryLists
  PROVE  /\ Query!Merged \in Seq(Query!Items) /\ Query!IsInjective(Query!Merged)
         /\ Query!ToSet(Query!Merged) = Found
         /\ \A j, k \in DOMAIN Query!Merged :
              Query!Score(Query!Merged[j]) < Query!Score(Query!Merged[k]) => k < j
<1> DEFINE all == query.vector \o query.keyword \o query.graph
           found == Query!ToHits(all)
           F == Query!ToSet(found)
           B(i, j) == \/ Query!Score(i) > Query!Score(j)
                      \/ /\ Query!Score(i) = Query!Score(j)
                         /\ Query!Rank(found, i) < Query!Rank(found, j)
           R == {p \in F \X F : B(p[1], p[2])}
           m == Query!Merged
           n == Cardinality(F)
<1>1. m = Sorted(F, R)
  BY QuerySets DEF Query!Merged
<1>2. all \in Seq(Query!Items) /\ Query!ToSet(all) = Found
  <2>1. /\ query.vector \in Seq(Query!Items) /\ query.keyword \in Seq(Query!Items)
        /\ query.graph \in Seq(Query!Items)
    BY DEF QueryLists
  <2> DEFINE both == query.vector \o query.keyword
  <2>2. /\ both \in Seq(Query!Items)
        /\ Query!ToSet(both) = Query!ToSet(query.vector) \cup Query!ToSet(query.keyword)
    BY <2>1, ConcatIs
  <2>3. all = both \o query.graph
    OBVIOUS
  <2> HIDE DEF both, all
  <2>4. /\ both \o query.graph \in Seq(Query!Items)
        /\ Query!ToSet(both \o query.graph) = Query!ToSet(both) \cup Query!ToSet(query.graph)
    BY <2>1, <2>2, ConcatIs
  <2> QED
    BY <2>2, <2>3, <2>4 DEF Found
<1> HIDE DEF all
<1>3. /\ found \in Seq(Query!Items) /\ Query!IsInjective(found) /\ F = Found
  BY <1>2, ToHitsIs
<1> HIDE DEF found
<1>4. F \subseteq Query!Items /\ IsFiniteSet(F)
  <2>1. F \subseteq Query!Items
    BY <1>3 DEF Query!ToSet
  <2>2. IsFiniteSet(Query!Items)
    BY QueryAssumption, FS_Interval DEF Query!Items, Query!Assumptions
  <2> QED
    BY <2>1, <2>2, FS_Subset
<1>5. \A i \in F : /\ Query!Rank(found, i) \in Nat /\ found[Query!Rank(found, i)] = i
                   /\ Query!Score(i) \in Nat
  <2> TAKE i \in F
  <2>1. Query!Rank(found, i) \in 1..Len(found) /\ found[Query!Rank(found, i)] = i
    BY <1>3, RankIs
  <2>2. Query!Score(i) \in Nat
    BY ScoreInIs DEF Query!Score, QueryLists
  <2> QED
    BY <1>3, <2>1, <2>2
<1>6. \A i, j \in F : <<i, j>> \in R <=> B(i, j)
  OBVIOUS
<1> HIDE DEF F, R
<1>7. StrictOrder(F, R)
  <2> DEFINE sc(i) == Query!Score(i)
             rk(i) == Query!Rank(found, i)
  <2>1. \A i \in F : sc(i) \in Nat /\ rk(i) \in Nat
    BY <1>5
  <2>2. \A i, j \in F : rk(i) = rk(j) => i = j
    BY <1>5
  <2>3. \A i, j \in F : <<i, j>> \in R <=> sc(i) > sc(j) \/ (sc(i) = sc(j) /\ rk(i) < rk(j))
    BY <1>6
  <2> HIDE DEF sc, rk
  <2>4. \A i \in F : <<i, i>> \notin R
    BY <2>1, <2>3
  <2>5. \A i, j \in F : i # j => <<i, j>> \in R \/ <<j, i>> \in R
    BY <2>1, <2>2, <2>3
  <2>6. ASSUME NEW i \in F, NEW j \in F, NEW k \in F, <<i, j>> \in R, <<j, k>> \in R
        PROVE  <<i, k>> \in R
    <3>1. /\ sc(i) > sc(j) \/ (sc(i) = sc(j) /\ rk(i) < rk(j))
          /\ sc(j) > sc(k) \/ (sc(j) = sc(k) /\ rk(j) < rk(k))
      BY <2>3, <2>6
    <3>2. sc(i) > sc(k) \/ (sc(i) = sc(k) /\ rk(i) < rk(k))
      BY <2>1, <3>1
    <3> QED
      BY <2>3, <3>2
  <2> QED
    BY <2>4, <2>5, <2>6 DEF StrictOrder
<1>8. /\ n \in Nat /\ m \in [1..n -> F]
      /\ \A x \in F : \E q \in 1..n : m[q] = x
      /\ \A j, k \in 1..n : /\ j < k <=> <<m[j], m[k]>> \in R
                            /\ m[j] = m[k] => j = k
  <2>1. /\ Cardinality(F) \in Nat /\ Sorted(F, R) \in [1..Cardinality(F) -> F]
        /\ \A x \in F : \E q \in 1..Cardinality(F) : Sorted(F, R)[q] = x
        /\ \A j, k \in 1..Cardinality(F) :
             /\ j < k <=> <<Sorted(F, R)[j], Sorted(F, R)[k]>> \in R
             /\ Sorted(F, R)[j] = Sorted(F, R)[k] => j = k
    BY <1>4, <1>7, SortedIs
  <2> QED
    BY <1>1, <2>1
<1> HIDE DEF m, n, B
<1>9. m \in [1..n -> Query!Items] /\ m \in Seq(Query!Items) /\ DOMAIN m = 1..n
  BY <1>4, <1>8
<1>10. Query!IsInjective(m)
  BY <1>8, <1>9 DEF Query!IsInjective
<1>11. Query!ToSet(m) = Found
  BY <1>3, <1>8, <1>9 DEF Query!ToSet
<1>12. ASSUME NEW j \in 1..n, NEW k \in 1..n, Query!Score(m[j]) < Query!Score(m[k])
       PROVE  k < j
  <2>1. m[j] \in F /\ m[k] \in F
    BY <1>8
  <2>2. <<m[k], m[j]>> \in R
    BY <1>5, <1>6, <1>12, <2>1 DEF B
  <2> QED
    BY <1>8, <2>2
<1> QED
  BY <1>9, <1>10, <1>11, <1>12 DEF m

\* A hit of both searches has more than one of a single list, of 61 places at most.
LEMMA TwiceScore ==
  ASSUME QueryLists, Len(query.vector) <= 61, Len(query.keyword) <= 61,
         NEW i \in Query!ToSet(query.vector) \cap Query!ToSet(query.keyword),
         NEW j \in Found,
         j \notin Query!ToSet(query.vector) \cap Query!ToSet(query.keyword)
  PROVE  Query!Score(j) < Query!Score(i)
<1>1. \A l \in {query.vector, query.keyword, query.graph} : l \in Seq(Query!Items)
  BY DEF QueryLists
<1>2. /\ Query!ScoreIn(query.vector, i) >= 126024 /\ Query!ScoreIn(query.keyword, i) >= 126024
      /\ Query!ScoreIn(query.vector, i) \in Nat /\ Query!ScoreIn(query.keyword, i) \in Nat
      /\ Query!ScoreIn(query.graph, i) \in Nat
  BY <1>1, ScoreInIs
<1>3. /\ Query!ScoreIn(query.vector, j) \in Nat /\ Query!ScoreIn(query.vector, j) <= 249984
      /\ Query!ScoreIn(query.keyword, j) \in Nat /\ Query!ScoreIn(query.keyword, j) <= 249984
      /\ Query!ScoreIn(query.graph, j) \in Nat /\ Query!ScoreIn(query.graph, j) <= 249984
      /\ j \notin Query!ToSet(query.vector) => Query!ScoreIn(query.vector, j) = 0
      /\ j \notin Query!ToSet(query.keyword) => Query!ScoreIn(query.keyword, j) = 0
      /\ j \notin Query!ToSet(query.graph) => Query!ScoreIn(query.graph, j) = 0
  BY <1>1, ScoreInIs
<1>4. Query!ToSet(Query!Seeds) = Query!ToSet(query.vector) \cup Query!ToSet(query.keyword)
  BY <1>1, ConcatIs DEF Query!Seeds
<1>5. \/ j \notin Query!ToSet(query.vector) /\ j \notin Query!ToSet(query.keyword)
      \/ j \notin Query!ToSet(query.vector) /\ j \notin Query!ToSet(query.graph)
      \/ j \notin Query!ToSet(query.keyword) /\ j \notin Query!ToSet(query.graph)
  BY <1>4 DEF QueryLists, Found
<1> QED
  BY <1>2, <1>3, <1>5 DEF Query!Score

\* graph_traversal(): the neighbours, each once, in an order that no closer one
\* is behind.
LEMMA GraphHitsAre ==
  ASSUME NEW links, NEW hits \in Query!GraphHits(links)
  PROVE  /\ hits \in Seq(Query!Items) /\ Query!IsInjective(hits)
         /\ Query!ToSet(hits) = Query!Neighbours(links)
         /\ \A j, k \in DOMAIN hits : j < k => ~Query!Closer(links, hits[k], hits[j])
<1> DEFINE N == Query!Neighbours(links)
           n == Cardinality(N)
<1>1. N \subseteq Query!Items /\ IsFiniteSet(N)
  <2>1. N \subseteq Query!Items
    BY DEF Query!Neighbours
  <2>2. IsFiniteSet(Query!Items)
    BY QueryAssumption, FS_Interval DEF Query!Items, Query!Assumptions
  <2> QED
    BY <2>1, <2>2, FS_Subset
<1> HIDE DEF N
<1>2. /\ hits \in [1..n -> N] /\ \A i, j \in 1..n : i # j => hits[i] # hits[j]
      /\ \A j, k \in DOMAIN hits : j < k => ~Query!Closer(links, hits[k], hits[j])
  BY QuerySets DEF Query!GraphHits, Query!SetToSeqs, N
<1>3. n \in Nat
  BY <1>1, FS_CardinalityType
<1> HIDE DEF n
<1>4. hits \in Injection(1..n, N)
  BY <1>2 DEF Injection, IsInjective
<1>5. Cardinality(1..n) = n
  BY <1>3, FS_Interval
<1>6. hits \in Surjection(1..n, N)
  BY <1>1, <1>4, <1>5, FS_Injection DEF n
<1>7. Query!ToSet(hits) = N
  BY <1>2, <1>6 DEF Surjection, Query!ToSet
<1>8. hits \in Seq(Query!Items) /\ Query!IsInjective(hits)
  <2>1. hits \in [1..n -> Query!Items]
    BY <1>1, <1>2
  <2>2. Query!IsInjective(hits)
    BY <1>2 DEF Query!IsInjective
  <2> QED
    BY <1>3, <2>1, <2>2
<1> QED
  BY <1>2, <1>7, <1>8 DEF N

\* The relationships that the lookups count for an item: none, unless one of
\* the seeds that are looked up is related to it.
Counted(links, n) ==
  {p \in Query!LookedUp(links) \X (1..2) :
     p[2] <= Query!Relations(links, Query!Seeds[p[1]], n)}

\* What graph_traversal() counts for a neighbour are its relations to the seeds that were
\* looked up, and there is one if it is related to any of them.
LEMMA CountIs ==
  ASSUME Query!Seeds \in Seq(Query!Items), NEW links, NEW n
  PROVE  /\ Query!ConnectionCount(links, n) = Cardinality(Counted(links, n))
         /\ IsFiniteSet(Counted(links, n)) /\ Cardinality(Counted(links, n)) \in Nat
         /\ Query!ConnectionCount(links, n) > 0 <=>
              \E k \in Query!LookedUp(links) : {Query!Seeds[k], n} \in links.pairs
<1>1. Query!ConnectionCount(links, n) = Cardinality(Counted(links, n))
  BY QuerySets DEF Query!ConnectionCount, Counted
<1>2. IsFiniteSet(Counted(links, n))
  <2>1. IsFiniteSet(1..Len(Query!Seeds)) /\ IsFiniteSet(1..2)
    <3>1. Len(Query!Seeds) \in Int /\ 1 \in Int /\ 2 \in Int
      OBVIOUS
    <3> QED
      BY <3>1, FS_Interval
  <2>2. IsFiniteSet(Query!LookedUp(links))
    <3>1. Query!LookedUp(links) \in SUBSET (1..Len(Query!Seeds))
      BY DEF Query!LookedUp
    <3> QED
      BY <2>1, <3>1, FS_Subset
  <2>3. IsFiniteSet(Query!LookedUp(links) \X (1..2))
    BY <2>1, <2>2, FS_Product
  <2>4. Counted(links, n) \in SUBSET (Query!LookedUp(links) \X (1..2))
    BY DEF Counted
  <2> QED
    BY <2>3, <2>4, FS_Subset
<1>3. Cardinality(Counted(links, n)) \in Nat
      /\ (Cardinality(Counted(links, n)) = 0 <=> Counted(links, n) = {})
  BY <1>2, FS_CardinalityType, FS_EmptySet
<1>4. \A k \in Query!LookedUp(links) :
        /\ Query!Relations(links, Query!Seeds[k], n) \in {0, 1, 2}
        /\ Query!Relations(links, Query!Seeds[k], n) = 0 <=>
             {Query!Seeds[k], n} \notin links.pairs
  BY DEF Query!Relations
<1>5. Counted(links, n) # {} <=>
        \E k \in Query!LookedUp(links) : {Query!Seeds[k], n} \in links.pairs
  <2>1. ASSUME NEW p \in Counted(links, n)
        PROVE  \E k \in Query!LookedUp(links) : {Query!Seeds[k], n} \in links.pairs
    <3>1. /\ p[1] \in Query!LookedUp(links) /\ p[2] \in 1..2
          /\ p[2] <= Query!Relations(links, Query!Seeds[p[1]], n)
      BY DEF Counted
    <3>2. Query!Relations(links, Query!Seeds[p[1]], n) # 0
      BY <3>1
    <3> QED
      BY <1>4, <3>1, <3>2
  <2>2. ASSUME NEW k \in Query!LookedUp(links), {Query!Seeds[k], n} \in links.pairs
        PROVE  <<k, 1>> \in Counted(links, n)
    <3> DEFINE r == Query!Relations(links, Query!Seeds[k], n)
    <3>2. r \in {0, 1, 2} /\ r # 0
      BY <1>4, <2>2
    <3> HIDE DEF r
    <3>3. 1 <= r
      BY <3>2
    <3>1. 1 <= Query!Relations(links, Query!Seeds[k], n)
      BY <3>3 DEF r
    <3> QED
      BY <3>1 DEF Counted
  <2> QED
    BY <2>1, <2>2
<1>6. Query!ConnectionCount(links, n) > 0 <=> Counted(links, n) # {}
  BY <1>1, <1>3
<1> QED
  BY <1>1, <1>2, <1>3, <1>5, <1>6

\* The places of the elements T of a list that begins after the first off places
\* of another, each with a mark.
SeedPlaces(s, T, off, mark) == {<<off + k, mark>> : k \in {i \in DOMAIN s : s[i] \in T}}

\* The places of some of the elements of a list without repetitions are as many.
LEMMA PlacesCount ==
  ASSUME NEW S, NEW s \in Seq(S), Query!IsInjective(s), NEW off \in Nat, NEW r,
         NEW T \in SUBSET Query!ToSet(s)
  PROVE  /\ IsFiniteSet(SeedPlaces(s, T, off, r))
         /\ Cardinality(SeedPlaces(s, T, off, r)) = Cardinality(T)
<1> DEFINE C == SeedPlaces(s, T, off, r)
           D == {i \in DOMAIN s : s[i] \in T}
           g == [k \in D |-> <<off + k, r>>]
           h == [k \in D |-> s[k]]
<1>1. Len(s) \in Nat /\ DOMAIN s = 1..Len(s)
  OBVIOUS
<1>2. IsFiniteSet(D)
  <2>1. IsFiniteSet(1..Len(s))
    BY <1>1, FS_Interval
  <2>2. D \in SUBSET (1..Len(s))
    BY <1>1
  <2> QED
    BY <2>1, <2>2, FS_Subset
<1>3. D \subseteq Nat
  BY <1>1
<1>4. \A i \in T : \E k \in D : s[k] = i
  BY DEF Query!ToSet
<1>5. \A j, k \in D : s[j] = s[k] => j = k
  BY DEF Query!IsInjective
<1>6. \A k \in D : s[k] \in T
  OBVIOUS
<1> HIDE DEF D
<1>7. \A j, k \in D : <<off + j, r>> = <<off + k, r>> => j = k
  <2>1. \A j, k \in Nat : off + j = off + k => j = k
    OBVIOUS
  <2> QED
    BY <1>3, <2>1
<1>8. C = {<<off + k, r>> : k \in D}
  BY DEF D, SeedPlaces
<1> HIDE DEF C
<1>9. g \in Surjection(D, C) /\ g \in Injection(D, C)
  BY <1>7, <1>8 DEF Surjection, Injection, IsInjective
<1>10. h \in Surjection(D, T) /\ h \in Injection(D, T)
  BY <1>4, <1>5, <1>6 DEF Surjection, Injection, IsInjective
<1>11. IsFiniteSet(C) /\ Cardinality(C) = Cardinality(D)
  BY <1>2, <1>9, FS_Surjection
<1>12. Cardinality(T) = Cardinality(D)
  BY <1>2, <1>10, FS_Surjection
<1> QED
  BY <1>11, <1>12 DEF C

\* Two sets with nothing in common have as many elements as they have by themselves.
LEMMA CountApart ==
  ASSUME NEW S, NEW T, IsFiniteSet(S), IsFiniteSet(T), S \cap T = {}
  PROVE  /\ IsFiniteSet(S \cup T) /\ Cardinality(S \cup T) \in Nat
         /\ Cardinality(S \cup T) = Cardinality(S) + Cardinality(T)
<1>1. Cardinality(S \cap T) = 0
  BY FS_EmptySet
<1>2. Cardinality(S) \in Nat /\ Cardinality(T) \in Nat
  BY FS_CardinalityType
<1>3. /\ IsFiniteSet(S \cup T)
      /\ Cardinality(S \cup T) = Cardinality(S) + Cardinality(T) - Cardinality(S \cap T)
  BY FS_Union
<1> QED
  BY <1>1, <1>2, <1>3

\* The relationships counted for an item: of each search the seeds that are
\* near, and once more those related to it in both directions.
LEMMA CountIsWeight ==
  ASSUME QueryLists, NEW links, NEW n
  PROVE  Query!ConnectionCount(links, n) = Query!Weight(links, n)
<1> DEFINE V == query.vector
           K == query.keyword
           s == Query!Seeds
           NV == Query!Near(links, V, n)
           MV == Query!Mutual(links, V, n)
           NK == Query!Near(links, K, n)
           MK == Query!Mutual(links, K, n)
           v == Len(V)
           A == SeedPlaces(V, NV, 0, 1)
           B == SeedPlaces(V, MV, 0, 2)
           C == SeedPlaces(K, NK, v, 1)
           D == SeedPlaces(K, MK, v, 2)
<1>1. /\ V \in Seq(Query!Items) /\ Query!IsInjective(V)
      /\ K \in Seq(Query!Items) /\ Query!IsInjective(K)
  BY DEF QueryLists
<1>2. /\ v \in Nat /\ 0 \in Nat
      /\ NV \in SUBSET Query!ToSet(V) /\ MV \in SUBSET Query!ToSet(V)
      /\ NK \in SUBSET Query!ToSet(K) /\ MK \in SUBSET Query!ToSet(K)
  BY <1>1 DEF Query!Near, Query!Mutual
<1>3. /\ s \in Seq(Query!Items) /\ DOMAIN s = 1..(v + Len(K)) /\ Len(K) \in Nat
      /\ DOMAIN V = 1..v /\ DOMAIN K = 1..Len(K)
      /\ \A k \in DOMAIN V : k \in DOMAIN s /\ s[k] = V[k]
      /\ \A k \in DOMAIN K : v + k \in DOMAIN s /\ s[v + k] = K[k]
  <2>1. s = V \o K
    BY DEF Query!Seeds
  <2> HIDE DEF s, V, K
  <2>2. s \in Seq(Query!Items) /\ DOMAIN s = 1..(v + Len(K)) /\ Len(K) \in Nat
    BY <1>1, <2>1
  <2>3. DOMAIN V = 1..v /\ DOMAIN K = 1..Len(K)
    BY <1>1
  <2>4. ASSUME NEW k \in DOMAIN V PROVE k \in DOMAIN s /\ s[k] = V[k]
    BY <1>1, <1>2, <2>1, <2>2, <2>3
  <2>5. ASSUME NEW k \in DOMAIN K PROVE v + k \in DOMAIN s /\ s[v + k] = K[k]
    BY <1>1, <1>2, <2>1, <2>2, <2>3
  <2> QED
    BY <2>2, <2>3, <2>4, <2>5
<1> DEFINE At(p) == s[p] \notin links.failed /\ {s[p], n} \in links.pairs
<1>4. /\ \A k \in DOMAIN V : /\ V[k] \in NV <=> At(k)
                             /\ V[k] \in MV <=> At(k) /\ {s[k], n} = links.double
      /\ \A k \in DOMAIN K : /\ K[k] \in NK <=> At(v + k)
                             /\ K[k] \in MK <=> At(v + k) /\ {s[v + k], n} = links.double
  <2>1. /\ \A k \in DOMAIN V : V[k] \in Query!ToSet(V)
        /\ \A k \in DOMAIN K : K[k] \in Query!ToSet(K)
    BY DEF Query!ToSet
  <2> QED
    BY <1>3, <2>1 DEF Query!Near, Query!Mutual
<1>5. ASSUME NEW p, NEW q
      PROVE  <<p, q>> \in Counted(links, n) <=>
               /\ p \in DOMAIN s /\ At(p)
               /\ q = 1 \/ (q = 2 /\ {s[p], n} = links.double)
  <2> DEFINE rel == Query!Relations(links, s[p], n)
  <2>1. <<p, q>> \in Counted(links, n) <=>
          p \in DOMAIN s /\ s[p] \notin links.failed /\ q \in 1..2 /\ q <= rel
    BY DEF Counted, Query!LookedUp
  <2>2. rel = IF {s[p], n} \notin links.pairs THEN 0
              ELSE IF {s[p], n} = links.double THEN 2 ELSE 1
    BY DEF Query!Relations
  <2> HIDE DEF rel, s
  <2>3. q \in 1..2 /\ q <= rel <=>
          {s[p], n} \in links.pairs /\ (q = 1 \/ (q = 2 /\ {s[p], n} = links.double))
    <3>1. q \in 1..2 <=> q = 1 \/ q = 2
      OBVIOUS
    <3>2. CASE {s[p], n} \notin links.pairs
      <4>1. rel = 0
        BY <2>2, <3>2
      <4> QED
        BY <3>1, <3>2, <4>1
    <3>3. CASE {s[p], n} \in links.pairs /\ {s[p], n} = links.double
      <4>1. rel = 2
        BY <2>2, <3>3
      <4> QED
        BY <3>1, <3>3, <4>1
    <3>4. CASE {s[p], n} \in links.pairs /\ {s[p], n} # links.double
      <4>1. rel = 1
        BY <2>2, <3>4
      <4>2. q \in 1..2 /\ q <= 1 <=> q = 1
        BY <3>1
      <4>3. q \in 1..2 /\ q <= rel <=> q = 1
        BY <4>1, <4>2
      <4> QED
        BY <3>4, <4>3, Zenon
    <3> QED
      BY <3>2, <3>3, <3>4
  <2> QED
    BY <2>1, <2>3
<1>6. \A c \in Counted(links, n) : c = <<c[1], c[2]>>
  BY DEF Counted
<1> HIDE DEF At, NV, MV, NK, MK, s, v, V, K
<1>7. Counted(links, n) = (A \cup B) \cup (C \cup D)
  <2>1. A \cup B \cup C \cup D \subseteq Counted(links, n)
    <3>1. ASSUME NEW k \in DOMAIN V
          PROVE  /\ V[k] \in NV => <<0 + k, 1>> \in Counted(links, n)
                 /\ V[k] \in MV => <<0 + k, 2>> \in Counted(links, n)
      <4>1. 0 + k = k
        BY <1>2, <1>3
      <4>2. k \in DOMAIN s
        BY <1>3
      <4>3. V[k] \in NV => <<k, 1>> \in Counted(links, n)
        BY <1>4, <1>5, <4>2
      <4>4. V[k] \in MV => <<k, 2>> \in Counted(links, n)
        BY <1>4, <1>5, <4>2
      <4> QED
        BY <4>1, <4>3, <4>4
    <3>2. ASSUME NEW k \in DOMAIN K
          PROVE  /\ K[k] \in NK => <<v + k, 1>> \in Counted(links, n)
                 /\ K[k] \in MK => <<v + k, 2>> \in Counted(links, n)
      <4>1. v + k \in DOMAIN s
        BY <1>3
      <4>2. K[k] \in NK => <<v + k, 1>> \in Counted(links, n)
        BY <1>4, <1>5, <4>1
      <4>3. K[k] \in MK => <<v + k, 2>> \in Counted(links, n)
        BY <1>4, <1>5, <4>1
      <4> QED
        BY <4>2, <4>3
    <3> QED
      BY <3>1, <3>2 DEF SeedPlaces
  <2>2. ASSUME NEW c \in Counted(links, n) PROVE c \in A \cup B \cup C \cup D
    <3>1. PICK p, q : c = <<p, q>>
      BY <1>6
    <3>2. /\ p \in DOMAIN s /\ At(p)
          /\ q = 1 \/ (q = 2 /\ {s[p], n} = links.double)
      BY <1>5, <2>2, <3>1
    <3>3. CASE p \in DOMAIN V
      <4>1. 0 + p = p
        BY <1>2, <1>3, <3>3
      <4> QED
        BY <1>4, <3>1, <3>2, <3>3, <4>1 DEF SeedPlaces
    <3>4. CASE p \notin DOMAIN V
      <4>1. PICK k \in DOMAIN K : p = v + k
        <5>1. p - v \in 1..Len(K) /\ p = v + (p - v)
          BY <1>2, <1>3, <3>2, <3>4
        <5> QED
          BY <1>3, <5>1
      <4> QED
        BY <1>4, <3>1, <3>2, <4>1 DEF SeedPlaces
    <3> QED
      BY <3>3, <3>4
  <2> QED
    BY <2>1, <2>2
<1>8. A \cap B = {} /\ C \cap D = {} /\ (A \cup B) \cap (C \cup D) = {}
  <2>1. \A c \in A \cup B : c[1] \in 1..v
    BY <1>2, <1>3 DEF SeedPlaces
  <2>2. \A c \in C \cup D : c[1] \notin 1..v
    BY <1>2, <1>3 DEF SeedPlaces
  <2>3. (\A c \in A \cup C : c[2] = 1) /\ (\A c \in B \cup D : c[2] = 2)
    BY DEF SeedPlaces
  <2> HIDE DEF A, B, C, D
  <2> QED
    BY <2>1, <2>2, <2>3
<1>9. /\ IsFiniteSet(A) /\ Cardinality(A) = Cardinality(NV)
      /\ IsFiniteSet(B) /\ Cardinality(B) = Cardinality(MV)
      /\ IsFiniteSet(C) /\ Cardinality(C) = Cardinality(NK)
      /\ IsFiniteSet(D) /\ Cardinality(D) = Cardinality(MK)
  <2>1. IsFiniteSet(A) /\ Cardinality(A) = Cardinality(NV)
    BY <1>1, <1>2, PlacesCount
  <2>2. IsFiniteSet(B) /\ Cardinality(B) = Cardinality(MV)
    BY <1>1, <1>2, PlacesCount
  <2>3. IsFiniteSet(C) /\ Cardinality(C) = Cardinality(NK)
    BY <1>1, <1>2, PlacesCount
  <2>4. IsFiniteSet(D) /\ Cardinality(D) = Cardinality(MK)
    BY <1>1, <1>2, PlacesCount
  <2> QED
    BY <2>1, <2>2, <2>3, <2>4
<1> HIDE DEF A, B, C, D
<1>10. /\ IsFiniteSet(A \cup B) /\ Cardinality(A \cup B) = Cardinality(NV) + Cardinality(MV)
       /\ IsFiniteSet(C \cup D) /\ Cardinality(C \cup D) = Cardinality(NK) + Cardinality(MK)
  <2>1. IsFiniteSet(A \cup B) /\ Cardinality(A \cup B) = Cardinality(A) + Cardinality(B)
    BY <1>8, <1>9, CountApart
  <2>2. IsFiniteSet(C \cup D) /\ Cardinality(C \cup D) = Cardinality(C) + Cardinality(D)
    BY <1>8, <1>9, CountApart
  <2> QED
    BY <1>9, <2>1, <2>2
<1>11. Cardinality(Counted(links, n)) =
         (Cardinality(NV) + Cardinality(MV)) + (Cardinality(NK) + Cardinality(MK))
  <2>1. Cardinality((A \cup B) \cup (C \cup D)) = Cardinality(A \cup B) + Cardinality(C \cup D)
    BY <1>8, <1>10, CountApart
  <2> QED
    BY <1>7, <1>10, <2>1
<1>12. Query!ConnectionCount(links, n) = Cardinality(Counted(links, n))
  BY QuerySets DEF Query!ConnectionCount, Counted
<1>13. Query!Weight(links, n) =
         (Cardinality(NV) + Cardinality(MV)) + (Cardinality(NK) + Cardinality(MK))
  BY QuerySets DEF Query!Weight, NV, MV, NK, MK, V, K
<1> QED
  BY <1>11, <1>12, <1>13

\* The best rank of the seeds of a neighbour is a rank.
LEMMA BestIs ==
  ASSUME QueryLists, NEW links, NEW n \in Query!Neighbours(links)
  PROVE  Query!BestSeedRank(links, n) \in Nat
<1> DEFINE J == {j \in Query!LookedUp(links) : Query!Relations(links, Query!Seeds[j], n) > 0}
           T == {Query!SeedRank(k) : k \in J}
<1>1. query.vector \in Seq(Query!Items) /\ query.keyword \in Seq(Query!Items)
  BY DEF QueryLists
<1>2. Query!Seeds \in Seq(Query!Items) /\ Len(query.vector) \in Nat
  BY <1>1 DEF Query!Seeds
<1>3. J # {}
  <2>1. Query!ConnectionCount(links, n) > 0
    BY DEF Query!Neighbours
  <2>2. PICK k \in Query!LookedUp(links) : {Query!Seeds[k], n} \in links.pairs
    BY <1>2, <2>1, CountIs
  <2>3. Query!Relations(links, Query!Seeds[k], n) \in {1, 2}
    BY <2>2 DEF Query!Relations
  <2> QED
    BY <2>2, <2>3
<1>4. \A k \in J : Query!SeedRank(k) \in Nat
  <2> TAKE k \in J
  <2>1. k \in Nat
    BY <1>2 DEF Query!LookedUp
  <2> QED
    BY <1>2, <2>1 DEF Query!SeedRank
<1> HIDE DEF J
<1>5. T \in SUBSET Nat /\ T # {}
  BY <1>3, <1>4
<1> HIDE DEF T
<1>6. Query!Min(T) \in Nat
  BY <1>5, LeastIs
<1> QED
  BY <1>6 DEF Query!BestSeedRank, T, J

\* The query, and what holds of it on its way.
QueryRecord ==
  [pc : {"route", "vector", "keyword", "graph", "merge", "item", "chunks",
         "answer", "answered", "failed"},
   decision : [vector : BOOLEAN, graph : BOOLEAN],
   vector : Seq(Query!Items), keyword : Seq(Query!Items), graph : Seq(Query!Items),
   links : Query!Links, merged : Seq(Query!Items),
   context : Seq(Query!Items), sources : Seq(Query!Items), next : Nat \ {0}]
Searching == {"route", "vector", "keyword", "graph"}
Reading == {"item", "chunks", "answer", "answered"}
CitesInOrder ==
  /\ query.sources = query.context
  /\ query.next <= TopKVector + 1
  /\ Len(query.sources) < query.next
  /\ \A k \in DOMAIN query.sources :
       Query!Rank(query.merged, query.sources[k]) \in 1..query.next - 1
  /\ \A j, k \in DOMAIN query.sources :
       j < k => Query!Rank(query.merged, query.sources[j])
                  < Query!Rank(query.merged, query.sources[k])
QueryInv ==
  /\ query \in QueryRecord
  /\ QueryLists /\ Query!IsInjective(query.merged)
  /\ Len(query.vector) <= TopKVector /\ Len(query.keyword) <= TopKKeyword
  /\ query.pc \in Searching => query.graph = <<>>
  /\ query.pc \in Searching \cup {"merge"} =>
       query.sources = <<>> /\ query.context = <<>> /\ query.next = 1
  /\ query.pc = "merge" /\ query.decision.graph => query.graph \in Query!GraphHits(query.links)
  /\ query.pc \in Reading => query.merged = Query!Merged
  /\ query.pc = "chunks" => query.next <= TopKVector /\ query.next <= Len(query.merged)
  /\ CitesInOrder

\* A graph without relations is a graph.
LEMMA NoLinksTyped == Query!NoLinks \in Query!Links
BY DEF Query!NoLinks, Query!Links

\* Before the question is routed nothing is found.
LEMMA QueryInit == ASSUME Query!Init PROVE QueryInv
<1>1. /\ query.pc = "route" /\ query.decision = [vector |-> FALSE, graph |-> FALSE]
      /\ query.vector = <<>> /\ query.keyword = <<>> /\ query.graph = <<>>
      /\ query.links = Query!NoLinks /\ query.merged = <<>>
      /\ query.context = <<>> /\ query.sources = <<>> /\ query.next = 1
  BY DEF Query!Init
<1>2. query \in QueryRecord
  BY NoLinksTyped DEF Query!Init, QueryRecord
<1>3. Query!IsInjective(<<>>) /\ Query!ToSet(<<>>) = {} /\ <<>> \in Seq(Query!Items)
      /\ Len(<<>>) = 0 /\ DOMAIN <<>> = {}
  BY DEF Query!IsInjective, Query!ToSet
<1>4. QueryLists
  BY <1>1, <1>3 DEF QueryLists
<1>5. TopKVector \in Nat /\ TopKKeyword \in Nat
  BY QueryAssumption DEF Query!Assumptions
<1>6. CitesInOrder
  BY <1>1, <1>3, <1>5 DEF CitesInOrder
<1> QED
  BY <1>1, <1>2, <1>3, <1>4, <1>5, <1>6 DEF QueryInv, Searching, Reading

\* Only the place of the query changes.
LEMMA QueryGoesOn ==
  ASSUME QueryInv, NEW p \in {"vector", "item", "chunks", "answer", "answered", "failed"},
         query' = [query EXCEPT !.pc = p],
         p = "vector" => query.pc = "route",
         p \in Reading => query.pc \in Reading,
         p = "chunks" => query.next <= TopKVector /\ query.next <= Len(query.merged)
  PROVE  QueryInv'
<1>1. query \in QueryRecord
  BY DEF QueryInv
<1>2. query' \in QueryRecord /\ query'.pc = p
  BY <1>1 DEF QueryRecord
<1>3. /\ query'.decision = query.decision /\ query'.vector = query.vector
      /\ query'.keyword = query.keyword /\ query'.graph = query.graph
      /\ query'.links = query.links /\ query'.merged = query.merged
      /\ query'.context = query.context /\ query'.sources = query.sources
      /\ query'.next = query.next
  BY <1>1 DEF QueryRecord
<1>4. QueryLists' <=> QueryLists
  BY <1>3 DEF QueryLists, Query!Seeds
<1>5. Query!Merged' = Query!Merged
  BY <1>3 DEF Query!Merged, Query!Score
<1>6. CitesInOrder' <=> CitesInOrder
  BY <1>3 DEF CitesInOrder
<1> QED
  BY <1>2, <1>3, <1>4, <1>5, <1>6 DEF QueryInv, Searching, Reading

\* The routing starts the searches with nothing found.
LEMMA QueryRoute ==
  ASSUME QueryInv, Query!Route
  PROVE  QueryInv'
<1>1. PICK d \in [vector : BOOLEAN, graph : BOOLEAN] :
        query' = [query EXCEPT !.pc = "vector", !.decision = d]
  BY DEF Query!Route
<1>2. query \in QueryRecord /\ query.pc = "route"
  BY DEF QueryInv, Query!Route
<1>3. query' \in QueryRecord /\ query'.pc = "vector"
  BY <1>1, <1>2 DEF QueryRecord
<1>4. /\ query'.vector = query.vector /\ query'.keyword = query.keyword
      /\ query'.graph = query.graph /\ query'.merged = query.merged
      /\ query'.context = query.context /\ query'.sources = query.sources
      /\ query'.next = query.next
  BY <1>1, <1>2 DEF QueryRecord
<1>5. QueryLists' <=> QueryLists
  BY <1>4 DEF QueryLists, Query!Seeds
<1>6. CitesInOrder' <=> CitesInOrder
  BY <1>4 DEF CitesInOrder
<1> QED
  BY <1>2, <1>3, <1>4, <1>5, <1>6 DEF QueryInv, Searching, Reading

\* A search puts what it found where nothing was.
LEMMA SearchIs ==
  ASSUME NEW k \in Nat, NEW before, NEW found \in Query!Searches(k, before) \cup {<<>>}
  PROVE  /\ Query!ToHits(found) \in Seq(Query!Items) /\ Len(Query!ToHits(found)) <= k
         /\ Query!IsInjective(Query!ToHits(found))
<1>1. found \in Seq(Query!Items) /\ Len(found) <= k
  <2>1. CASE found \in Query!Searches(k, before)
    <3>1. found \in Query!BoundedSeq(Query!Items, k)
      BY <2>1 DEF Query!Searches
    <3> QED
      BY <3>1, BoundedIs
  <2>2. CASE found = <<>>
    BY <2>2
  <2> QED
    BY <2>1, <2>2
<1>2. /\ Query!ToHits(found) \in Seq(Query!Items) /\ Len(Query!ToHits(found)) <= Len(found)
      /\ Query!IsInjective(Query!ToHits(found))
  BY <1>1, ToHitsIs
<1> QED
  BY <1>1, <1>2

\* A search leaves a list of distinct items of at most its length, or none when it fails.
LEMMA QuerySearch ==
  ASSUME QueryInv, Query!VectorSearch \/ Query!KeywordSearch
  PROVE  QueryInv'
<1>1. query \in QueryRecord /\ TopKVector \in Nat /\ TopKKeyword \in Nat
  BY QueryAssumption DEF QueryInv, Query!Assumptions
<1>2. /\ query.pc \in Searching /\ query.graph = <<>> /\ query.sources = <<>>
      /\ query.context = <<>> /\ query.next = 1
  BY DEF Query!VectorSearch, Query!KeywordSearch, QueryInv, Searching
<1>3. ASSUME NEW v \in Seq(Query!Items), NEW w \in Seq(Query!Items),
             Query!IsInjective(v), Query!IsInjective(w),
             Len(v) <= TopKVector, Len(w) <= TopKKeyword,
             query' \in QueryRecord, query'.pc \in {"keyword", "graph"},
             query'.vector = v, query'.keyword = w, query'.graph = query.graph,
             query'.merged = query.merged, query'.sources = query.sources,
             query'.context = query.context, query'.next = query.next
      PROVE  QueryInv'
  <2>1. QueryLists'
    <3>1. Query!ToSet(<<>>) = {}
      BY DEF Query!ToSet
    <3> QED
      BY <1>2, <1>3, <3>1 DEF QueryLists, QueryInv
  <2>2. CitesInOrder'
    BY <1>1, <1>2, <1>3 DEF CitesInOrder
  <2> QED
    BY <1>2, <1>3, <2>1, <2>2 DEF QueryInv, Searching, Reading
<1>4. /\ Query!IsInjective(query.vector) /\ Query!IsInjective(query.keyword)
      /\ query.vector \in Seq(Query!Items) /\ query.keyword \in Seq(Query!Items)
      /\ Len(query.vector) <= TopKVector /\ Len(query.keyword) <= TopKKeyword
  BY DEF QueryInv, QueryLists
<1>5. CASE Query!VectorSearch
  <2>1. PICK found \in Query!Searches(TopKVector, <<>>) \cup {<<>>} :
          query' = [query EXCEPT !.pc = "keyword", !.vector = Query!ToHits(found)]
    BY <1>5 DEF Query!VectorSearch
  <2> DEFINE h == Query!ToHits(found)
  <2>2. h \in Seq(Query!Items) /\ Len(h) <= TopKVector /\ Query!IsInjective(h)
    BY <1>1, SearchIs
  <2>3. query' = [query EXCEPT !.pc = "keyword", !.vector = h]
    BY <2>1
  <2> HIDE DEF h
  <2>4. query' \in QueryRecord
    BY <1>1, <2>2, <2>3 DEF QueryRecord
  <2>5. /\ query'.pc = "keyword" /\ query'.vector = h /\ query'.keyword = query.keyword
        /\ query'.graph = query.graph
        /\ query'.merged = query.merged /\ query'.sources = query.sources
        /\ query'.context = query.context /\ query'.next = query.next
    BY <1>1, <2>3 DEF QueryRecord
  <2> QED
    BY <1>3, <1>4, <2>2, <2>4, <2>5
<1>6. CASE Query!KeywordSearch
  <2>1. PICK found \in Query!Searches(TopKKeyword, query.vector) :
          query' = [query EXCEPT !.pc = "graph", !.keyword = Query!ToHits(found)]
    BY <1>6 DEF Query!KeywordSearch
  <2> DEFINE h == Query!ToHits(found)
  <2>2. h \in Seq(Query!Items) /\ Len(h) <= TopKKeyword /\ Query!IsInjective(h)
    BY <1>1, SearchIs
  <2>3. query' = [query EXCEPT !.pc = "graph", !.keyword = h]
    BY <2>1
  <2> HIDE DEF h
  <2>4. query' \in QueryRecord
    BY <1>1, <2>2, <2>3 DEF QueryRecord
  <2>5. /\ query'.pc = "graph" /\ query'.vector = query.vector /\ query'.keyword = h
        /\ query'.graph = query.graph
        /\ query'.merged = query.merged /\ query'.sources = query.sources
        /\ query'.context = query.context /\ query'.next = query.next
    BY <1>1, <2>3 DEF QueryRecord
  <2> QED
    BY <1>3, <1>4, <2>2, <2>4, <2>5
<1> QED
  BY <1>5, <1>6

\* The graphs that the traversal may find are graphs.
LEMMA PossibleLinksTyped ==
  ASSUME QueryInv, NEW links \in Query!PossibleLinks \cup {Query!NoLinks}
  PROVE  links \in Query!Links
<1>1. CASE links \in Query!PossibleLinks
  <2>1. /\ links \in [pairs : UNION {Query!kSubset(k, Query!Pairs) : k \in 0..MaxLinks},
                      double : Query!Pairs \cup {{}},
                      failed : {{}} \cup {{i} : i \in Query!ToSet(Query!Seeds)}]
    BY <1>1 DEF Query!PossibleLinks
  <2>2. UNION {Query!kSubset(k, Query!Pairs) : k \in 0..MaxLinks} \subseteq SUBSET Query!Pairs
    BY DEF Query!kSubset
  <2>3. Query!Pairs \cup {{}} \subseteq SUBSET Query!Items
    BY DEF Query!Pairs
  <2>4. {{}} \cup {{i} : i \in Query!ToSet(Query!Seeds)} \subseteq SUBSET Query!Items
    <3>1. query.vector \in Seq(Query!Items) /\ query.keyword \in Seq(Query!Items)
      BY DEF QueryInv, QueryLists
    <3>2. Query!Seeds \in Seq(Query!Items)
      BY <3>1 DEF Query!Seeds
    <3>3. Query!ToSet(Query!Seeds) \subseteq Query!Items
      BY <3>2 DEF Query!ToSet
    <3> QED
      BY <3>3
  <2> QED
    BY <2>1, <2>2, <2>3, <2>4 DEF Query!Links
<1>2. CASE links = Query!NoLinks
  BY <1>2, NoLinksTyped
<1> QED
  BY <1>1, <1>2

\* The traversal leaves what it has found, or nothing when it is not wanted or fails.
LEMMA QueryTraversal ==
  ASSUME QueryInv, Query!GraphTraversal
  PROVE  QueryInv'
<1>1. query \in QueryRecord /\ query.pc = "graph"
  BY DEF QueryInv, Query!GraphTraversal
<1>a. PICK links \in Query!PossibleLinks \cup {Query!NoLinks} :
        \E hits \in IF query.decision.graph THEN Query!GraphHits(links) ELSE {<<>>} :
          query' = [query EXCEPT !.pc = "merge", !.links = links, !.graph = hits]
  BY DEF Query!GraphTraversal
<1>2. PICK hits \in IF query.decision.graph THEN Query!GraphHits(links) ELSE {<<>>} :
        query' = [query EXCEPT !.pc = "merge", !.links = links, !.graph = hits]
  BY <1>a
<1>3. links \in Query!Links
  BY PossibleLinksTyped
<1>4. /\ hits \in Seq(Query!Items) /\ Query!IsInjective(hits)
      /\ Query!ToSet(hits) \cap Query!ToSet(Query!Seeds) = {}
  <2>1. CASE query.decision.graph
    <3>1. /\ hits \in Seq(Query!Items) /\ Query!IsInjective(hits)
          /\ Query!ToSet(hits) = Query!Neighbours(links)
      BY <1>2, <2>1, GraphHitsAre
    <3> QED
      BY <3>1 DEF Query!Neighbours
  <2>2. CASE ~query.decision.graph
    <3>1. hits = <<>>
      BY <1>2, <2>2
    <3> QED
      BY <3>1 DEF Query!ToSet, Query!IsInjective
  <2> QED
    BY <2>1, <2>2
<1> DEFINE v == [query EXCEPT !.pc = "merge", !.links = links]
<1>5. v \in QueryRecord
  BY <1>1, <1>3 DEF QueryRecord
<1>6. /\ v.pc = "merge" /\ v.links = links /\ v.decision = query.decision
      /\ v.vector = query.vector /\ v.keyword = query.keyword
      /\ v.merged = query.merged /\ v.sources = query.sources
      /\ v.context = query.context /\ v.next = query.next
  BY <1>1 DEF QueryRecord
<1>7. query' = [v EXCEPT !.graph = hits]
  BY <1>2
<1> HIDE DEF v
<1>8. query' \in QueryRecord
  BY <1>4, <1>5, <1>7 DEF QueryRecord
<1>9. /\ query'.pc = "merge" /\ query'.links = links /\ query'.decision = query.decision
      /\ query'.vector = query.vector /\ query'.keyword = query.keyword
      /\ query'.graph = hits
      /\ query'.merged = query.merged /\ query'.sources = query.sources
      /\ query'.context = query.context /\ query'.next = query.next
  BY <1>5, <1>6, <1>7 DEF QueryRecord
<1>10. Query!Seeds' = Query!Seeds
  BY <1>9 DEF Query!Seeds
<1>11. QueryLists'
  BY <1>4, <1>9, <1>10 DEF QueryInv, QueryLists
<1>12. CitesInOrder' <=> CitesInOrder
  BY <1>9 DEF CitesInOrder
<1>13. query'.decision.graph => (query.graph \in Query!GraphHits(query.links))'
  <2>1. Query!LookedUp(links)' = Query!LookedUp(links)
    BY <1>10 DEF Query!LookedUp
  <2>2. \A n : Query!ConnectionCount(links, n)' = Query!ConnectionCount(links, n)
    BY <1>10, <2>1 DEF Query!ConnectionCount
  <2>3. \A n : Query!BestSeedRank(links, n)' = Query!BestSeedRank(links, n)
    BY <1>9, <1>10, <2>1 DEF Query!BestSeedRank, Query!SeedRank
  <2>4. \A m, n : Query!Closer(links, m, n)' <=> Query!Closer(links, m, n)
    BY <2>2, <2>3 DEF Query!Closer
  <2>5. Query!Neighbours(links)' = Query!Neighbours(links)
    BY <1>10, <2>2 DEF Query!Neighbours
  <2>6. Query!GraphHits(links)' = Query!GraphHits(links)
    BY <2>4, <2>5 DEF Query!GraphHits
  <2>7. Query!GraphHits(query.links)' = Query!GraphHits(links)'
    BY <1>9
  <2> QED
    BY <1>2, <1>9, <2>6, <2>7
<1>14. query.pc \in Searching => query.sources = <<>> /\ query.context = <<>> /\ query.next = 1
  BY DEF QueryInv
<1>15. /\ Query!IsInjective(query.merged)
       /\ Len(query.vector) <= TopKVector /\ Len(query.keyword) <= TopKKeyword
       /\ CitesInOrder
  BY DEF QueryInv
<1> QED
  BY <1>1, <1>8, <1>9, <1>11, <1>12, <1>13, <1>14, <1>15 DEF QueryInv, Searching, Reading

\* merge() replaces the results, before any of them is read.
LEMMA QueryMerge ==
  ASSUME QueryInv, Query!Merge
  PROVE  QueryInv'
<1> DEFINE m == Query!Merged
<1>1. query \in QueryRecord /\ query.pc = "merge"
      /\ query' = [query EXCEPT !.pc = "item", !.merged = m, !.links = Query!NoLinks]
  BY DEF QueryInv, Query!Merge
<1>2. m \in Seq(Query!Items) /\ Query!IsInjective(m)
  BY MergedIs DEF QueryInv
<1> HIDE DEF m
<1> DEFINE v == [query EXCEPT !.pc = "item", !.merged = m]
<1>3. v \in QueryRecord
  BY <1>1, <1>2 DEF QueryRecord
<1>4. /\ v.pc = "item" /\ v.merged = m
      /\ v.vector = query.vector /\ v.keyword = query.keyword /\ v.graph = query.graph
      /\ v.sources = query.sources /\ v.context = query.context /\ v.next = query.next
  BY <1>1 DEF QueryRecord
<1>5. query' = [v EXCEPT !.links = Query!NoLinks]
  BY <1>1
<1> HIDE DEF v
<1>6. query' \in QueryRecord
  BY <1>3, <1>5, NoLinksTyped DEF QueryRecord
<1>7. /\ query'.pc = "item" /\ query'.merged = m
      /\ query'.vector = query.vector /\ query'.keyword = query.keyword
      /\ query'.graph = query.graph
      /\ query'.sources = query.sources /\ query'.context = query.context
      /\ query'.next = query.next
  BY <1>3, <1>4, <1>5 DEF QueryRecord
<1>8. QueryLists' <=> QueryLists
  BY <1>7 DEF QueryLists, Query!Seeds
<1>9. Query!Merged' = m
  BY <1>7 DEF Query!Merged, Query!Score, m
<1>10. query.sources = <<>> /\ query.context = <<>> /\ query.next = 1
  BY <1>1 DEF QueryInv
<1>11. CitesInOrder'
  BY <1>7, <1>10, QueryAssumption DEF CitesInOrder, Query!Assumptions
<1> QED
  BY <1>2, <1>6, <1>7, <1>8, <1>9, <1>11 DEF QueryInv, Searching, Reading

\* synthesize(): the next result is passed over, or its text is read.
LEMMA QueryReads ==
  ASSUME QueryInv, Query!ReadItem \/ Query!ReadChunks
  PROVE  QueryInv'
<1>1. /\ query \in QueryRecord /\ query.next \in Nat /\ query.pc \in {"item", "chunks"}
      /\ query.merged \in Seq(Query!Items) /\ Query!IsInjective(query.merged)
      /\ query.sources \in Seq(Query!Items) /\ query.sources = query.context
      /\ query.next >= 1
  BY DEF QueryInv, QueryRecord, CitesInOrder, Query!ReadItem, Query!ReadChunks
<1>2. TopKVector \in Nat /\ Len(query.merged) \in Nat /\ Len(query.sources) \in Nat
  BY <1>1, QueryAssumption DEF Query!Assumptions
<1>3. query.next <= TopKVector /\ query.next <= Len(query.merged)
  <2>1. CASE Query!ReadItem
    <3>1. query.next <= Query!Min({TopKVector, Len(query.merged)})
      BY <2>1 DEF Query!ReadItem, Query!MoreResults
    <3>2. {TopKVector, Len(query.merged)} \in SUBSET Nat
      BY <1>2
    <3>3. /\ Query!Min({TopKVector, Len(query.merged)}) \in {TopKVector, Len(query.merged)}
          /\ Query!Min({TopKVector, Len(query.merged)}) <= TopKVector
          /\ Query!Min({TopKVector, Len(query.merged)}) <= Len(query.merged)
      BY <3>2, LeastIs
    <3> QED
      BY <1>1, <1>2, <3>1, <3>3
  <2>2. CASE Query!ReadChunks
    BY <2>2 DEF Query!ReadChunks, QueryInv
  <2> QED
    BY <2>1, <2>2
<1> DEFINE i == query.merged[query.next]
           l == Append(query.sources, i)
           later == [query EXCEPT !.pc = "item", !.next = query.next + 1]
<1>4. i \in Query!Items /\ Query!Rank(query.merged, i) = query.next
  <2>1. query.next \in 1..Len(query.merged)
    BY <1>1, <1>2, <1>3
  <2> QED
    BY <1>1, <2>1, RankOfPlace
<1>5. later \in QueryRecord
  <2> DEFINE n == query.next + 1
  <2>1. n \in Nat \ {0} /\ later = [query EXCEPT !.pc = "item", !.next = n]
    BY <1>1
  <2> HIDE DEF n, later, i, l
  <2> QED
    BY <1>1, <2>1 DEF QueryRecord
<1>6. /\ later.pc = "item" /\ later.next = query.next + 1
      /\ later.vector = query.vector /\ later.keyword = query.keyword
      /\ later.graph = query.graph /\ later.merged = query.merged
      /\ later.sources = query.sources /\ later.context = query.context
  BY <1>1 DEF QueryRecord
<1>7. CitesInOrder
  BY DEF QueryInv
<1>8. ASSUME query' \in QueryRecord, query'.pc \in {"item"},
             query'.next = query.next + 1,
             query'.vector = query.vector, query'.keyword = query.keyword,
             query'.graph = query.graph, query'.merged = query.merged,
             CitesInOrder'
      PROVE  QueryInv'
  <2>1. QueryLists' <=> QueryLists
    BY <1>8 DEF QueryLists, Query!Seeds
  <2>2. Query!Merged' = Query!Merged
    BY <1>8 DEF Query!Merged, Query!Score
  <2> QED
    BY <1>1, <1>8, <2>1, <2>2 DEF QueryInv, Searching, Reading
<1>9. CASE query' = later
  <2> HIDE DEF later
  <2>1. CitesInOrder'
    BY <1>1, <1>2, <1>3, <1>6, <1>7, <1>9 DEF CitesInOrder
  <2> QED
    BY <1>5, <1>6, <1>8, <1>9, <2>1
<1>10. CASE query' = [later EXCEPT !.context = Append(later.context, i),
                                   !.sources = Append(later.sources, i)]
  <2> HIDE DEF later, i
  <2>1. l \in Seq(Query!Items)
    BY <1>1, <1>4
  <2>2. query' = [later EXCEPT !.context = l, !.sources = l]
    BY <1>1, <1>6, <1>10
  <2>3. /\ Len(l) = Len(query.sources) + 1 /\ l[Len(query.sources) + 1] = i
        /\ DOMAIN l = 1..(Len(query.sources) + 1) /\ DOMAIN query.sources = 1..Len(query.sources)
        /\ \A k \in 1..Len(query.sources) : l[k] = query.sources[k]
    BY <1>1, <1>4
  <2> HIDE DEF l
  <2>4. query' \in QueryRecord
    BY <1>5, <2>1, <2>2 DEF QueryRecord
  <2>5. /\ query'.pc = "item" /\ query'.next = query.next + 1
        /\ query'.vector = query.vector /\ query'.keyword = query.keyword
        /\ query'.graph = query.graph /\ query'.merged = query.merged
        /\ query'.sources = l /\ query'.context = l
    BY <1>5, <1>6, <2>2 DEF QueryRecord
  <2>6. \A k \in 1..(Len(query.sources) + 1) :
          k \in 1..Len(query.sources) \/ k = Len(query.sources) + 1
    BY <1>2
  <2>7. \A k \in 1..Len(query.sources) :
          Query!Rank(query.merged, query.sources[k]) \in 1..query.next - 1
    BY <1>7, <2>3 DEF CitesInOrder
  <2>8. ASSUME NEW k \in 1..(Len(query.sources) + 1)
        PROVE  Query!Rank(query.merged, l[k]) \in 1..query.next
    <3>1. CASE k \in 1..Len(query.sources)
      <4>1. Query!Rank(query.merged, l[k]) \in 1..query.next - 1
        BY <2>3, <2>7, <3>1
      <4> QED
        BY <1>1, <4>1
    <3>2. CASE k = Len(query.sources) + 1
      BY <1>1, <1>4, <2>3, <3>2
    <3> QED
      BY <2>6, <3>1, <3>2
  <2>9. ASSUME NEW j \in 1..(Len(query.sources) + 1), NEW k \in 1..(Len(query.sources) + 1),
               j < k
        PROVE  Query!Rank(query.merged, l[j]) < Query!Rank(query.merged, l[k])
    <3>1. j \in 1..Len(query.sources)
      BY <1>2, <2>9
    <3>2. CASE k \in 1..Len(query.sources)
      BY <1>7, <2>3, <2>9, <3>1, <3>2 DEF CitesInOrder
    <3>3. CASE k = Len(query.sources) + 1
      <4>1. Query!Rank(query.merged, l[j]) \in 1..query.next - 1
        BY <2>3, <2>7, <3>1
      <4>2. Query!Rank(query.merged, l[k]) = query.next
        BY <1>4, <2>3, <3>3
      <4> QED
        BY <1>1, <4>1, <4>2
    <3> QED
      BY <2>6, <3>2, <3>3
  <2>10. CitesInOrder'
    <3>1. query'.next <= TopKVector + 1 /\ Len(query'.sources) < query'.next
      BY <1>1, <1>2, <1>3, <1>7, <2>3, <2>5 DEF CitesInOrder
    <3>2. query'.next - 1 = query.next
      BY <1>1, <2>5
    <3> QED
      BY <2>3, <2>5, <2>8, <2>9, <3>1, <3>2 DEF CitesInOrder
  <2> QED
    BY <1>8, <2>4, <2>5, <2>10
<1>11. CASE Query!ReadItem
  <2>1. CASE query' = [query EXCEPT !.pc = "chunks"]
    BY <1>3, <1>11, <2>1, QueryGoesOn DEF Query!ReadItem, Reading
  <2>2. CASE query' = [query EXCEPT !.next = query.next + 1]
    <3>1. query' = later
      BY <1>1, <1>11, <2>2 DEF Query!ReadItem, QueryRecord
    <3> QED
      BY <1>9, <3>1
  <2> QED
    BY <1>11, <2>1, <2>2 DEF Query!ReadItem
<1>12. CASE Query!ReadChunks
  BY <1>9, <1>10, <1>12 DEF Query!ReadChunks
<1> QED
  BY <1>11, <1>12

\* Every step of a query keeps the invariant.
LEMMA QueryNext == ASSUME QueryInv, [Next]_vars PROVE QueryInv'
<1>1. CASE Query!EndReading
  <2>1. PICK p \in {"answer", "answered"} : query' = [query EXCEPT !.pc = p]
    BY <1>1 DEF Query!EndReading
  <2> QED
    BY <1>1, <2>1, QueryGoesOn DEF Query!EndReading, Reading
<1>2. CASE Query!GenerateAnswer
  BY <1>2, QueryGoesOn DEF Query!GenerateAnswer, Reading
<1>3. CASE Query!Fail
  BY <1>3, QueryGoesOn DEF Query!Fail, Reading
<1>4. CASE UNCHANGED query
  <2>1. QueryLists' <=> QueryLists
    BY <1>4 DEF QueryLists, Query!Seeds
  <2>2. Query!Merged' = Query!Merged
    BY <1>4 DEF Query!Merged, Query!Score
  <2>3. CitesInOrder' <=> CitesInOrder
    BY <1>4 DEF CitesInOrder
  <2>4. Query!GraphHits(query.links)' = Query!GraphHits(query.links)
    BY <1>4 DEF Query!GraphHits, Query!Neighbours, Query!Closer, Query!ConnectionCount,
                Query!BestSeedRank, Query!LookedUp, Query!SeedRank, Query!Seeds
  <2> QED
    BY <1>4, <2>1, <2>2, <2>3, <2>4 DEF QueryInv
<1>5. CASE Query!Next
  BY <1>1, <1>2, <1>3, <1>5, QueryRoute, QuerySearch, QueryTraversal, QueryMerge, QueryReads
     DEF Query!Next
<1> QED
  BY <1>4, <1>5 DEF Next, vars, queryVars

\* merge(): whatever the stores return, nothing found is lost or there twice, and
\* what both searches found is ahead of all else. The constant of the scores
\* makes it so up to 61 results of each search; with 62, a hit in the last
\* place of both has the score of one in the first place of one.
THEOREM TwiceFoundComesFirst ==
  TopKVector <= 61 /\ TopKKeyword <= 61 => (Spec => []FoundTwiceIsAhead)
<1> SUFFICES ASSUME TopKVector <= 61, TopKKeyword <= 61
             PROVE  Spec => []FoundTwiceIsAhead
  OBVIOUS
<1>1. Init => QueryInv
  BY QueryInit DEF Init
<1>2. QueryInv /\ [Next]_vars => QueryInv'
  BY QueryNext
<1>3. QueryInv => FoundTwiceIsAhead
  <2> SUFFICES ASSUME QueryInv, query.pc = "item"
               PROVE  Query!FoundTwiceIsAhead
    BY DEF FoundTwiceIsAhead, Query!FoundTwiceIsAhead
  <2> DEFINE m == query.merged
             Twice == Query!ToSet(query.vector) \cap Query!ToSet(query.keyword)
  <2>1. m = Query!Merged /\ QueryLists
    BY DEF QueryInv, Reading
  <2>2. /\ m \in Seq(Query!Items) /\ Query!IsInjective(m) /\ Query!ToSet(m) = Found
        /\ \A j, k \in DOMAIN m : Query!Score(m[j]) < Query!Score(m[k]) => k < j
    BY <2>1, MergedIs
  <2>3. Len(query.vector) <= 61 /\ Len(query.keyword) <= 61
    BY QueryAssumption DEF QueryInv, QueryRecord, Query!Assumptions
  <2>4. ASSUME NEW j \in DOMAIN m, NEW k \in DOMAIN m, m[j] \notin Twice, m[k] \in Twice
        PROVE  k < j
    <3>1. m[j] \in Found
      BY <2>2 DEF Query!ToSet
    <3>2. Query!Score(m[j]) < Query!Score(m[k])
      BY <2>1, <2>3, <2>4, <3>1, TwiceScore
    <3> QED
      BY <2>2, <3>2
  <2> QED
    BY <2>2, <2>4 DEF Query!FoundTwiceIsAhead, Found
<1> QED
  BY <1>1, <1>2, <1>3, PTL DEF Spec

\* graph_traversal(): whatever the searches find, together or apart, whatever is
\* related and whichever lookups fail, all new items related to a seed that was
\* looked up are added, and nothing else; those with more connections come
\* first, each search counting the seeds it found by itself, and between equals
\* the one with the best seed.
THEOREM NeighboursComeByConnections == Spec => []NeighboursByConnections
<1>1. Init => QueryInv
  BY QueryInit DEF Init
<1>2. QueryInv /\ [Next]_vars => QueryInv'
  BY QueryNext
<1>3. QueryInv => NeighboursByConnections
  <2> SUFFICES ASSUME QueryInv, query.pc = "merge", query.decision.graph
               PROVE  Query!NeighboursByConnections
    BY DEF NeighboursByConnections, Query!NeighboursByConnections
  <2> DEFINE l == query.links
             g == query.graph
             V == query.vector
             K == query.keyword
             S == Query!ToSet(Query!Seeds)
  <2>1. g \in Query!GraphHits(l) /\ QueryLists
    BY DEF QueryInv
  <2>2. /\ g \in Seq(Query!Items) /\ Query!ToSet(g) = Query!Neighbours(l)
        /\ \A j, k \in DOMAIN g : j < k => ~Query!Closer(l, g[k], g[j])
    BY <2>1, GraphHitsAre
  <2>3. V \in Seq(Query!Items) /\ K \in Seq(Query!Items)
    BY <2>1 DEF QueryLists
  <2>4. Query!Seeds \in Seq(Query!Items) /\ S = Query!ToSet(V) \cup Query!ToSet(K)
    BY <2>3, ConcatIs DEF Query!Seeds
  <2>5. ASSUME NEW n
        PROVE  Query!ConnectionCount(l, n) > 0 <=>
                 Query!Near(l, V, n) \cup Query!Near(l, K, n) # {}
    <3>1. Query!ConnectionCount(l, n) > 0 <=>
            \E k \in Query!LookedUp(l) : {Query!Seeds[k], n} \in l.pairs
      BY <2>4, CountIs
    <3>2. (\E k \in Query!LookedUp(l) : {Query!Seeds[k], n} \in l.pairs) <=>
            \E i \in S : i \notin l.failed /\ {i, n} \in l.pairs
      BY DEF Query!LookedUp, Query!ToSet
    <3>3. (\E i \in S : i \notin l.failed /\ {i, n} \in l.pairs) <=>
            Query!Near(l, V, n) \cup Query!Near(l, K, n) # {}
      BY <2>4 DEF Query!Near
    <3> QED
      BY <3>1, <3>2, <3>3
  <2>6. Query!ToSet(g) = {n \in Query!Items \ S :
                            Query!Near(l, V, n) \cup Query!Near(l, K, n) # {}}
    <3> HIDE DEF S, V, K
    <3> QED
      BY <2>2, <2>5 DEF Query!Neighbours, S
  <2>7. ASSUME NEW j \in DOMAIN g, NEW k \in DOMAIN g, j < k
        PROVE  \/ Query!Weight(l, g[j]) > Query!Weight(l, g[k])
               \/ /\ Query!Weight(l, g[j]) = Query!Weight(l, g[k])
                  /\ Query!BestSeedRank(l, g[j]) <= Query!BestSeedRank(l, g[k])
    <3>1. g[j] \in Query!Neighbours(l) /\ g[k] \in Query!Neighbours(l)
      BY <2>2, <2>7 DEF Query!ToSet
    <3>2. Query!BestSeedRank(l, g[j]) \in Nat /\ Query!BestSeedRank(l, g[k]) \in Nat
      BY <2>1, <3>1, BestIs
    <3>3. /\ Query!ConnectionCount(l, g[j]) = Query!Weight(l, g[j])
          /\ Query!ConnectionCount(l, g[k]) = Query!Weight(l, g[k])
      BY <2>1, CountIsWeight
    <3>4. Query!ConnectionCount(l, g[j]) \in Nat /\ Query!ConnectionCount(l, g[k]) \in Nat
      BY <2>4, CountIs
    <3>5. ~Query!Closer(l, g[k], g[j])
      BY <2>2, <2>7
    <3> QED
      BY <3>2, <3>3, <3>4, <3>5 DEF Query!Closer
  <2> HIDE DEF S
  <2> QED
    BY <2>6, <2>7 DEF Query!NeighboursByConnections, S
<1> QED
  BY <1>1, <1>2, <1>3, PTL DEF Spec

\* synthesize(): for any results and any deletions meanwhile, the i-th source is
\* the i-th item whose text the model was given, in the order of the results.
THEOREM CitationsStayInOrder == Spec => []CitationsMatchContext
<1>1. Init => QueryInv
  BY QueryInit DEF Init
<1>2. QueryInv /\ [Next]_vars => QueryInv'
  BY QueryNext
<1>3. QueryInv => CitationsMatchContext
  <2> SUFFICES ASSUME QueryInv PROVE Query!CitationsMatchContext
    BY DEF CitationsMatchContext
  <2>1. CitesInOrder /\ query.next \in Nat /\ TopKVector \in Nat
    BY QueryAssumption DEF QueryInv, QueryRecord, Query!Assumptions
  <2>2. \A k \in DOMAIN query.sources :
          Query!Rank(query.merged, query.sources[k]) \in 1..TopKVector
    BY <2>1 DEF CitesInOrder
  <2>3. \A i \in Query!ToSet(query.sources) : Query!Rank(query.merged, i) \in 1..TopKVector
    BY <2>2 DEF Query!ToSet
  <2> QED
    BY <2>1, <2>3 DEF CitesInOrder, Query!CitationsMatchContext
<1> QED
  BY <1>1, <1>2, <1>3, PTL DEF Spec


-----------------------------------------------------------------------------
(* All the parts: their types. The parts whose types are not inductive by   *)
(* themselves keep them through the invariants above.                       *)

\* What QueryInv says of the lists bounds their lengths.
LEMMA QueryTyped == ASSUME QueryInv PROVE Query!TypeOK
<1>1. /\ query \in QueryRecord /\ query.merged \in Seq(Query!Items)
      /\ query.context \in Seq(Query!Items) /\ query.sources \in Seq(Query!Items)
      /\ query.next \in Nat \ {0} /\ TopKVector \in Nat
      /\ query.decision \in [vector : BOOLEAN, graph : BOOLEAN] /\ query.links \in Query!Links
  BY QueryAssumption DEF QueryInv, QueryRecord, Query!Assumptions
<1>2. {query.vector, query.keyword, query.graph, query.merged} \subseteq Query!Hits
  BY <1>1, ListBound DEF QueryInv, QueryLists
<1>3. Len(query.sources) <= TopKVector /\ query.next \in 1..TopKVector + 1
  BY <1>1 DEF QueryInv, CitesInOrder
<1>4. {query.context, query.sources} \subseteq Query!BoundedSeq(Query!Items, TopKVector)
  <2>1. query.sources \in Query!BoundedSeq(Query!Items, TopKVector)
    BY <1>1, <1>3, BoundedIs
  <2> QED
    BY <2>1 DEF QueryInv, CitesInOrder
<1> QED
  BY <1>1, <1>2, <1>3, <1>4 DEF Query!TypeOK, QueryRecord

\* The scheduler's variables keep their types.
LEMMA LoopTyped ==
  ASSUME Loop!TypeOK, Loop!Next
  PROVE  Loop!TypeOK'
<1> DEFINE M == MaxTime + 1
<1>1. M \in Nat /\ MaxWrites \in Nat
  BY LoopAssumption DEF Loop!Assumptions
<1>2. /\ time \in 0..M /\ schedule \in Schedules /\ writes \in 0..MaxWrites
      /\ file \in {"whole", "empty", "cut"}
      /\ loop \in [pc : {"down", "sleeping", "batch"}, lastCheck : 0..M, now : 0..M]
      /\ due \subseteq 0..M
  BY DEF Loop!TypeOK
<1>3. CASE Loop!Tick
  <2>1. time < M /\ time' = time + 1 /\ due' \subseteq due \cup {time'}
    BY <1>3 DEF Loop!Tick
  <2>2. UNCHANGED <<file, schedule, writes, loop>>
    BY <1>3 DEF Loop!Tick
  <2> QED
    BY <1>1, <1>2, <2>1, <2>2 DEF Loop!TypeOK
<1>4. CASE Loop!OpenForWriting \/ Loop!WriteSome \/ Loop!WriteAll
  <2>1. /\ writes' \in 0..MaxWrites /\ file' \in {"whole", "empty", "cut"}
        /\ schedule' \in Schedules /\ due' \subseteq due
        /\ UNCHANGED <<time, loop>>
    BY <1>1, <1>2, <1>4 DEF Loop!OpenForWriting, Loop!WriteSome, Loop!WriteAll
  <2> QED
    BY <1>1, <1>2, <2>1 DEF Loop!TypeOK
<1>5. CASE Loop!PollIdle \/ Loop!PollRun \/ Loop!PollFails \/ Loop!EndBatch \/ Loop!Killed
           \/ Loop!StartLoop
  <2>1. /\ due' \subseteq due
        /\ UNCHANGED <<time, file, schedule, writes>>
    BY <1>5 DEF Loop!PollIdle, Loop!PollRun, Loop!PollFails, Loop!EndBatch, Loop!Killed,
                Loop!StartLoop, Loop!Stop
  <2> DEFINE T == 0..M
  <2>2. loop' \in [pc : {"down", "sleeping", "batch"}, lastCheck : T, now : T]
    <3>1. /\ time \in T /\ loop.now \in T
          /\ loop \in [pc : {"down", "sleeping", "batch"}, lastCheck : T, now : T]
      BY <1>2
    <3> HIDE DEF T
    <3>2. CASE Loop!PollIdle
      BY <3>1, <3>2 DEF Loop!PollIdle
    <3>3. CASE Loop!PollRun
      BY <3>1, <3>3 DEF Loop!PollRun
    <3>4. CASE Loop!EndBatch
      BY <3>1, <3>4 DEF Loop!EndBatch
    <3>5. CASE Loop!PollFails \/ Loop!Killed
      BY <3>1, <3>5 DEF Loop!PollFails, Loop!Killed, Loop!Stop
    <3>6. CASE Loop!StartLoop
      BY <3>1, <3>6 DEF Loop!StartLoop
    <3> QED
      BY <1>5, <3>2, <3>3, <3>4, <3>5, <3>6
  <2> QED
    BY <1>1, <1>2, <2>1, <2>2 DEF Loop!TypeOK
<1> QED
  BY <1>3, <1>4, <1>5 DEF Loop!Next

\* Every variable of every part keeps its type, and with it the bound on how
\* often a model is called for one purpose, on how many items are cited, and on
\* how long a list of results gets.
THEOREM ServicesTyped == Spec => []TypeOK
<1> DEFINE Inv == TurnInv /\ QueryInv /\ GrantInv /\ ChecksInv /\ Loop!TypeOK
<1>1. Init => Inv
  <2>1. Loop!Init => Loop!TypeOK
    BY LoopAssumption DEF Loop!Init, Loop!TypeOK, Loop!Assumptions
  <2> QED
    BY <2>1, TurnInit, QueryInit, GrantInit, ChecksInit DEF Init
<1>2. Inv /\ [Next]_vars => Inv'
  <2> SUFFICES ASSUME Inv, [Next]_vars PROVE Inv'
    OBVIOUS
  <2>1. TurnInv'
    BY TurnNext
  <2>2. QueryInv'
    BY QueryNext
  <2>3. GrantInv'
    <3>1. CASE OAuth!Next
      BY <3>1, GrantCallback, GrantLoader, GrantOther DEF OAuth!Next
    <3>2. CASE UNCHANGED oauthVars
      BY <3>2 DEF oauthVars, GrantInv, OAuth!TypeOK, HoldsGrant, Rewrites, NewestToken,
                  Undisturbed
    <3> QED
      BY <3>1, <3>2 DEF Next, vars
  <2>4. ChecksInv'
    <3>1. CASE Checks!Next
      BY <3>1, ChecksStep
    <3>2. CASE UNCHANGED checkVars
      BY <3>2 DEF checkVars, ChecksInv, CacheInv, StoredInv, Checks!TypeOK
    <3> QED
      BY <3>1, <3>2 DEF Next, vars
  <2>5. Loop!TypeOK'
    <3>1. CASE Loop!Next
      BY <3>1, LoopTyped
    <3>2. CASE UNCHANGED loopVars
      BY <3>2 DEF loopVars, Loop!TypeOK
    <3> QED
      BY <3>1, <3>2 DEF Next, vars
  <2> QED
    BY <2>1, <2>2, <2>3, <2>4, <2>5
<1>3. Inv => TypeOK
  BY QueryTyped DEF TypeOK, TurnInv, ConvType, GrantInv, ChecksInv, CacheInv
<1> QED
  BY <1>1, <1>2, <1>3, PTL DEF Spec

=============================================================================
