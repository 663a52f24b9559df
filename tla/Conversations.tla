--------------------------- MODULE Conversations ---------------------------
(***************************************************************************)
(* Questions and answers: the chat window of the browser, the threads of   *)
(* the API that answer, and the one SQLite connection that all of them     *)
(* share.                                                                  *)
(*                                                                         *)
(* The connection has one transaction at a time, whoever began it: a       *)
(* commit of any thread makes durable what every thread has written so     *)
(* far, and a rollback of any thread undoes it. A turn is three inserts    *)
(* and a commit. In the browser, a window that has been left is gone, but  *)
(* the request it sent goes on, and its answer still reaches App.          *)
(***************************************************************************)
EXTENDS Naturals, Sequences, FiniteSets, Orders

CONSTANTS
  Turns,       \* the questions, numbered as they are asked
  Earlier,     \* the questions of one session that were answered before
  MaxRetries,  \* _MAX_RETRIES of the providers
  MaxMounts,   \* bound: the chat windows opened, one after the other
  MaxUpsets    \* bound: writes of other routes on the connection, resets of all
               \* data and restarts of the API, together

Assumptions ==
  /\ Turns \subseteq Nat \ {0} /\ IsFiniteSet(Turns)
  /\ Earlier \subseteq Turns /\ Earlier = 1..Cardinality(Earlier)
  /\ {MaxRetries, MaxMounts, MaxUpsets} \subseteq Nat

VARIABLES
  durable,  \* what the database file holds
  view,     \* what the connection sees: durable and its open transaction
  clock,    \* the created_at of the last turn
  call,     \* call[t]: POST /query of question t
  mishap,   \* history: what other threads did while t was being recorded
  screen,   \* the chat window: the last one mounted
  app,      \* App's sessionId
  resetting, \* POST /admin/reset
  upsets    \* how many writes of others, resets and restarts there have been

storeVars == <<durable, view, clock>>
convVars == <<durable, view, clock, call, mishap, screen, app, resetting, upsets>>

\* A session has the number of the turn that began it, as fresh as its uuid4().
NoSession == 0
Sessions == Turns \cup {NoSession}
Roles == {"user", "agent"}
Row == [session : Turns, turn : Turns, role : Roles, at : Nat]
Store == [sessions : SUBSET Turns, rows : Seq(Row)]
EmptyStore == [sessions |-> {}, rows |-> <<>>]

\* The places of a request: in run(), in record_conversation_turn() from
\* "user" on, and answered or refused until the browser has taken it.
Recording == {"user", "agent", "commit"}
Served == {"sent", "condensing", "answering", "session"} \cup Recording
Call == [pc : {"unasked", "answered", "refused", "shown", "failed"} \cup Served,
         here : BOOLEAN, session : Sessions, tries : Nat, at : Nat]

Bubble == [turn : Turns, role : Roles, status : {"asked", "pending", "done", "error"}]
Screen == [mount : Nat, open : BOOLEAN, session : Sessions, sending : Turns \cup {0},
           bubbles : Seq(Bubble), loading : BOOLEAN, overwritten : BOOLEAN]

TypeOK ==
  /\ durable \in Store /\ view \in Store
  /\ clock \in Nat
  /\ call \in [Turns -> Call]
  /\ \A t \in Turns : call[t].tries <= MaxRetries
  /\ mishap \in [Turns -> SUBSET {"cut", "undone", "erased"}]
  /\ screen \in Screen
  /\ app \in Sessions
  /\ resetting \in {"no", "deleted", "answered"}
  /\ upsets \in 0..MaxUpsets

\* A window as it is mounted: with a session, it asks for its history.
Mounted(n, s) ==
  [mount |-> n, open |-> TRUE, session |-> s, sending |-> 0, bubbles |-> <<>>,
   loading |-> s # NoSession,
   overwritten |-> FALSE]

\* The window that has just been opened is a new chat or the earlier session.
EarlierSession == IF Earlier = {} THEN NoSession ELSE 1
EarlierRows ==
  [k \in 1..2 * Cardinality(Earlier) |->
     [session |-> EarlierSession, turn |-> (k + 1) \div 2, at |-> (k + 1) \div 2,
      role |-> IF k % 2 = 1 THEN "user" ELSE "agent"]]
Init ==
  /\ durable = [sessions |-> {EarlierSession} \ {NoSession}, rows |-> EarlierRows]
  /\ view = durable
  /\ clock = Cardinality(Earlier)
  /\ call = [t \in Turns |-> [pc |-> IF t \in Earlier THEN "shown" ELSE "unasked",
                              here |-> FALSE, tries |-> 0, at |-> 0,
                              session |-> IF t \in Earlier THEN EarlierSession
                                          ELSE NoSession]]
  /\ mishap = [t \in Turns |-> {}]
  /\ app \in {NoSession, EarlierSession}
  /\ screen = Mounted(1, app)
  /\ resetting = "no"
  /\ upsets = 0

-----------------------------------------------------------------------------
(* The connection.                                                         *)

Rows(S) == {S.rows[i] : i \in DOMAIN S.rows}
Has(S, t, role) == \E r \in Rows(S) : r.turn = t /\ r.role = role
Whole(S, t) == Has(S, t, "user") /\ Has(S, t, "agent")

\* get_messages_for_session(): ORDER BY created_at, rowid.
\* Mutant of InOrder: the rowid alone.
ByRowid(S, i, j) == i < j
InOrder(S, i, j) ==
  \/ S.rows[i].at < S.rows[j].at
  \/ S.rows[i].at = S.rows[j].at /\ i < j
Messages(S, s) ==
  LET found == {i \in DOMAIN S.rows : S.rows[i].session = s}
      order == Sorted(found, {p \in found \X found : InOrder(S, p[1], p[2])})
  IN [k \in DOMAIN order |-> S.rows[order[k]]]

Note(what, who) ==
  mishap' = [t \in Turns |-> IF t \in who THEN mishap[t] \cup {what} ELSE mishap[t]]
BeingRecorded == {t \in Turns : call[t].pc \in Recording}

\* conn.commit() and conn.rollback(), by the thread of turn t or another (0).
CommitBy(t) ==
  /\ durable' = view
  /\ Note("cut", BeingRecorded \ {t})
  /\ UNCHANGED <<view, clock>>
RollbackBy(t) ==
  /\ view' = durable
  /\ Note("undone", BeingRecorded \ {t})
  /\ UNCHANGED <<durable, clock>>

Upset == upsets < MaxUpsets /\ upsets' = upsets + 1

\* Another route writes and commits, or fails and rolls back: a stop request,
\* or what a reset does after its deletes.
OtherWrites ==
  /\ Upset
  /\ CommitBy(0) \/ RollbackBy(0)
  /\ UNCHANGED <<call, screen, app, resetting>>

-----------------------------------------------------------------------------
(* run(): one request, by a thread of the API.                             *)

GoTo(t, pc) == call' = [call EXCEPT ![t].pc = pc, ![t].tries = 0]
Reply(t, pc) == call' = [call EXCEPT ![t].pc = pc, ![t].at = 0]

\* Nothing is stored before the answer is there.
Quiet == UNCHANGED <<storeVars, mishap, screen, app, resetting, upsets>>

\* The session is resolved and its history loaded; with none, there is
\* nothing to condense.
Resolve(t) ==
  /\ call[t].pc = "sent"
  /\ LET s == call[t].session IN
       call' = [call EXCEPT
                  ![t].session = IF s = NoSession THEN t ELSE s,
                  ![t].pc = IF s # NoSession /\ Messages(view, s) # <<>>
                            THEN "condensing" ELSE "answering"]
  /\ Quiet

\* _retry_with_backoff(): an attempt fails, and the next follows or none.
\* Mutants of AttemptFails: one attempt too many; the count starts again.
AttemptFailsOnceMore(t, given_up) ==
  /\ IF call[t].tries <= MaxRetries
     THEN call' = [call EXCEPT ![t].tries = @ + 1]
     ELSE GoTo(t, given_up)
  /\ Quiet
AttemptFailsAgain(t, given_up) ==
  /\ call' = [call EXCEPT ![t].tries = IF @ < MaxRetries THEN @ + 1 ELSE 0]
  /\ Quiet
AttemptFails(t, given_up) ==
  /\ IF call[t].tries < MaxRetries
     THEN call' = [call EXCEPT ![t].tries = @ + 1]
     ELSE GoTo(t, given_up)
  /\ Quiet

\* generate_search_query(): without it the question itself is searched for.
Condense(t) ==
  /\ call[t].pc = "condensing"
  /\ \/ GoTo(t, "answering") /\ Quiet
     \/ AttemptFails(t, "answering")

\* The searches and generate_answer(), or the fixed answer where nothing was
\* found; without an answer, the request fails.
Answer(t) ==
  /\ call[t].pc = "answering"
  /\ \/ GoTo(t, "session") /\ Quiet
     \/ AttemptFails(t, "refused")
\* A search fails, before the model is asked.
SearchFails(t) ==
  /\ call[t].pc = "answering" /\ call[t].tries = 0
  /\ GoTo(t, "refused")
  /\ Quiet

\* record_conversation_turn(): created_at is taken before the first insert.
InsertSession(t) ==
  /\ call[t].pc = "session"
  /\ clock' = clock + 1
  /\ view' = [view EXCEPT !.sessions = @ \cup {call[t].session}]
  /\ call' = [call EXCEPT ![t].pc = "user", ![t].at = clock']
  /\ UNCHANGED <<durable, mishap, screen, app, resetting, upsets>>

\* A message's session must exist (FOREIGN KEY).
InsertMessage(t, role) ==
  /\ call[t].session \in view.sessions
  /\ view' = [view EXCEPT !.rows = Append(@, [session |-> call[t].session, turn |-> t,
                                             role |-> role, at |-> call[t].at])]
  /\ UNCHANGED <<durable, clock, mishap, screen, app, resetting, upsets>>
InsertUser(t) ==
  /\ call[t].pc = "user"
  /\ InsertMessage(t, "user")
  /\ GoTo(t, "agent")
InsertAgent(t) ==
  /\ call[t].pc = "agent"
  /\ InsertMessage(t, "agent")
  /\ GoTo(t, "commit")

\* Mutant of CommitTurn: the commit is forgotten.
ReturnUncommitted(t) ==
  /\ call[t].pc = "commit"
  /\ Reply(t, "answered")
  /\ UNCHANGED <<storeVars, mishap, screen, app, resetting, upsets>>
CommitTurn(t) ==
  /\ call[t].pc = "commit"
  /\ CommitBy(t)
  /\ Reply(t, "answered")
  /\ UNCHANGED <<screen, app, resetting, upsets>>

\* A statement fails: the database is locked by a batch, or the session was
\* deleted meanwhile.
\* Mutant of RecordFails: nothing is rolled back.
RecordFailsOnly(t) ==
  /\ call[t].pc \in Recording \cup {"session"}
  /\ Reply(t, "refused")
  /\ UNCHANGED <<storeVars, mishap, screen, app, resetting, upsets>>
RecordFails(t) ==
  /\ call[t].pc \in Recording \cup {"session"}
  /\ RollbackBy(t)
  /\ Reply(t, "refused")
  /\ UNCHANGED <<screen, app, resetting, upsets>>

\* The API stops: the transaction is gone, and so are its threads.
Restart ==
  /\ Upset
  /\ view' = durable
  /\ call' = [t \in Turns |-> IF call[t].pc \in Served
                              THEN [call[t] EXCEPT !.pc = "refused", !.tries = 0, !.at = 0]
                              ELSE call[t]]
  /\ resetting' = IF resetting = "deleted" THEN "no" ELSE resetting
  /\ UNCHANGED <<durable, clock, mishap, screen, app>>

\* Reset all data, a button of the Settings screen. reset_all() deletes
\* everything, then commits.
AskReset ==
  /\ ~screen.open /\ resetting = "no"
  /\ Upset
  /\ resetting' = "deleted"
  /\ view' = EmptyStore
  /\ Note("erased", {t \in Turns : call[t].pc \notin {"unasked", "refused", "failed"}})
  /\ UNCHANGED <<durable, clock, call, screen, app>>
CommitReset ==
  /\ resetting = "deleted"
  /\ resetting' = "answered"
  /\ CommitBy(0)
  /\ UNCHANGED <<call, screen, app, upsets>>
ResetFails ==
  /\ resetting = "deleted"
  /\ resetting' = "no"
  /\ RollbackBy(0)
  /\ UNCHANGED <<call, screen, app, upsets>>

-----------------------------------------------------------------------------
(* The browser.                                                            *)

\* The window is unmounted; what it has asked goes on without it.
Unmount == call' = [t \in Turns |-> [call[t] EXCEPT !.here = FALSE]]

\* A new chat, a session picked in the sidebar, or back from another screen
\* to the session that App knows: each mounts a new window.
Mount(s) ==
  /\ screen.mount < MaxMounts
  /\ Unmount
  /\ screen' = Mounted(screen.mount + 1, s)
  /\ app' = s
  /\ UNCHANGED <<storeVars, mishap, resetting, upsets>>
NewChat == Mount(NoSession)
SelectSession(s) == s \in view.sessions /\ Mount(s)
OpenChat == ~screen.open /\ Mount(app)

\* Settings or the graph are opened: the window is gone.
LeaveChat ==
  /\ screen.open
  /\ Unmount
  /\ screen' = [Mounted(screen.mount, NoSession) EXCEPT !.open = FALSE]
  /\ UNCHANGED <<storeVars, mishap, app, resetting, upsets>>

\* handleResetAll(): App forgets its session and mounts the chat anew.
TakeReset ==
  /\ resetting = "answered"
  /\ resetting' = "no"
  /\ app' = NoSession
  /\ screen' = IF screen.open THEN Mounted(screen.mount, NoSession) ELSE screen
  /\ Unmount
  /\ UNCHANGED <<storeVars, mishap, upsets>>

\* GET /sessions/{id} is answered with the history, or fails, and setMessages()
\* puts it, or an apology, in the place of whatever is there. The input works
\* while it loads, so a question may be there already.
TakeHistory ==
  /\ screen.open /\ screen.loading
  /\ \E rows \in {Messages(view, screen.session), <<>>} :
       screen' = [screen EXCEPT
                    !.loading = FALSE,
                    !.overwritten = screen.bubbles # <<>>,
                    !.bubbles = [k \in DOMAIN rows |->
                       [turn |-> rows[k].turn, role |-> rows[k].role, status |-> "done"]]]
  /\ UNCHANGED <<storeVars, call, mishap, app, resetting, upsets>>

\* handleSubmit(): one question at a time and window.
Submit(t) ==
  /\ screen.open /\ screen.sending = 0
  /\ call[t].pc = "unasked"
  /\ \A u \in Turns : u < t => call[u].pc # "unasked"
  /\ screen' = [screen EXCEPT
                  !.sending = t,
                  !.bubbles = @ \o <<[turn |-> t, role |-> "user", status |-> "asked"],
                                     [turn |-> t, role |-> "agent", status |-> "pending"]>>]
  /\ call' = [call EXCEPT ![t].pc = "sent", ![t].here = TRUE,
                          ![t].session = screen.session]
  /\ UNCHANGED <<storeVars, mishap, app, resetting, upsets>>

\* The pending bubble of t is found by its id, if it is still there.
\* Mutant of Settled: an error leaves the bubble as it is.
SettledIfDone(t, status) ==
  [k \in DOMAIN screen.bubbles |->
     IF screen.bubbles[k].turn = t /\ screen.bubbles[k].role = "agent" /\ status = "done"
     THEN [screen.bubbles[k] EXCEPT !.status = status] ELSE screen.bubbles[k]]
Settled(t, status) ==
  [k \in DOMAIN screen.bubbles |->
     IF screen.bubbles[k].turn = t /\ screen.bubbles[k].status = "pending"
     THEN [screen.bubbles[k] EXCEPT !.status = status] ELSE screen.bubbles[k]]

\* The answer arrives: the window, if it is still there, takes the session and
\* the text; App takes the session from any window.
TakeAnswer(t) ==
  /\ call[t].pc = "answered"
  /\ call' = [call EXCEPT ![t].pc = "shown"]
  /\ app' = call[t].session
  /\ screen' = IF call[t].here
               THEN [screen EXCEPT !.session = call[t].session, !.sending = 0,
                                   !.bubbles = Settled(t, "done")]
               ELSE screen
  /\ UNCHANGED <<storeVars, mishap, resetting, upsets>>

TakeError(t) ==
  /\ call[t].pc = "refused"
  /\ call' = [call EXCEPT ![t].pc = "failed"]
  /\ screen' = IF call[t].here
               THEN [screen EXCEPT !.sending = 0, !.bubbles = Settled(t, "error")]
               ELSE screen
  /\ UNCHANGED <<storeVars, mishap, app, resetting, upsets>>

-----------------------------------------------------------------------------
Serve(t) ==
  \/ Resolve(t) \/ Condense(t) \/ Answer(t) \/ SearchFails(t)
  \/ InsertSession(t) \/ InsertUser(t) \/ InsertAgent(t)
  \/ CommitTurn(t) \/ RecordFails(t)
Take(t) == TakeAnswer(t) \/ TakeError(t)

Next ==
  \/ \E t \in Turns : Serve(t) \/ Take(t) \/ Submit(t)
  \/ OtherWrites \/ Restart
  \/ AskReset \/ CommitReset \/ ResetFails \/ TakeReset
  \/ TakeHistory
  \/ NewChat \/ (\E s \in Turns : SelectSession(s)) \/ OpenChat \/ LeaveChat

Spec == Init /\ [][Next]_convVars

\* The thread of a question goes on, and after it the browser's callback; the
\* earlier ones are over.
Fairness == \A t \in Turns \ Earlier : WF_convVars(Serve(t) \/ Take(t))
FairSpec == Spec /\ Fairness

-----------------------------------------------------------------------------
(* Properties.                                                             *)

\* record_conversation_turn() stores a question and its answer together, but
\* for what other threads do on its connection meanwhile: only the question
\* is stored when another's commit came between and then it failed; only the
\* answer, when another's rollback undid the question, or a reset deleted it.
TurnsAreWhole ==
  \A t \in Turns :
    /\ Has(durable, t, "user") /\ ~Has(durable, t, "agent") => "cut" \in mishap[t]
    /\ Has(durable, t, "agent") /\ ~Has(durable, t, "user") =>
         mishap[t] \cap {"undone", "erased"} # {}

\* What the user was given as an answer is in the database, through restarts
\* and failures of other requests: only a reset, or another's rollback in the
\* middle of its recording, can take it away.
AnswersAreKept ==
  \A t \in Turns :
    call[t].pc \in {"answered", "shown"} =>
      Whole(durable, t) \/ mishap[t] \cap {"undone", "erased"} # {}

\* A conversation reads as questions, each followed by its answer, whatever the
\* order in which turns of it were inserted. Excused is a turn in whose midst
\* another thread committed, rolled back or reset: of two recorded at once, only
\* the one whose commit comes first is spoken of.
HistoryAlternates ==
  \A s \in view.sessions :
    LET m == Messages(view, s) IN
      \A k \in DOMAIN m :
        m[k].role = "agent" /\ mishap[m[k].turn] = {} =>
          k > 1 /\ m[k - 1].turn = m[k].turn /\ m[k - 1].role = "user"

\* A question that is answered is seen answered in its window, unless the
\* history arrived after it was asked.
AnswersAreSeen ==
  \A t \in Turns :
    call[t].pc \in {"shown", "failed"} /\ call[t].here /\ ~screen.overwritten =>
      \E k \in DOMAIN screen.bubbles :
        /\ screen.bubbles[k].turn = t
        /\ screen.bubbles[k].status = IF call[t].pc = "shown" THEN "done" ELSE "error"

\* No question is under way for ever: it ends in an answer or an error, with bounded retries and
\* whatever happens to the window or the API.
EveryQuestionSettles ==
  \A t \in Turns : []<>(call[t].pc \in {"unasked", "shown", "failed"})
=============================================================================
