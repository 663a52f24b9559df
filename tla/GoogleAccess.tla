---------------------------- MODULE GoogleAccess ----------------------------
(***************************************************************************)
(* Access to Gmail and Calendar: the wizard's Connect button and polling,  *)
(* the flows that wait for Google's callback, the token file, and those    *)
(* who load, refresh and rewrite it: the connection checks in the API and  *)
(* the extractors in a batch.                                              *)
(*                                                                         *)
(* A grant has the number of the attempt that obtained it. Whether an      *)
(* access token has expired by now is chosen freely. write_text() empties  *)
(* the file and then fills it.                                             *)
(***************************************************************************)
EXTENDS Naturals, FiniteSets

CONSTANTS
  Attempts,    \* calls of start_authorization(), numbered
  Callbacks,   \* requests of Google's redirect, each made at most once
  ApiLoaders,  \* threads of the API that load the credentials
  BatchLoaders, \* the extractors of a batch, a process of its own
  MaxPolls     \* the last attempt of pollGoogleStatus()

Assumptions ==
  /\ Attempts \subseteq Nat \ {0} /\ IsFiniteSet(Attempts)
  /\ ApiLoaders \cap BatchLoaders = {}
  /\ Callbacks \cap (ApiLoaders \cup BatchLoaders) = {}
  /\ MaxPolls \in Nat

VARIABLES
  flows,    \* _pending_flows: the attempts that wait
  used,     \* the attempts that were begun
  callback, \* callback[c]: a GET of the callback route
  token,    \* google_oauth_token.json: the state of the file and its grant
  loader,   \* loader[l]: a load_credentials()
  wizard,   \* the wizard's Google step
  newest,   \* history: the last grant obtained
  lapses    \* history: what may have cost that grant since

oauthVars == <<flows, used, callback, token, loader, wizard, newest, lapses>>

Loaders == ApiLoaders \cup BatchLoaders
NoGrant == 0
Grants == Attempts \cup {NoGrant}
File == [state : {"none", "empty", "whole"}, grant : Grants]
Wizard == [connecting : BOOLEAN, connected : BOOLEAN, popup : {"none", "open", "closed"},
           polling : BOOLEAN, attempt : 0..MaxPolls]

TypeOK ==
  /\ flows \subseteq used /\ used \subseteq Attempts
  /\ callback \in [Callbacks -> [pc : {"unsent", "sent", "exchanging", "opening", "writing",
                                       "ended"},
                                 attempt : Grants]]
  /\ token \in File
  /\ loader \in [Loaders -> [pc : {"idle", "reading", "refreshing", "opening", "writing"},
                             grant : Grants]]
  /\ wizard \in Wizard
  /\ newest \in Grants
  /\ lapses \in SUBSET {"raced", "crashed"}

Init ==
  /\ flows = {} /\ used = {}
  /\ callback = [c \in Callbacks |-> [pc |-> "unsent", attempt |-> NoGrant]]
  /\ token = [state |-> "none", grant |-> NoGrant]
  /\ loader = [l \in Loaders |-> [pc |-> "idle", grant |-> NoGrant]]
  /\ wizard = [connecting |-> FALSE, connected |-> FALSE, popup |-> "none",
               polling |-> FALSE, attempt |-> 0]
  /\ newest = NoGrant
  /\ lapses = {}

\* Who has a token to write, and who of them is lost with its process: a new
\* grant, or a file that is empty by now.
Writing == {c \in Callbacks : callback[c].pc \in {"opening", "writing"}} \cup
           {l \in Loaders : loader[l].pc \in {"refreshing", "opening", "writing"}}
Unsaved == {c \in Callbacks : callback[c].pc \in {"opening", "writing"}} \cup
           {l \in Loaders : loader[l].pc = "writing"}
Note(what, bad) == lapses' = IF bad THEN lapses \cup {what} ELSE lapses

-----------------------------------------------------------------------------
(* The API: start_authorization(), the callback route, is_connected().     *)

\* handleConnectGoogle(): the button is there while nothing is connected. A
\* refused start changes nothing; the popup may be blocked.
Connect(a) ==
  /\ ~wizard.connecting /\ ~wizard.connected
  /\ used = {b \in Attempts : b < a}
  /\ used' = used \cup {a}
  /\ flows' = flows \cup {a}
  /\ \E popup \in {"open", "none"} :
       wizard' = [wizard EXCEPT !.connecting = TRUE, !.popup = popup,
                                !.polling = TRUE, !.attempt = 0]
  /\ UNCHANGED <<callback, token, loader, newest, lapses>>

\* Google sends the browser back: once it has consent, and again when the page
\* is loaded anew.
Redirect(c, a) ==
  /\ callback[c].pc = "unsent" /\ a \in used
  /\ callback' = [callback EXCEPT ![c] = [pc |-> "sent", attempt |-> a]]
  /\ UNCHANGED <<flows, used, token, loader, wizard, newest, lapses>>

CallbackTo(c, pc) == callback' = [callback EXCEPT ![c].pc = pc]

\* complete_authorization(): the flow is taken out, by one callback at most.
PopFlow(c) ==
  /\ callback[c].pc = "sent"
  /\ flows' = flows \ {callback[c].attempt}
  /\ CallbackTo(c, IF callback[c].attempt \in flows THEN "exchanging" ELSE "ended")
  /\ UNCHANGED <<used, token, loader, wizard, newest, lapses>>

\* fetch_token(): refused, or a new grant.
Exchange(c) ==
  /\ callback[c].pc = "exchanging"
  /\ \/ CallbackTo(c, "ended") /\ UNCHANGED <<newest, lapses>>
     \/ /\ CallbackTo(c, "opening")
        /\ newest' = callback[c].attempt
        /\ Note("raced", Writing # {})
  /\ UNCHANGED <<flows, used, token, loader, wizard>>

Empty == token' = [state |-> "empty", grant |-> NoGrant]
Fill(grant) == token' = [state |-> "whole", grant |-> grant]

OpenFile(c) ==
  /\ callback[c].pc = "opening"
  /\ CallbackTo(c, "writing")
  /\ Empty
  /\ UNCHANGED <<flows, used, loader, wizard, newest, lapses>>

\* The history starts anew with a grant that is written undisturbed.
WriteToken(c) ==
  /\ callback[c].pc = "writing"
  /\ CallbackTo(c, "ended")
  /\ Fill(callback[c].attempt)
  /\ lapses' = IF Writing = {c} /\ newest = callback[c].attempt THEN {} ELSE lapses
  /\ UNCHANGED <<flows, used, loader, wizard, newest>>

\* The API stops: its flows and threads are gone, wherever they were.
Restart ==
  /\ flows' = {}
  /\ callback' = [c \in Callbacks |-> IF callback[c].pc = "unsent" THEN callback[c]
                                      ELSE [callback[c] EXCEPT !.pc = "ended"]]
  /\ loader' = [l \in Loaders |-> IF l \in ApiLoaders
                                  THEN [pc |-> "idle", grant |-> NoGrant] ELSE loader[l]]
  /\ Note("crashed", Unsaved \ BatchLoaders # {})
  /\ UNCHANGED <<used, token, wizard, newest>>

-----------------------------------------------------------------------------
(* load_credentials().                                                     *)

LoaderTo(l, pc, grant) == loader' = [loader EXCEPT ![l] = [pc |-> pc, grant |-> grant]]

\* Without a file, the older token of the one service is used instead.
FindFile(l) ==
  /\ loader[l].pc = "idle" /\ token.state # "none"
  /\ LoaderTo(l, "reading", NoGrant)
  /\ UNCHANGED <<flows, used, callback, token, wizard, newest, lapses>>

\* An empty file is no JSON. A valid token is used as it is.
ReadFile(l) ==
  /\ loader[l].pc = "reading"
  /\ \/ LoaderTo(l, "idle", NoGrant) /\ UNCHANGED lapses
     \/ /\ token.state = "whole"
        /\ LoaderTo(l, "refreshing", token.grant)
        /\ Note("raced", Writing \cap Callbacks # {})
  /\ UNCHANGED <<flows, used, callback, token, wizard, newest>>

\* Mutant of Refresh: a token that cannot be refreshed is deleted.
RefreshOrForget(l) ==
  /\ loader[l].pc = "refreshing"
  /\ \/ /\ LoaderTo(l, "idle", NoGrant)
        /\ token' = [state |-> "none", grant |-> NoGrant]
     \/ /\ LoaderTo(l, "opening", loader[l].grant)
        /\ UNCHANGED token
  /\ UNCHANGED <<flows, used, callback, wizard, newest, lapses>>
Refresh(l) ==
  /\ loader[l].pc = "refreshing"
  /\ \/ LoaderTo(l, "idle", NoGrant)
     \/ LoaderTo(l, "opening", loader[l].grant)
  /\ UNCHANGED <<flows, used, callback, token, wizard, newest, lapses>>

Reopen(l) ==
  /\ loader[l].pc = "opening"
  /\ LoaderTo(l, "writing", loader[l].grant)
  /\ Empty
  /\ UNCHANGED <<flows, used, callback, wizard, newest, lapses>>

Rewrite(l) ==
  /\ loader[l].pc = "writing"
  /\ LoaderTo(l, "idle", NoGrant)
  /\ Fill(loader[l].grant)
  /\ UNCHANGED <<flows, used, callback, wizard, newest, lapses>>

\* The batch is stopped by force, or dies.
Killed ==
  /\ \E l \in BatchLoaders : loader[l].pc # "idle"
  /\ loader' = [l \in Loaders |-> IF l \in BatchLoaders
                                  THEN [pc |-> "idle", grant |-> NoGrant] ELSE loader[l]]
  /\ Note("crashed", Unsaved \cap BatchLoaders # {})
  /\ UNCHANGED <<flows, used, callback, token, wizard, newest>>

-----------------------------------------------------------------------------
(* The wizard.                                                             *)

ClosePopup ==
  /\ wizard.popup = "open"
  /\ wizard' = [wizard EXCEPT !.popup = "closed"]
  /\ UNCHANGED <<flows, used, callback, token, loader, newest, lapses>>

Ended == [wizard EXCEPT !.polling = FALSE, !.connecting = FALSE]
Again == [wizard EXCEPT !.attempt = @ + 1]

\* pollGoogleStatus(): is_connected() asks only whether there is a file.
Poll ==
  /\ wizard.polling
  /\ wizard' =
       IF token.state # "none" THEN [Ended EXCEPT !.connected = TRUE, !.popup = "closed"]
       ELSE IF wizard.popup = "closed" \/ wizard.attempt = MaxPolls THEN Ended
       ELSE Again
  /\ UNCHANGED <<flows, used, callback, token, loader, newest, lapses>>

\* The status is not answered. After the last attempt, the polling ends and the
\* wizard goes on waiting.
\* Mutant of PollFails: the count starts anew.
PollFailsAnew ==
  /\ wizard.polling
  /\ wizard' = [wizard EXCEPT !.attempt = 0]
  /\ UNCHANGED <<flows, used, callback, token, loader, newest, lapses>>
PollFails ==
  /\ wizard.polling
  /\ wizard' = IF wizard.attempt < MaxPolls THEN Again
               ELSE [wizard EXCEPT !.polling = FALSE]
  /\ UNCHANGED <<flows, used, callback, token, loader, newest, lapses>>

-----------------------------------------------------------------------------
Load(l) == FindFile(l) \/ ReadFile(l) \/ Refresh(l) \/ Reopen(l) \/ Rewrite(l)
Complete(c) == PopFlow(c) \/ Exchange(c) \/ OpenFile(c) \/ WriteToken(c)
Next ==
  \/ \E a \in Attempts : Connect(a) \/ (\E c \in Callbacks : Redirect(c, a))
  \/ \E c \in Callbacks : Complete(c)
  \/ \E l \in Loaders : Load(l)
  \/ ClosePopup \/ Poll \/ PollFails \/ Restart \/ Killed

Spec == Init /\ [][Next]_oauthVars
\* The browser's timer runs and its request ends, one way or the other.
Fairness == WF_oauthVars(Poll \/ PollFails)

-----------------------------------------------------------------------------
(* Properties.                                                             *)

\* Once nobody writes, the token file is whole and has the newest grant, through
\* repeated and late callbacks and refreshes: unless another wrote while that
\* grant was obtained, refreshed or written, or a process ended in the middle.
NewestGrantIsKept ==
  Writing = {} /\ lapses = {} =>
    token = [state |-> IF newest = NoGrant THEN "none" ELSE "whole", grant |-> newest]

\* The wizard does not wait forever: it is connected, or says that it gave up,
\* but for the case that the very last status request fails.
ConnectingEnds ==
  []<>(wizard.connecting => ~wizard.polling /\ wizard.attempt = MaxPolls)
=============================================================================
