--------------------------- MODULE SettingsPanel ---------------------------
(***************************************************************************)
(* The Settings screen (SettingsPanel.jsx) on top of SettingsStore: fields *)
(* that save themselves when they lose focus, the queue that runs these    *)
(* saves one at a time, the questions a save may have to ask, and the data *)
(* reset that follows a save which changes the embedding model.            *)
(*                                                                         *)
(* Every visit to the screen mounts a new panel with its own fields, queue *)
(* and lastSavedRef. Leaving it unmounts the panel: what it shows and the  *)
(* dialog it waits for are gone, its queue runs on. A dialog covers the    *)
(* screen for the mouse but holds no keyboard focus: everything behind it  *)
(* stays in reach.                                                         *)
(***************************************************************************)
EXTENDS SettingsStore, Sequences

CONSTANTS
  MaxPanels,   \* bound: how often the user visits the screen
  MaxEdits,    \* bound: how many fields the user changes
  Readers,     \* server threads other than those that serve the panels
  Choices,     \* Choices[k]: what the user may enter for k
  ModeKeys,    \* provider_mode: its save asks twice, then resets the data
  ModelKeys    \* the embedding models: asks once, resets and re-ingests

Panels == 1..MaxPanels

ASSUME BoundsAssumption == MaxPanels \in Nat /\ MaxEdits \in Nat
ASSUME CallersAssumption == Callers = Panels \cup Readers
                            /\ Panels \cap Readers = {}
ASSUME ChoicesAssumption == Choices \in [Keys -> SUBSET Values]
ASSUME SwitchKeysAssumption == ModeKeys \subseteq ConfigKeys
                               /\ ModelKeys \subseteq ConfigKeys \ ModeKeys

VARIABLES
  view,       \* the screen: "closed", "loading", "open", or "broken" (an error)
  mount,      \* the latest panel
  text,       \* text[k]: what the shown panel displays for k
  focus,      \* the field that has been changed and not yet left, or None
  dialog,     \* whose question is shown: "none", "save" or "button"
  queue,      \* queue[m]: the saves of panel m, the first may be running
  job,        \* job[m]: how far the first save of panel m is
  lastSaved,  \* lastSaved[m]: lastSavedRef of panel m
  unmatched,  \* the stores hold vectors of another model than the stored one
  resetFailed,\* history: some data reset has failed
  refused,    \* history: the keys whose last save failed and is still shown
  edits       \* how many fields the user has changed

panelVars == <<view, mount, text, focus, dialog, queue, job, lastSaved,
               unmatched, resetFailed, refused, edits>>
vars == <<storeVars, panelVars>>

SwitchKeys == ModeKeys \cup ModelKeys
Save == [key : Keys, value : Values]
JobStep == {"idle", "asking", "asking again", "saving", "resetting",
            "finishing"}

Open(m) == view = "open" /\ m = mount
Idle(m) == queue[m] = <<>>

Init ==
  /\ StoreInit
  /\ view = "closed" /\ mount = 0 /\ focus = None /\ dialog = "none"
  /\ text = stored
  /\ queue = [m \in Panels |-> <<>>]
  /\ job = [m \in Panels |-> "idle"]
  /\ lastSaved = [m \in Panels |-> stored]
  /\ unmatched = FALSE /\ resetFailed = FALSE
  /\ refused = {}
  /\ edits = 0

-----------------------------------------------------------------------------
(* The user. *)

\* setView("settings"). A save of an earlier panel that is still to come
\* will not be seen by this one: it strays.
OpenPanel ==
  /\ view = "closed"
  /\ mount < MaxPanels
  /\ mount' = mount + 1
  /\ view' = "loading"
  /\ refused' = {}
  /\ call' = [call EXCEPT ![mount'] = [NoCall EXCEPT !.step = "getting"]]
  /\ Note("stray", \E m \in Panels : ~Idle(m))
  /\ UNCHANGED <<stored, torn, cache, accepted, text, focus, dialog, queue,
                 job, lastSaved, unmatched, resetFailed, edits>>

\* The useEffect that loads all fields. The result sets lastSavedRef even
\* when the user has left, but then nothing reads it.
LoadFields(m) ==
  /\ call[m].step = "answered" /\ call[m].key = None
  /\ lastSaved' = [lastSaved EXCEPT ![m] = call[m].seen]
  /\ IF view = "loading" /\ m = mount
     THEN view' = "open" /\ text' = call[m].seen
     ELSE UNCHANGED <<view, text>>
  /\ EndCall(m)
  /\ UNCHANGED <<stored, torn, cache, accepted, mishaps, mount, focus, dialog,
                 queue, job, unmatched, resetFailed, refused, edits>>

\* One of the requests that load the panel fails: nothing but the error is
\* shown, until the user leaves.
LoadFails(m) ==
  /\ call[m].step = "answered" /\ call[m].key = None
  /\ view' = IF view = "loading" /\ m = mount THEN "broken" ELSE view
  /\ EndCall(m)
  /\ UNCHANGED <<stored, torn, cache, accepted, mishaps, mount, text, focus,
                 dialog, queue, job, lastSaved, unmatched, resetFailed,
                 refused, edits>>

\* The user has asked for the connections to be verified again, and the
\* request fails: from now on the error stands in the place of the panel, its
\* dialog and its fields, a changed one included that has not been left.
ReverifyFails ==
  /\ view = "open"
  /\ view' = "broken" /\ dialog' = "none" /\ focus' = None
  /\ UNCHANGED <<storeVars, mount, text, queue, job, lastSaved, unmatched,
                 resetFailed, refused, edits>>

\* The sidebar's buttons: a click there takes the focus from any field.
LeavePanel ==
  /\ view # "closed"
  /\ focus = None
  /\ view' = "closed" /\ dialog' = "none"
  /\ UNCHANGED <<storeVars, mount, text, focus, queue, job, lastSaved,
                 unmatched, resetFailed, refused, edits>>

\* onChange of a text, textarea or date field.
EditField(k, v) ==
  /\ view = "open"
  /\ focus = None
  /\ edits < MaxEdits
  /\ v # text[k]
  /\ text' = [text EXCEPT ![k] = v]
  /\ focus' = k
  /\ edits' = edits + 1
  /\ UNCHANGED <<storeVars, view, mount, dialog, queue, job, lastSaved,
                 unmatched, resetFailed, refused>>

\* enqueueSave(): the job waits until all earlier ones have settled.
Enqueue(m, k, v) ==
  queue' = [queue EXCEPT ![m] = Append(@, [key |-> k, value |-> v])]

\* onBlur saves what the field shows at that moment.
BlurField ==
  /\ view = "open" /\ focus # None
  /\ Enqueue(mount, focus, text[focus])
  /\ focus' = None
  /\ UNCHANGED <<storeVars, view, mount, text, dialog, job, lastSaved,
                 unmatched, resetFailed, refused, edits>>

\* onChange of the provider mode's radio buttons.
PickMode(k, v) ==
  /\ view = "open"
  /\ focus = None
  /\ edits < MaxEdits
  /\ v # text[k]
  /\ text' = [text EXCEPT ![k] = v]
  /\ Enqueue(mount, k, v)
  /\ edits' = edits + 1
  /\ UNCHANGED <<storeVars, view, mount, focus, dialog, job, lastSaved,
                 unmatched, resetFailed, refused>>

-----------------------------------------------------------------------------
(* The queue: one save after the other. *)

Head1(m) == queue[m][1]

\* The save of m has settled, and the next one may start.
Settle(m) ==
  /\ queue' = [queue EXCEPT ![m] = Tail(@)]
  /\ job' = [job EXCEPT ![m] = "idle"]

Proceed(m, step) == job' = [job EXCEPT ![m] = step] /\ UNCHANGED queue

Waiting(m) == job[m] = "idle" /\ ~Idle(m)
Unchanged(m) == lastSaved[m][Head1(m).key] = Head1(m).value

\* "No real change": the save ends before it begins.
SkipSave(m) ==
  /\ Waiting(m)
  /\ Unchanged(m)
  /\ Settle(m)
  /\ UNCHANGED <<storeVars, view, mount, text, focus, dialog, lastSaved,
                 unmatched, resetFailed, refused, edits>>

StartSave(m) ==
  /\ Waiting(m)
  /\ ~Unchanged(m)
  /\ Head1(m).key \notin SwitchKeys
  /\ SendPut(m, Head1(m).key, Head1(m).value)
  /\ Proceed(m, "saving")
  /\ UNCHANGED <<view, mount, text, focus, dialog, lastSaved, unmatched,
                 resetFailed, refused, edits>>

\* confirm(): a later question takes the place of an earlier one, whose
\* promise then never settles; nor does it when no panel renders the dialog.
AskSave(m) ==
  /\ Waiting(m)
  /\ ~Unchanged(m)
  /\ Head1(m).key \in SwitchKeys
  /\ Proceed(m, "asking")
  /\ dialog' = IF Open(m) THEN "save" ELSE dialog
  /\ UNCHANGED <<storeVars, view, mount, text, focus, lastSaved, unmatched,
                 resetFailed, refused, edits>>

AskedSave == dialog = "save" /\ mount \in Panels

\* The user confirms the first of the two questions about the mode.
ConfirmOnce ==
  /\ AskedSave
  /\ job[mount] = "asking" /\ Head1(mount).key \in ModeKeys
  /\ Proceed(mount, "asking again")
  /\ UNCHANGED <<storeVars, view, mount, text, focus, dialog, lastSaved,
                 unmatched, resetFailed, refused, edits>>

\* The user confirms the last question.
ConfirmSave ==
  /\ AskedSave
  /\ job[mount] = IF Head1(mount).key \in ModeKeys THEN "asking again"
                                                   ELSE "asking"
  /\ SendPut(mount, Head1(mount).key, Head1(mount).value)
  /\ Proceed(mount, "saving")
  /\ dialog' = "none"
  /\ UNCHANGED <<view, mount, text, focus, lastSaved, unmatched, resetFailed,
                 refused, edits>>

\* Mutant of DeclineSave: declining leaves the unsaved choice in the field.
DeclineSaveKeepsText ==
  /\ AskedSave
  /\ refused' = refused \ {Head1(mount).key}
  /\ dialog' = "none"
  /\ Settle(mount)
  /\ UNCHANGED <<storeVars, view, mount, text, focus, lastSaved, unmatched,
                 resetFailed, edits>>

\* The user declines, and the field shows its last saved value again.
DeclineSave ==
  /\ AskedSave
  /\ LET k == Head1(mount).key IN
     /\ text' = [text EXCEPT ![k] = lastSaved[mount][k]]
     /\ refused' = refused \ {k}
  /\ dialog' = "none"
  /\ Settle(mount)
  /\ UNCHANGED <<storeVars, view, mount, focus, lastSaved, unmatched, resetFailed, edits>>

\* What the panel takes from the answer to a PUT of k: PUT /settings answers
\* with every key of config.yaml, and all are shown; of PUT /settings/sources
\* only the saved key is.
Taken(k) == IF k \in ConfigKeys THEN ConfigKeys ELSE {k}

\* Mutant of AfterPut: an unmounted panel does nothing more.
AfterPutIfMounted(m, k) ==
  IF k \in SwitchKeys /\ Open(m) THEN Proceed(m, "resetting") ELSE Settle(m)

AfterPut(m, k) ==
  IF k \in SwitchKeys THEN Proceed(m, "resetting") ELSE Settle(m)

TakeAnswer(m) ==
  /\ job[m] = "saving" /\ call[m].step = "answered"
  /\ LET k == call[m].key
         Update(settings) == [j \in Keys |-> IF j \in Taken(k)
                                             THEN call[m].seen[j]
                                             ELSE settings[j]]
     IN /\ lastSaved' = [lastSaved EXCEPT ![m] = Update(@)]
        /\ IF Open(m) THEN text' = Update(text) /\ refused' = refused \ Taken(k)
                      ELSE UNCHANGED <<text, refused>>
        /\ AfterPut(m, k)
  /\ EndCall(m)
  /\ UNCHANGED <<stored, torn, cache, accepted, mishaps, view, mount, focus,
                 dialog, unmatched, resetFailed, edits>>

\* Mutant of TakeFailure: a save that fails never settles, and no later one starts.
TakeFailureStuck(m) ==
  /\ job[m] = "saving" /\ call[m].step = "failed"
  /\ refused' = IF Open(m) THEN refused \cup {call[m].key} ELSE refused
  /\ UNCHANGED <<queue, job>>
  /\ EndCall(m)
  /\ UNCHANGED <<stored, torn, cache, accepted, mishaps, view, mount, text,
                 focus, dialog, lastSaved, unmatched, resetFailed, edits>>

\* The field keeps what could not be saved.
TakeFailure(m) ==
  /\ job[m] = "saving" /\ call[m].step = "failed"
  /\ refused' = IF Open(m) THEN refused \cup {call[m].key} ELSE refused
  /\ Settle(m)
  /\ EndCall(m)
  /\ UNCHANGED <<stored, torn, cache, accepted, mishaps, view, mount, text,
                 focus, dialog, lastSaved, unmatched, resetFailed,
                 edits>>

\* onResetAll(): POST /admin/reset, within a save or on its own.
ResetData ==
  unmatched' = FALSE /\ UNCHANGED resetFailed

ResetFails ==
  resetFailed' = TRUE /\ UNCHANGED unmatched

\* saveEmbeddingModel() and saveProviderMode() after their PUT. A failed
\* reset ends the save with an error; nothing tries it again.
ResetForSave(m) ==
  /\ job[m] = "resetting"
  /\ \/ ResetData /\ Proceed(m, "finishing")
     \/ ResetFails /\ Settle(m)
  /\ UNCHANGED <<storeVars, view, mount, text, focus, dialog, lastSaved,
                 refused, edits>>

\* onTriggerIngestion() for a new embedding model, and the refreshed cards.
FinishSave(m) ==
  /\ job[m] = "finishing"
  /\ Settle(m)
  /\ UNCHANGED <<storeVars, view, mount, text, focus, dialog, lastSaved,
                 unmatched, resetFailed, refused, edits>>

\* The buttons "Reset all data" and "Stop ingestion". Their question takes
\* the place of the one that is shown, and that one is never answered.
AskButton ==
  /\ view = "open" /\ focus = None
  /\ dialog' = "button"
  /\ UNCHANGED <<storeVars, view, mount, text, focus, queue, job, lastSaved,
                 unmatched, resetFailed, refused, edits>>

\* The user declines, or confirms and the request succeeds or fails; only
\* that of "Reset all data" touches the stores.
AnswerButton ==
  /\ dialog = "button"
  /\ dialog' = "none"
  /\ ResetData \/ ResetFails \/ UNCHANGED <<unmatched, resetFailed>>
  /\ UNCHANGED <<storeVars, view, mount, text, focus, queue, job, lastSaved,
                 refused, edits>>

-----------------------------------------------------------------------------
(* The server. *)

\* A write that changes the embedding model in use strands every vector.
Serve(c) ==
  /\ ServerStep(c)
  /\ unmatched' = (unmatched \/ \E k \in SwitchKeys : stored'[k] # stored[k])
  /\ UNCHANGED <<view, mount, text, focus, dialog, queue, job, lastSaved,
                 resetFailed, refused, edits>>

Reader(r) ==
  /\ ReaderMisses(r) \/ ReaderFills(r)
  /\ UNCHANGED panelVars

\* What happens by itself in panel m once something is queued.
QueueStep(m) ==
  SkipSave(m) \/ StartSave(m) \/ AskSave(m) \/ TakeAnswer(m)
    \/ TakeFailure(m) \/ ResetForSave(m) \/ FinishSave(m)

UserAnswers == ConfirmOnce \/ ConfirmSave \/ DeclineSave \/ AnswerButton

\* A panel's queue and its one call take turns: never are both enabled.
Runs(m) == LoadFields(m) \/ LoadFails(m) \/ QueueStep(m) \/ Serve(m)

Next ==
  \/ OpenPanel
  \/ LeavePanel
  \/ \E k \in Keys \ ModeKeys : \E v \in Choices[k] : EditField(k, v)
  \/ BlurField
  \/ \E k \in ModeKeys : \E v \in Choices[k] : PickMode(k, v)
  \/ ReverifyFails
  \/ AskButton
  \/ UserAnswers
  \/ \E m \in Panels : Runs(m)
  \/ \E r \in Readers : Reader(r)

Spec == Init /\ [][Next]_vars

\* The server answers, the browser runs what it can run, and a user who is
\* shown a question answers it.
Fairness == (\A m \in Panels : WF_vars(Runs(m))) /\ WF_vars(UserAnswers)

FairSpec == Spec /\ Fairness

-----------------------------------------------------------------------------
(* Properties. *)

\* The types of all variables.
TypeOK ==
  /\ stored \in Config /\ accepted \in Config
  /\ torn \in BOOLEAN
  /\ cache \in Config \cup {None}
  /\ call \in [Callers -> Call]
  /\ mishaps \subseteq {"clash", "race", "stray"}
  /\ view \in {"closed", "loading", "open", "broken"}
  /\ mount \in 0..MaxPanels
  /\ text \in Config
  /\ focus \in Keys \cup {None}
  /\ dialog \in {"none", "save", "button"}
  /\ queue \in [Panels -> Seq(Save)]
  /\ job \in [Panels -> JobStep]
  /\ lastSaved \in [Panels -> Config]
  /\ unmatched \in BOOLEAN /\ resetFailed \in BOOLEAN
  /\ refused \subseteq Keys
  /\ edits \in 0..MaxEdits

\* No update is lost: unless two PUTs of the same file were under way
\* together, each key holds the value of its last successful write, whatever
\* was saved to the other keys and the other file meanwhile
\* (update_llm_config() and set_key() write back all they read).
SavesAreKept == "clash" \notin mishaps => stored = accepted

\* Once no PUT is under way, every later reader of get_settings() gets what
\* the files hold, unless a load was under way during a write.
CacheIsFresh ==
  "race" \notin mishaps /\ (\A c \in Callers : ~Putting(c))
    => cache \in {None, stored}

\* A panel whose saves have all settled shows what the files hold, except
\* for the field being edited and the ones whose save just failed; and it
\* knows what they hold, so that the next change of a field is noticed. A
\* save of an earlier panel or a stale cache may spoil this, nothing else.
PanelShowsTheFile ==
  \A m \in Panels :
    mishaps = {} /\ Open(m) /\ Idle(m) =>
      /\ lastSaved[m] = stored
      /\ \A k \in Keys \ (refused \cup {focus}) : text[k] = stored[k]

\* The first save of m waits for the answer to its question, and nobody sees
\* the question: the user has left the panel, an error has taken its place, or
\* the question of a button has that of the save.
Asking(m) == job[m] \in {"asking", "asking again"}
Unanswered(m) == Asking(m) /\ ~(Open(m) /\ dialog = "save")

\* Whatever is queued in a panel, shown or left, comes to an end, that is, the
\* queue is empty time and again. No failure of the server or of the panel stops
\* it; what holds it up for ever is only a question that is not on the screen.
EverySaveSettles ==
  \A m \in Panels : []<>(Idle(m) \/ Unanswered(m))

\* A change of the embedding model is followed by the reset of the data it
\* strands, also when the user has left the screen: no such data stays for
\* ever, unless a reset fails or a clash of two PUTs takes the change back after
\* its reset.
SwitchIsFollowedByReset ==
  []<>(~unmatched \/ resetFailed \/ "clash" \in mishaps)

\* DECISIONS.md of the queue: "This guarantees at most one PUT is in flight
\* at a time".
OnePutAtATime == \A c, d \in Callers : Putting(c) /\ Putting(d) => c = d
=============================================================================
