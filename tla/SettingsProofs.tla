--------------------------- MODULE SettingsProofs ---------------------------
(***************************************************************************)
(* Proofs about SettingsPanel over SettingsStore, for any number of        *)
(* panels, other readers, keys and values.                                 *)
(***************************************************************************)
EXTENDS SettingsPanel, TLAPS

-----------------------------------------------------------------------------
(* The types of the store.                                                 *)

StoreType ==
  /\ stored \in Config /\ accepted \in Config
  /\ torn \in BOOLEAN
  /\ cache \in Config \cup {None}
  /\ call \in [Callers -> Call]
  /\ mishaps \subseteq {"clash", "race", "stray"}
  /\ \A c \in Callers :
       call[c].step \in {"sent", "read", "truncated", "written", "failed"}
         => call[c].key \in Keys

\* A caller that waits for nothing has a well-formed call.
LEMMA NoCallTyped == NoCall \in Call /\ NoCall.step = "idle" /\ NoCall.key = None
BY ValuesAssumption DEF NoCall, Call, Config

\* A load of the files yields a configuration.
LEMMA LoadedTyped == ASSUME StoreType PROVE Loaded \in Config
BY ValuesAssumption DEF StoreType, Loaded, Config

\* What a write leaves in the files is a configuration.
LEMMA WrittenBackTyped ==
  ASSUME StoreType, NEW c \in Callers
  PROVE  WrittenBack(call[c]) \in Config
<1>1. call[c].value \in Values /\ call[c].seen \in Config
  BY DEF StoreType, Call
<1>2. \A v \in Values : Canonical[v] \in Values
  BY CanonicalAssumption
<1> QED
  BY <1>1, <1>2 DEF StoreType, WrittenBack, Config

\* The steps of the store as the panels and the other readers use it.
Starts(c) ==
  /\ call' = [call EXCEPT ![c] = [NoCall EXCEPT !.step = "getting"]]
  /\ mishaps' \in {mishaps, mishaps \cup {"stray"}}
  /\ UNCHANGED <<stored, torn, cache, accepted>>

Ends(c) ==
  /\ call[c].step \in {"answered", "failed"}
  /\ EndCall(c)
  /\ UNCHANGED <<stored, torn, cache, accepted, mishaps>>

StoreStep(c) ==
  \/ Starts(c) /\ ~InFlight(c)
  \/ Ends(c)
  \/ \E k \in Keys, v \in Values : SendPut(c, k, v)
  \/ ServerStep(c)
  \/ ReaderMisses(c)
  \/ ReaderFills(c)

\* The calls stay well-formed when one of them becomes p.
LEMMA OneCall ==
  ASSUME StoreType, NEW c \in Callers, NEW p \in Call,
         call' = [call EXCEPT ![c] = p],
         p.step \in {"sent", "read", "truncated", "written", "failed"}
           => p.key \in Keys
  PROVE  /\ call' \in [Callers -> Call]
         /\ \A d \in Callers :
              call'[d].step \in {"sent", "read", "truncated", "written", "failed"}
                => call'[d].key \in Keys
BY DEF StoreType

\* Each step of the store leaves it well-typed.
LEMMA StoreStepTyped ==
  ASSUME StoreType, NEW c \in Callers, StoreStep(c)
  PROVE  StoreType'
<1>0. call[c] \in Call /\ call[c].key \in Keys \cup {None} /\ stored \in Config
  BY DEF StoreType, Call
<1>1. CASE Starts(c)
  <2>1. [NoCall EXCEPT !.step = "getting"] \in Call
    BY NoCallTyped DEF Call
  <2> QED
    BY <1>1, <2>1, NoCallTyped, OneCall DEF Starts, StoreType
<1>2. CASE Ends(c)
  BY <1>2, NoCallTyped, OneCall DEF Ends, EndCall, StoreType
<1>3. ASSUME NEW k \in Keys, NEW v \in Values, SendPut(c, k, v)
      PROVE  StoreType'
  <2> DEFINE p == [NoCall EXCEPT !.step = "sent", !.key = k, !.value = v]
  <2>1. p \in Call /\ p.step = "sent" /\ p.key = k
    BY NoCallTyped DEF Call, NoCall
  <2>2. call' = [call EXCEPT ![c] = p]
    BY <1>3 DEF SendPut
  <2> HIDE DEF p
  <2>3. mishaps' \subseteq {"clash", "race", "stray"}
    BY <1>3 DEF SendPut, Note, StoreType
  <2> QED
    BY <1>3, <2>1, <2>2, <2>3, OneCall DEF SendPut, StoreType
<1>4. CASE ReadFile(c)
  <2>1. call[c].key \in Keys
    BY <1>4 DEF ReadFile, StoreType
  <2>2. CASE torn /\ call[c].key \in ConfigKeys
    <3> DEFINE p == [call[c] EXCEPT !.step = "failed"]
    <3>1. p \in Call /\ p.key = call[c].key
      BY <1>0 DEF Call
    <3>2. call' = [call EXCEPT ![c] = p]
      BY <1>4, <2>2 DEF ReadFile, Advance
    <3> HIDE DEF p
    <3> QED
      BY <1>4, <2>1, <3>1, <3>2, OneCall DEF ReadFile, StoreType
  <2>3. CASE ~(torn /\ call[c].key \in ConfigKeys)
    <3> DEFINE p == [call[c] EXCEPT !.step = "read", !.seen = stored]
    <3>1. p \in Call /\ p.key = call[c].key
      BY <1>0 DEF Call
    <3>2. call' = [call EXCEPT ![c] = p]
      BY <1>4, <2>3 DEF ReadFile
    <3> HIDE DEF p
    <3> QED
      BY <1>4, <2>1, <3>1, <3>2, OneCall DEF ReadFile, StoreType
  <2> QED
    BY <2>2, <2>3
<1>5. CASE WriteDenied(c)
  <2> DEFINE p == [call[c] EXCEPT !.step = "failed"]
  <2>1. p \in Call /\ p.key = call[c].key
    BY <1>0 DEF Call
  <2>2. call[c].key \in Keys /\ call' = [call EXCEPT ![c] = p]
    BY <1>5 DEF WriteDenied, Advance, StoreType
  <2> HIDE DEF p
  <2> QED
    BY <1>5, <2>1, <2>2, OneCall DEF WriteDenied, StoreType
<1>6. CASE Truncate(c)
  <2> DEFINE p == [call[c] EXCEPT !.step = "truncated"]
  <2>1. p \in Call /\ p.key = call[c].key
    BY <1>0 DEF Call
  <2>2. call[c].key \in Keys /\ call' = [call EXCEPT ![c] = p]
    BY <1>6 DEF Truncate, Advance, StoreType
  <2> HIDE DEF p
  <2> QED
    BY <1>6, <2>1, <2>2, OneCall DEF Truncate, StoreType
<1>7. CASE WriteFile(c)
  <2>1. call[c].key \in Keys
    BY <1>7 DEF WriteFile, StoreType
  <2> DEFINE p == [NoCall EXCEPT !.step = "written", !.key = call[c].key]
  <2>2. p \in Call /\ p.key = call[c].key
    BY <2>1, NoCallTyped DEF Call
  <2>3. call' = [call EXCEPT ![c] = p]
    BY <1>7 DEF WriteFile
  <2> HIDE DEF p
  <2>4. stored' \in Config
    BY <1>7, WrittenBackTyped DEF WriteFile
  <2>5. accepted' \in Config
    BY <1>7, <2>1, <2>4 DEF WriteFile, StoreType, Config
  <2>6. mishaps' \subseteq {"clash", "race", "stray"} /\ torn' \in BOOLEAN
    BY <1>7 DEF WriteFile, Note, StoreType
  <2> QED
    BY <1>7, <2>1, <2>2, <2>3, <2>4, <2>5, <2>6, OneCall DEF WriteFile, StoreType
<1>8. CASE ClearCache(c)
  <2> DEFINE p == [call[c] EXCEPT !.step = "getting"]
  <2>1. p \in Call /\ p.step = "getting"
    BY <1>0 DEF Call
  <2>2. call' = [call EXCEPT ![c] = p]
    BY <1>8 DEF ClearCache, Advance
  <2> HIDE DEF p
  <2> QED
    BY <1>8, <2>1, <2>2, OneCall DEF ClearCache, StoreType
<1>9. CASE CacheHit(c)
  <2>0. cache \in Config
    BY <1>9 DEF CacheHit, StoreType
  <2> DEFINE p == [call[c] EXCEPT !.step = "answered", !.seen = cache]
  <2>1. p \in Call /\ p.step = "answered"
    BY <1>0, <2>0 DEF Call
  <2>2. call' = [call EXCEPT ![c] = p]
    BY <1>9 DEF CacheHit
  <2> HIDE DEF p
  <2> QED
    BY <1>9, <2>1, <2>2, OneCall DEF CacheHit, StoreType
<1>10. CASE CacheMiss(c)
  <2>0. Loaded \in Config
    BY <1>10, LoadedTyped DEF CacheMiss, StoreType
  <2> DEFINE p == [call[c] EXCEPT !.step = "loading", !.seen = Loaded]
  <2>1. p \in Call /\ p.step = "loading"
    BY <1>0, <2>0 DEF Call
  <2>2. call' = [call EXCEPT ![c] = p]
    BY <1>10 DEF CacheMiss
  <2> HIDE DEF p
  <2> QED
    BY <1>10, <2>1, <2>2, OneCall DEF CacheMiss, StoreType
<1>11. CASE FillCache(c)
  <2> DEFINE p == [call[c] EXCEPT !.step = "answered"]
  <2>1. p \in Call /\ p.step = "answered"
    BY <1>0 DEF Call
  <2>2. call' = [call EXCEPT ![c] = p]
    BY <1>11 DEF FillCache, Advance
  <2>3. call[c].seen \in Config
    BY <1>0 DEF Call
  <2> HIDE DEF p
  <2> QED
    BY <1>11, <2>1, <2>2, <2>3, OneCall DEF FillCache, StoreType
<1>12. CASE ReaderMisses(c)
  <2> DEFINE p == [NoCall EXCEPT !.step = "loading", !.seen = Loaded]
  <2>1. p \in Call /\ p.step = "loading"
    BY LoadedTyped, NoCallTyped DEF Call
  <2>2. call' = [call EXCEPT ![c] = p]
    BY <1>12 DEF ReaderMisses
  <2> HIDE DEF p
  <2> QED
    BY <1>12, <2>1, <2>2, OneCall DEF ReaderMisses, StoreType
<1>13. CASE ReaderFills(c)
  <2>1. call[c].seen \in Config
    BY <1>0 DEF Call
  <2> QED
    BY <1>13, <2>1, NoCallTyped, OneCall DEF ReaderFills, StoreType
<1> QED
  BY <1>1, <1>2, <1>3, <1>4, <1>5, <1>6, <1>7, <1>8, <1>9, <1>10, <1>11,
     <1>12, <1>13
     DEF StoreStep, ServerStep

-----------------------------------------------------------------------------
(* No update is lost.                                                      *)

\* Without a clash, each file has one writer at most ...
OneWriter ==
  "clash" \notin mishaps =>
    \A c, d \in Callers :
      c # d /\ Putting(c) /\ Putting(d)
        => FileOf(call[c].key) # FileOf(call[d].key)

\* ... which has read what is still there when it writes it back.
Snapshots ==
  "clash" \notin mishaps =>
    \A c \in Callers : call[c].step \in {"read", "truncated"} =>
      \A k \in FileOf(call[c].key) : call[c].seen[k] = stored[k]

KeptInv == StoreType /\ OneWriter /\ Snapshots /\ SavesAreKept

\* The steps that write nothing and send nothing.
Passive(c) ==
  \/ Starts(c)
  \/ Ends(c)
  \/ ReadFile(c) \/ WriteDenied(c) \/ Truncate(c) \/ ClearCache(c)
  \/ CacheHit(c) \/ CacheMiss(c) \/ FillCache(c)
  \/ ReaderMisses(c) \/ ReaderFills(c)

\* Such a step makes nobody a writer, and only reads what is there.
LEMMA PassiveEffect ==
  ASSUME StoreType, NEW c \in Callers, Passive(c)
  PROVE  /\ stored' = stored /\ accepted' = accepted /\ mishaps \subseteq mishaps'
         /\ \A d \in Callers \ {c} : call'[d] = call[d]
         /\ Putting(c)' => Putting(c) /\ call'[c].key = call[c].key
         /\ call'[c].step \in {"read", "truncated"} =>
              /\ call'[c].key = call[c].key
              /\ \/ call'[c].seen = stored
                 \/ call[c].step = "read" /\ call'[c].seen = call[c].seen
<1> USE NoCallTyped DEF StoreType, Putting, InFlight
<1>0. call[c] \in Call
  OBVIOUS
<1>1. CASE Starts(c)
  BY <1>1 DEF Starts, NoCall
<1>2. CASE Ends(c)
  BY <1>2 DEF Ends, EndCall
<1>3. CASE ReadFile(c)
  BY <1>0, <1>3 DEF ReadFile, Advance, Call
<1>4. CASE WriteDenied(c)
  BY <1>0, <1>4 DEF WriteDenied, Advance, Call
<1>5. CASE Truncate(c)
  BY <1>0, <1>5 DEF Truncate, Advance, Call
<1>6. CASE ClearCache(c)
  BY <1>0, <1>6 DEF ClearCache, Advance, Call
<1>7. CASE CacheHit(c)
  BY <1>0, <1>7 DEF CacheHit, Call
<1>8. CASE CacheMiss(c)
  BY <1>0, <1>8 DEF CacheMiss, Call
<1>9. CASE FillCache(c)
  BY <1>0, <1>9 DEF FillCache, Advance, Call
<1>10. CASE ReaderMisses(c)
  BY <1>0, <1>10 DEF ReaderMisses, NoCall
<1>11. CASE ReaderFills(c)
  BY <1>0, <1>11 DEF ReaderFills
<1> QED
  BY <1>1, <1>2, <1>3, <1>4, <1>5, <1>6, <1>7, <1>8, <1>9, <1>10, <1>11
     DEF Passive

\* Sending a PUT of a file that has a writer is a clash.
LEMMA SendKeeps ==
  ASSUME KeptInv, NEW c \in Callers, NEW k \in Keys, NEW v \in Values,
         SendPut(c, k, v)
  PROVE  OneWriter' /\ Snapshots' /\ SavesAreKept'
<1> USE DEF KeptInv
<1>1. /\ \A d \in Callers \ {c} : call'[d] = call[d]
      /\ call'[c].step = "sent" /\ call'[c].key = k
      /\ UNCHANGED <<stored, accepted>>
      /\ mishaps \subseteq mishaps'
  BY NoCallTyped DEF SendPut, Note, StoreType, NoCall
<1>2. "clash" \notin mishaps' =>
        \A d \in Callers : Putting(d) => FileOf(call[d].key) # FileOf(k)
  BY DEF SendPut, Note
<1>3. OneWriter'
  BY <1>1, <1>2 DEF OneWriter, Putting, InFlight
<1>4. Snapshots' /\ SavesAreKept'
  BY <1>1 DEF Snapshots, SavesAreKept
<1> QED
  BY <1>3, <1>4

\* A write takes back nothing but what its own key was before.
LEMMA WriteKeeps ==
  ASSUME KeptInv, NEW c \in Callers, WriteFile(c)
  PROVE  OneWriter' /\ Snapshots' /\ SavesAreKept'
<1> USE DEF KeptInv
<1> DEFINE key == call[c].key
<1>1. /\ \A d \in Callers \ {c} : call'[d] = call[d]
      /\ call'[c].step = "written" /\ call'[c].key = key
      /\ mishaps \subseteq mishaps'
      /\ mishaps' \subseteq mishaps \cup {"race"}
  BY NoCallTyped DEF WriteFile, Note, StoreType, NoCall
<1>2. key \in Keys /\ Putting(c) /\ call[c].step \in {"read", "truncated"}
  BY NoneAssumption DEF WriteFile, StoreType, Putting, InFlight
<1>3. OneWriter'
  BY <1>1, <1>2 DEF OneWriter, Putting, InFlight
<1>4. \A j \in Keys \ FileOf(key) : stored'[j] = stored[j]
  BY DEF WriteFile, WrittenBack
<1>5. ASSUME "clash" \notin mishaps' PROVE \A j \in Keys \ {key} : stored'[j] = stored[j]
  <2>1. \A j \in FileOf(key) : call[c].seen[j] = stored[j]
    BY <1>1, <1>2, <1>5 DEF Snapshots
  <2> QED
    BY <2>1 DEF WriteFile, WrittenBack
<1>6. SavesAreKept'
  <2> SUFFICES ASSUME "clash" \notin mishaps' PROVE stored' = accepted'
    BY DEF SavesAreKept
  <2>1. stored = accepted
    BY <1>1 DEF SavesAreKept
  <2>2. stored' \in Config /\ accepted \in Config
    BY WrittenBackTyped DEF WriteFile, StoreType
  <2>3. accepted' = [accepted EXCEPT ![key] = stored'[key]]
    BY DEF WriteFile
  <2> QED
    BY <1>2, <1>5, <2>1, <2>2, <2>3 DEF Config
<1>7. Snapshots'
  <2> SUFFICES ASSUME "clash" \notin mishaps', NEW d \in Callers,
                      call'[d].step \in {"read", "truncated"},
                      NEW j \in FileOf(call'[d].key)
               PROVE  call'[d].seen[j] = stored'[j]
    BY DEF Snapshots
  <2>1. d # c /\ call'[d] = call[d]
    BY <1>1
  <2>2. call[d].key \in Keys /\ Putting(d)
    BY <2>1, NoneAssumption DEF StoreType, Putting, InFlight
  <2>3. FileOf(call[d].key) # FileOf(key)
    BY <1>1, <1>2, <2>1, <2>2 DEF OneWriter
  <2>4. j \in Keys \ FileOf(key)
    BY <2>1, <2>3, KeysAssumption DEF FileOf, Keys
  <2>5. call[d].seen[j] = stored[j]
    BY <1>1, <2>1 DEF Snapshots
  <2> QED
    BY <1>4, <2>1, <2>4, <2>5
<1> QED
  BY <1>3, <1>6, <1>7

\* Every step of the store keeps the saves.
LEMMA StepKeeps ==
  ASSUME KeptInv, NEW c \in Callers, StoreStep(c)
  PROVE  KeptInv'
<1>1. StoreType'
  BY StoreStepTyped DEF KeptInv
<1>2. CASE Passive(c)
  <2>1. /\ stored' = stored /\ accepted' = accepted /\ mishaps \subseteq mishaps'
        /\ \A d \in Callers \ {c} : call'[d] = call[d]
        /\ Putting(c)' => Putting(c) /\ call'[c].key = call[c].key
        /\ call'[c].step \in {"read", "truncated"} =>
             /\ call'[c].key = call[c].key
             /\ \/ call'[c].seen = stored
                \/ call[c].step = "read" /\ call'[c].seen = call[c].seen
    BY <1>2, PassiveEffect DEF KeptInv
  <2>2. OneWriter'
    BY <2>1 DEF KeptInv, OneWriter, Putting, InFlight
  <2>3. Snapshots'
    BY <2>1 DEF KeptInv, Snapshots
  <2>4. SavesAreKept'
    BY <2>1 DEF KeptInv, SavesAreKept
  <2> QED
    BY <1>1, <2>2, <2>3, <2>4 DEF KeptInv
<1>3. ASSUME NEW k \in Keys, NEW v \in Values, SendPut(c, k, v)
      PROVE  KeptInv'
  BY <1>1, <1>3, SendKeeps DEF KeptInv
<1>4. CASE WriteFile(c)
  BY <1>1, <1>4, WriteKeeps DEF KeptInv
<1> QED
  BY <1>2, <1>3, <1>4 DEF StoreStep, ServerStep, Passive

-----------------------------------------------------------------------------
(* The types of the panels.                                                *)

ScreenType ==
  /\ view \in {"closed", "loading", "open", "broken"}
  /\ mount \in 0..MaxPanels
  /\ text \in Config
  /\ focus \in Keys \cup {None}
  /\ dialog \in {"none", "save", "button"}
  /\ lastSaved \in [Panels -> Config]
  /\ unmatched \in BOOLEAN /\ resetFailed \in BOOLEAN
  /\ refused \subseteq Keys
  /\ edits \in 0..MaxEdits

QueueType ==
  /\ queue \in [Panels -> Seq(Save)]
  /\ job \in [Panels -> JobStep]

PanelType == ScreenType /\ QueueType

\* What a panel does fits what it shows and what is queued in it; a panel
\* that is still to come has asked for nothing.
Coherent ==
  /\ \A m \in Panels : job[m] # "idle" => queue[m] # <<>>
  /\ view # "closed" => mount > 0
  /\ dialog = "save" => view = "open" /\ job[mount] \in {"asking", "asking again"}
  /\ \A m \in Panels : m > mount => queue[m] = <<>> /\ ~InFlight(m)

PanelInv == StoreType /\ PanelType /\ Coherent

\* A save that is queued has a key and a value.
LEMMA HeadTyped ==
  ASSUME PanelType, NEW m \in Panels, queue[m] # <<>>
  PROVE  /\ Head1(m) \in Save /\ Head1(m).key \in Keys
         /\ Head1(m).value \in Values
         /\ Tail(queue[m]) \in Seq(Save)
<1>1. queue[m] \in Seq(Save)
  BY DEF PanelType, QueueType
<1>2. Head1(m) \in Save
  BY <1>1 DEF Head1
<1> QED
  BY <1>1, <1>2 DEF Save

\* The shown panel is one of the panels, and so a caller.
LEMMA ShownPanel ==
  ASSUME PanelInv
  PROVE  /\ Panels \subseteq Callers /\ Readers \subseteq Callers
         /\ view # "closed" => mount \in Panels
         /\ dialog = "save" => /\ mount \in Panels /\ queue[mount] # <<>>
                               /\ job[mount] \in {"asking", "asking again"}
<1>1. Panels \subseteq Callers /\ Readers \subseteq Callers
  BY CallersAssumption
<1>2. mount \in 0..MaxPanels /\ (view # "closed" => mount > 0)
  BY DEF PanelInv, PanelType, ScreenType, Coherent
<1>3. view # "closed" => mount \in Panels
  BY <1>2, BoundsAssumption DEF Panels
<1> QED
  BY <1>1, <1>3 DEF PanelInv, Coherent

\* The next panel is one of the panels.
LEMMA NextPanel ==
  ASSUME PanelInv, OpenPanel
  PROVE  mount + 1 \in Panels
<1>1. mount \in 0..MaxPanels /\ mount < MaxPanels
  BY DEF OpenPanel, PanelInv, PanelType, ScreenType
<1> QED
  BY <1>1, BoundsAssumption DEF Panels

\* Every step of the whole is a step of the store, or leaves it alone.
LEMMA StepsOfTheStore ==
  ASSUME PanelInv, Next
  PROVE  UNCHANGED storeVars \/ \E c \in Callers : StoreStep(c)
<1>0. Panels \subseteq Callers /\ Readers \subseteq Callers
  BY ShownPanel
<1>1. CASE OpenPanel
  <2>1. mount + 1 \in Panels /\ mount + 1 > mount
    BY <1>1, NextPanel DEF PanelInv, PanelType, ScreenType
  <2>2. ~InFlight(mount + 1)
    BY <2>1 DEF PanelInv, Coherent
  <2>3. Starts(mount + 1)
    BY <1>1 DEF OpenPanel, Starts, Note
  <2> QED
    BY <1>0, <2>1, <2>2, <2>3 DEF StoreStep
<1>2. CASE ConfirmSave
  <2>1. mount \in Panels /\ Head1(mount).key \in Keys /\ Head1(mount).value \in Values
    BY <1>2, ShownPanel, HeadTyped DEF ConfirmSave, AskedSave, PanelInv
  <2> QED
    BY <1>0, <1>2, <2>1 DEF ConfirmSave, StoreStep
<1>3. ASSUME NEW m \in Panels, Runs(m)
      PROVE  UNCHANGED storeVars \/ StoreStep(m)
  <2>1. CASE LoadFields(m) \/ LoadFails(m) \/ TakeAnswer(m) \/ TakeFailure(m)
    BY <2>1 DEF LoadFields, LoadFails, TakeAnswer, TakeFailure, StoreStep, Ends
  <2>2. CASE StartSave(m)
    <3>1. Head1(m).key \in Keys /\ Head1(m).value \in Values
      BY <2>2, HeadTyped DEF StartSave, Waiting, Idle, PanelInv
    <3> QED
      BY <2>2, <3>1 DEF StartSave, StoreStep
  <2>3. CASE Serve(m)
    BY <2>3 DEF Serve, StoreStep
  <2>4. CASE SkipSave(m) \/ AskSave(m) \/ ResetForSave(m) \/ FinishSave(m)
    BY <2>4 DEF SkipSave, AskSave, ResetForSave, FinishSave
  <2> QED
    BY <1>3, <2>1, <2>2, <2>3, <2>4 DEF Runs, QueueStep
<1>4. ASSUME NEW r \in Readers, Reader(r)
      PROVE  StoreStep(r)
  BY <1>4 DEF Reader, StoreStep
<1>5. CASE LeavePanel \/ ReverifyFails \/ BlurField \/ AskButton \/ ConfirmOnce
           \/ DeclineSave \/ AnswerButton
  BY <1>5 DEF LeavePanel, ReverifyFails, BlurField, AskButton, ConfirmOnce, DeclineSave,
              AnswerButton
<1>6. CASE \/ \E k \in Keys \ ModeKeys : \E v \in Choices[k] : EditField(k, v)
           \/ \E k \in ModeKeys : \E v \in Choices[k] : PickMode(k, v)
  BY <1>6 DEF EditField, PickMode
<1> QED
  BY <1>0, <1>1, <1>2, <1>3, <1>4, <1>5, <1>6 DEF Next, UserAnswers

\* A queue that settles or proceeds disturbs no other.
LEMMA QueueMoves ==
  ASSUME PanelInv, NEW m \in Panels, queue[m] # <<>>,
         Settle(m) \/ \E step \in JobStep : Proceed(m, step)
  PROVE  /\ queue' \in [Panels -> Seq(Save)] /\ job' \in [Panels -> JobStep]
         /\ \A n \in Panels : job'[n] # "idle" => queue'[n] # <<>>
         /\ \A n \in Panels \ {m} : queue'[n] = queue[n] /\ job'[n] = job[n]
<1> USE DEF PanelInv, PanelType, QueueType
<1>1. CASE Settle(m)
  <2>1. Tail(queue[m]) \in Seq(Save)
    BY HeadTyped
  <2>2. queue' = [queue EXCEPT ![m] = Tail(queue[m])]
        /\ job' = [job EXCEPT ![m] = "idle"]
    BY <1>1 DEF Settle
  <2> QED
    BY <2>1, <2>2 DEF Coherent, JobStep
<1>2. ASSUME NEW step \in JobStep, Proceed(m, step)
      PROVE  /\ queue' = queue /\ job' \in [Panels -> JobStep]
             /\ \A n \in Panels \ {m} : job'[n] = job[n]
  BY <1>2 DEF Proceed
<1> QED
  BY <1>1, <1>2 DEF Coherent

\* A save that is queued disturbs no other.
LEMMA QueueGrows ==
  ASSUME PanelInv, NEW m \in Panels, NEW k \in Keys, NEW v \in Values,
         Enqueue(m, k, v)
  PROVE  /\ queue' \in [Panels -> Seq(Save)] /\ queue'[m] # <<>>
         /\ \A n \in Panels \ {m} : queue'[n] = queue[n]
<1>1. queue[m] \in Seq(Save) /\ [key |-> k, value |-> v] \in Save
  BY DEF PanelInv, PanelType, QueueType, Save
<1>2. Append(queue[m], [key |-> k, value |-> v]) \in Seq(Save) \ {<<>>}
  BY <1>1
<1>3. queue' = [queue EXCEPT ![m] = Append(queue[m], [key |-> k, value |-> v])]
  BY DEF Enqueue
<1> QED
  BY <1>2, <1>3 DEF PanelInv, PanelType, QueueType

\* What a call has seen is a configuration, and a PUT has a key.
LEMMA CallTyped ==
  ASSUME StoreType, NEW c \in Callers
  PROVE  /\ call[c].seen \in Config
         /\ call[c].step = "failed" => call[c].key \in Keys
BY DEF StoreType, Call

\* A step of a queue settles its first save or moves it on.
LEMMA QueueStepMoves ==
  ASSUME PanelInv, NEW m \in Panels, QueueStep(m)
  PROVE  /\ queue[m] # <<>>
         /\ Settle(m) \/ \E step \in JobStep : Proceed(m, step)
<1>1. queue[m] # <<>>
  BY DEF QueueStep, SkipSave, StartSave, AskSave, TakeAnswer, TakeFailure,
         ResetForSave, FinishSave, Waiting, Idle, PanelInv, Coherent
<1>2. Settle(m) \/ \E step \in JobStep : Proceed(m, step)
  BY DEF QueueStep, SkipSave, StartSave, AskSave, TakeAnswer, TakeFailure,
         ResetForSave, FinishSave, AfterPut, JobStep
<1> QED
  BY <1>1, <1>2

\* Each step of a queue leaves the panels well-typed.
LEMMA QueueStepTyped ==
  ASSUME PanelInv, NEW m \in Panels, QueueStep(m)
  PROVE  PanelType'
<1> USE DEF PanelInv
<1>1. QueueType'
  BY QueueStepMoves, QueueMoves DEF QueueType
<1>2. m \in Callers
  BY ShownPanel
<1> USE DEF PanelType, ScreenType
<1>3. CASE SkipSave(m) \/ StartSave(m) \/ AskSave(m) \/ FinishSave(m)
  <2>1. UNCHANGED <<view, mount, text, focus, lastSaved, unmatched, resetFailed,
                    refused, edits>>
        /\ dialog' \in {dialog, "save"}
    BY <1>3 DEF SkipSave, StartSave, AskSave, FinishSave
  <2> QED
    BY <1>1, <2>1
<1>4. CASE TakeAnswer(m)
  <2> DEFINE Update(settings) == [j \in Keys |-> IF j \in Taken(call[m].key)
                                                 THEN call[m].seen[j]
                                                 ELSE settings[j]]
  <2>1. ASSUME NEW settings \in Config PROVE Update(settings) \in Config
    BY <1>2, CallTyped DEF Config
  <2>2. lastSaved' = [lastSaved EXCEPT ![m] = Update(lastSaved[m])]
        /\ text' \in {text, Update(text)}
        /\ refused' \subseteq refused
        /\ UNCHANGED <<view, mount, focus, dialog, unmatched, resetFailed, edits>>
    BY <1>4 DEF TakeAnswer
  <2> HIDE DEF Update
  <2>3. lastSaved' \in [Panels -> Config] /\ text' \in Config
    BY <2>1, <2>2
  <2> QED
    BY <1>1, <2>2, <2>3
<1>5. CASE TakeFailure(m)
  <2>1. UNCHANGED <<view, mount, text, focus, dialog, lastSaved, unmatched,
                    resetFailed, edits>>
        /\ refused' \subseteq refused \cup {call[m].key}
        /\ call[m].step = "failed"
    BY <1>5 DEF TakeFailure
  <2>2. call[m].key \in Keys
    BY <1>2, <2>1, CallTyped
  <2> QED
    BY <1>1, <2>1, <2>2
<1>6. CASE ResetForSave(m)
  <2>1. UNCHANGED <<view, mount, text, focus, dialog, lastSaved, refused, edits>>
        /\ unmatched' \in {unmatched, FALSE} /\ resetFailed' \in {resetFailed, TRUE}
    BY <1>6 DEF ResetForSave, ResetData, ResetFails
  <2> QED
    BY <1>1, <2>1
<1> QED
  BY <1>3, <1>4, <1>5, <1>6 DEF QueueStep

\* Each step of the whole leaves the panels well-typed.
LEMMA PanelStepTyped ==
  ASSUME PanelInv, Next
  PROVE  PanelType'
<1> USE DEF PanelInv, PanelType, ScreenType
<1>1. CASE OpenPanel
  <2>1. UNCHANGED <<text, focus, dialog, queue, job, lastSaved, unmatched,
                    resetFailed, edits>>
        /\ mount' \in 0..MaxPanels /\ view' = "loading" /\ refused' = {}
    BY <1>1, BoundsAssumption DEF OpenPanel
  <2> QED
    BY <2>1 DEF QueueType
<1>2. CASE LeavePanel \/ ReverifyFails
  BY <1>2 DEF LeavePanel, ReverifyFails, QueueType
<1>3. ASSUME NEW k \in Keys, NEW v \in Choices[k], EditField(k, v)
      PROVE  PanelType'
  <2>1. v \in Values
    BY ChoicesAssumption
  <2>2. edits' \in 0..MaxEdits
    BY <1>3, BoundsAssumption DEF EditField
  <2> QED
    BY <1>3, <2>1, <2>2 DEF EditField, QueueType, Config
<1>4. CASE BlurField
  <2>1. mount \in Panels /\ focus \in Keys /\ text[focus] \in Values
    BY <1>4, ShownPanel DEF BlurField, Config
  <2>2. QueueType'
    BY <1>4, <2>1, QueueGrows DEF BlurField, QueueType
  <2> QED
    BY <1>4, <2>2 DEF BlurField
<1>5. ASSUME NEW k \in ModeKeys, NEW v \in Choices[k], PickMode(k, v)
      PROVE  PanelType'
  <2>1. k \in Keys /\ v \in Values /\ mount \in Panels
    BY <1>5, ChoicesAssumption, SwitchKeysAssumption, ShownPanel
       DEF Keys, PickMode
  <2>2. edits' \in 0..MaxEdits
    BY <1>5, BoundsAssumption DEF PickMode
  <2>3. QueueType'
    BY <1>5, <2>1, QueueGrows DEF PickMode, QueueType
  <2> QED
    BY <1>5, <2>1, <2>2, <2>3 DEF PickMode, Config
<1>6. CASE AskButton
  BY <1>6 DEF AskButton, QueueType
<1>7. CASE AnswerButton
  BY <1>7 DEF AnswerButton, ResetData, ResetFails, QueueType
<1>8. CASE ConfirmOnce \/ ConfirmSave
  <2>1. mount \in Panels /\ queue[mount] # <<>>
        /\ \E step \in JobStep : Proceed(mount, step)
    BY <1>8, ShownPanel DEF ConfirmOnce, ConfirmSave, AskedSave, JobStep
  <2>2. QueueType'
    BY <2>1, QueueMoves DEF QueueType
  <2> QED
    BY <1>8, <2>2 DEF ConfirmOnce, ConfirmSave
<1>9. CASE DeclineSave
  <2>1. mount \in Panels /\ queue[mount] # <<>> /\ Settle(mount)
    BY <1>9, ShownPanel DEF DeclineSave, AskedSave
  <2>2. QueueType'
    BY <2>1, QueueMoves DEF QueueType
  <2>3. lastSaved[mount] \in Config
    BY <2>1
  <2>4. text' \in Config
    BY <1>9, <2>3 DEF DeclineSave, Config
  <2> QED
    BY <1>9, <2>2, <2>4 DEF DeclineSave
<1>10. ASSUME NEW m \in Panels, Runs(m)
       PROVE  PanelType'
  <2>1. CASE LoadFields(m)
    <3>1. call[m].seen \in Config
      BY ShownPanel, CallTyped
    <3>2. UNCHANGED <<mount, focus, dialog, queue, job, unmatched, resetFailed,
                      refused, edits>>
          /\ view' \in {view, "open"} /\ text' \in {text, call[m].seen}
          /\ lastSaved' = [lastSaved EXCEPT ![m] = call[m].seen]
      BY <2>1 DEF LoadFields
    <3> QED
      BY <3>1, <3>2 DEF QueueType
  <2>2. CASE QueueStep(m)
    BY <2>2, QueueStepTyped
  <2>3. CASE Serve(m)
    <3>1. UNCHANGED <<view, mount, text, focus, dialog, queue, job, lastSaved,
                      resetFailed, refused, edits>>
          /\ unmatched' \in BOOLEAN
      BY <2>3 DEF Serve
    <3> QED
      BY <3>1 DEF QueueType
  <2>4. CASE LoadFails(m)
    BY <2>4 DEF LoadFails, QueueType
  <2> QED
    BY <1>10, <2>1, <2>2, <2>3, <2>4 DEF Runs
<1>11. ASSUME NEW r \in Readers, Reader(r)
       PROVE  PanelType'
  BY <1>11 DEF Reader, panelVars, QueueType
<1> QED
  BY <1>1, <1>2, <1>3, <1>4, <1>5, <1>6, <1>7, <1>8, <1>9, <1>10, <1>11
     DEF Next, UserAnswers

\* Panels are numbered in the order they are mounted.
LEMMA LaterPanels ==
  ASSUME PanelInv, NEW m \in Panels
  PROVE  /\ m > mount => m # mount
         /\ m > mount + 1 => m > mount /\ m # mount + 1
         /\ mount + 1 > 0
<1>1. mount \in 0..MaxPanels
  BY DEF PanelInv, PanelType, ScreenType
<1>2. mount \in Nat /\ m \in Nat
  BY <1>1, BoundsAssumption DEF Panels
<1> QED
  BY <1>2

\* Each step of the whole keeps the panels coherent.
LEMMA StepCoherent ==
  ASSUME PanelInv, Next
  PROVE  Coherent'
<1> USE DEF PanelInv, Coherent
<1>1. \A m \in Panels : /\ m > mount => m # mount
                        /\ m > mount + 1 => m > mount /\ m # mount + 1
                        /\ mount + 1 > 0
  BY LaterPanels
<1>2. ASSUME NEW m \in Panels, queue[m] # <<>> PROVE ~(m > mount)
  BY <1>2
<1>3. CASE OpenPanel
  <2>1. mount' = mount + 1 /\ view' = "loading" /\ view = "closed"
        /\ UNCHANGED <<queue, job, dialog>>
        /\ call' = [call EXCEPT ![mount + 1] = [NoCall EXCEPT !.step = "getting"]]
    BY <1>3 DEF OpenPanel
  <2>2. \A m \in Panels : m > mount + 1 => m > mount /\ m # mount + 1
    BY <1>1
  <2>3. \A m \in Panels : m > mount + 1 => call'[m] = call[m]
    BY <2>1, <2>2, ShownPanel DEF StoreType
  <2>4. mount + 1 > 0
    <3>1. mount + 1 \in Panels
      BY <1>3, NextPanel
    <3> QED
      BY <1>1, <3>1
  <2> QED
    BY <2>1, <2>2, <2>3, <2>4 DEF InFlight
<1>4. CASE LeavePanel \/ ReverifyFails
  BY <1>4 DEF LeavePanel, ReverifyFails, storeVars, InFlight
<1>5. CASE \/ \E k \in Keys \ ModeKeys : \E v \in Choices[k] : EditField(k, v)
           \/ AskButton \/ AnswerButton
  BY <1>5 DEF EditField, AskButton, AnswerButton, storeVars, InFlight
<1>6. CASE BlurField \/ \E k \in ModeKeys : \E v \in Choices[k] : PickMode(k, v)
  <2>1. mount \in Panels
    BY <1>6, ShownPanel DEF BlurField, PickMode
  <2>2. /\ queue'[mount] # <<>>
        /\ \A n \in Panels \ {mount} : queue'[n] = queue[n]
    <3>1. CASE BlurField
      <4>1. focus \in Keys /\ text[focus] \in Values
        BY <3>1 DEF BlurField, PanelType, ScreenType, Config
      <4> QED
        BY <2>1, <3>1, <4>1, QueueGrows DEF BlurField
    <3>2. ASSUME NEW k \in ModeKeys, NEW v \in Choices[k], PickMode(k, v)
          PROVE  /\ queue'[mount] # <<>>
                 /\ \A n \in Panels \ {mount} : queue'[n] = queue[n]
      <4>1. k \in Keys /\ v \in Values
        BY ChoicesAssumption, SwitchKeysAssumption DEF Keys
      <4> QED
        BY <2>1, <3>2, <4>1, QueueGrows DEF PickMode
    <3> QED
      BY <1>6, <3>1, <3>2
  <2>3. UNCHANGED <<call, view, mount, job, dialog>>
    BY <1>6 DEF BlurField, PickMode, storeVars
  <2>4. \A m \in Panels : m > mount => m # mount
    BY <1>1
  <2> QED
    BY <2>1, <2>2, <2>3, <2>4 DEF InFlight
<1>7. CASE ConfirmOnce \/ ConfirmSave \/ DeclineSave
  <2>1. /\ mount \in Panels /\ queue[mount] # <<>>
        /\ Settle(mount) \/ \E step \in JobStep : Proceed(mount, step)
    BY <1>7, ShownPanel
       DEF ConfirmOnce, ConfirmSave, DeclineSave, AskedSave, JobStep
  <2>2. /\ \A n \in Panels : job'[n] # "idle" => queue'[n] # <<>>
        /\ \A n \in Panels \ {mount} : queue'[n] = queue[n]
    BY <2>1, QueueMoves
  <2>3. UNCHANGED <<view, mount>>
        /\ \/ dialog' = "none"
           \/ ConfirmOnce
    BY <1>7 DEF ConfirmOnce, ConfirmSave, DeclineSave
  <2>4. dialog' = "save" => view' = "open" /\ job'[mount] = "asking again"
    <3>1. CASE ConfirmOnce
      BY <2>1, <2>3, <3>1, ShownPanel
         DEF ConfirmOnce, AskedSave, Proceed, PanelType, QueueType
    <3> QED
      BY <2>3, <3>1
  <2>5. \A m \in Panels : m > mount => m # mount
    BY <1>1
  <2>6. \A m \in Panels \ {mount} : call'[m] = call[m]
    BY <1>7, <2>1, ShownPanel
       DEF ConfirmOnce, ConfirmSave, DeclineSave, SendPut, storeVars, StoreType
  <2> QED
    BY <2>2, <2>3, <2>4, <2>5, <2>6 DEF InFlight
<1>8. ASSUME NEW m \in Panels, QueueStep(m)
      PROVE  Coherent'
  <2>1. /\ queue[m] # <<>>
        /\ Settle(m) \/ \E step \in JobStep : Proceed(m, step)
    BY <1>8, QueueStepMoves
  <2>2. /\ \A n \in Panels : job'[n] # "idle" => queue'[n] # <<>>
        /\ \A n \in Panels \ {m} : queue'[n] = queue[n] /\ job'[n] = job[n]
    BY <2>1, QueueMoves
  <2>3. ~(m > mount)
    BY <1>2, <2>1
  <2>4. UNCHANGED <<view, mount>>
    BY <1>8 DEF QueueStep, SkipSave, StartSave, AskSave, TakeAnswer,
                TakeFailure, ResetForSave, FinishSave
  <2>5. \A n \in Panels \ {m} : call'[n] = call[n]
    BY <1>8, ShownPanel
       DEF QueueStep, SkipSave, StartSave, AskSave, TakeAnswer, TakeFailure,
           ResetForSave, FinishSave, SendPut, EndCall, storeVars, StoreType
  <2>6. dialog' = "save"
          => view = "open" /\ job'[mount] \in {"asking", "asking again"}
    <3>1. CASE AskSave(m)
      <4>1. job'[m] = "asking" /\ job[m] = "idle"
            /\ dialog' = IF Open(m) THEN "save" ELSE dialog
        BY <3>1 DEF AskSave, Waiting, Proceed, PanelType, QueueType
      <4> QED
        BY <2>2, <4>1, ShownPanel DEF Open
    <3>2. CASE ~AskSave(m)
      <4>1. dialog' = dialog /\ job[m] \notin {"asking", "asking again"}
        BY <1>8, <3>2 DEF QueueStep, SkipSave, StartSave, TakeAnswer,
             TakeFailure, ResetForSave, FinishSave, Waiting
      <4> QED
        BY <2>2, <4>1, ShownPanel
    <3> QED
      BY <3>1, <3>2
  <2> QED
    BY <2>2, <2>3, <2>4, <2>5, <2>6 DEF InFlight
<1>9. ASSUME NEW m \in Panels, LoadFields(m) \/ LoadFails(m) \/ Serve(m)
      PROVE  Coherent'
  <2>1. InFlight(m)
    BY <1>9 DEF LoadFields, LoadFails, Serve, ServerStep, ReadFile, WriteDenied, Truncate,
                WriteFile, ClearCache, CacheHit, CacheMiss, FillCache, InFlight
  <2>2. ~(m > mount)
    BY <2>1
  <2>3. \A n \in Panels \ {m} : call'[n] = call[n]
    BY <1>9, ShownPanel
       DEF LoadFields, LoadFails, Serve, ServerStep, ReadFile, WriteDenied, Truncate,
           WriteFile, ClearCache, CacheHit, CacheMiss, FillCache, Advance,
           EndCall, StoreType
  <2>4. /\ UNCHANGED <<mount, queue, job, dialog>>
        /\ view' = view \/ (view = "loading" /\ view' \in {"open", "broken"})
    BY <1>9 DEF LoadFields, LoadFails, Serve
  <2> QED
    BY <2>2, <2>3, <2>4 DEF InFlight
<1>10. ASSUME NEW r \in Readers, Reader(r)
       PROVE  Coherent'
  <2>1. UNCHANGED <<view, mount, queue, job, dialog>>
    BY <1>10 DEF Reader, panelVars
  <2>2. \A n \in Panels : call'[n] = call[n]
    BY <1>10, CallersAssumption DEF Reader, ReaderMisses, ReaderFills, StoreType
  <2> QED
    BY <2>1, <2>2 DEF InFlight
<1> QED
  BY <1>3, <1>4, <1>5, <1>6, <1>7, <1>8, <1>9, <1>10
     DEF Next, UserAnswers, Runs

-----------------------------------------------------------------------------
(* A cache that is kept is a fresh one.                                    *)

\* While config.yaml is truncated, its writer is still to write it. Until a
\* load races with a write, it has read what the files hold; and so has the
\* cache, or its writer is still to clear it.
FreshInv ==
  /\ torn => \E c \in Callers : call[c].step = "truncated"
  /\ "race" \notin mishaps =>
       /\ \A c \in Callers : call[c].step = "loading" => torn \/ call[c].seen = stored
       /\ \/ cache \in {None, stored}
          \/ torn
          \/ \E c \in Callers : call[c].step = "written"

\* The steps that leave the files and the cache alone, and load nothing.
Aside(c) ==
  \/ Starts(c) /\ ~InFlight(c)
  \/ Ends(c)
  \/ \E k \in Keys, v \in Values : SendPut(c, k, v)
  \/ ReadFile(c) \/ WriteDenied(c) \/ CacheHit(c)

\* What such a step does to the calls.
LEMMA AsideEffect ==
  ASSUME StoreType, NEW c \in Callers, Aside(c)
  PROVE  /\ UNCHANGED <<stored, torn, cache>> /\ mishaps \subseteq mishaps'
         /\ \A d \in Callers \ {c} : call'[d] = call[d]
         /\ call[c].step \notin {"truncated", "written"}
         /\ call'[c].step # "loading"
<1> USE NoCallTyped DEF StoreType, InFlight
<1>0. call[c] \in Call
  OBVIOUS
<1>1. CASE Starts(c) /\ ~InFlight(c)
  BY <1>1 DEF Starts, NoCall
<1>2. CASE Ends(c)
  BY <1>2 DEF Ends, EndCall
<1>3. CASE \E k \in Keys, v \in Values : SendPut(c, k, v)
  BY <1>3 DEF SendPut, Note, NoCall
<1>4. CASE ReadFile(c)
  BY <1>0, <1>4 DEF ReadFile, Advance, Call
<1>5. CASE WriteDenied(c)
  BY <1>0, <1>5 DEF WriteDenied, Advance, Call
<1>6. CASE CacheHit(c)
  BY <1>0, <1>6 DEF CacheHit, Call
<1> QED
  BY <1>1, <1>2, <1>3, <1>4, <1>5, <1>6 DEF Aside

\* What is loaded from whole files is what they hold.
LEMMA LoadedWhole == ASSUME StoreType, ~torn PROVE Loaded = stored
BY DEF StoreType, Loaded, Config

\* Every step of the store keeps the cache fresh.
LEMMA StepFresh ==
  ASSUME StoreType, FreshInv, NEW c \in Callers, StoreStep(c)
  PROVE  FreshInv'
<1>0. call[c] \in Call
  BY DEF StoreType
<1>1. CASE Aside(c)
  <2>1. /\ UNCHANGED <<stored, torn, cache>> /\ mishaps \subseteq mishaps'
        /\ \A d \in Callers \ {c} : call'[d] = call[d]
        /\ call[c].step \notin {"truncated", "written"}
        /\ call'[c].step # "loading"
    BY <1>1, AsideEffect
  <2> QED
    BY <2>1 DEF FreshInv
<1>2. CASE Truncate(c)
  <2>1. /\ torn' = TRUE /\ UNCHANGED <<stored, cache, mishaps>>
        /\ call'[c].step = "truncated"
    BY <1>0, <1>2 DEF Truncate, Advance, StoreType, Call
  <2> QED
    BY <2>1 DEF FreshInv
<1>3. CASE WriteFile(c)
  <2>1. /\ \A d \in Callers \ {c} : call'[d] = call[d]
        /\ call'[c].step = "written"
        /\ call[c].step # "loading"
        /\ torn' = (torn /\ call[c].key \notin ConfigKeys)
    BY <1>3, NoCallTyped DEF WriteFile, StoreType, NoCall
  <2>2. "race" \notin mishaps' => \A d \in Callers : call[d].step # "loading"
    BY <1>3 DEF WriteFile, Note
  <2>3. torn' => call[c].step # "truncated"
    BY <1>3, <2>1 DEF WriteFile
  <2> QED
    BY <2>1, <2>2, <2>3 DEF FreshInv
<1>4. CASE ClearCache(c)
  <2>1. /\ UNCHANGED <<stored, torn, mishaps>> /\ cache' = None
        /\ \A d \in Callers \ {c} : call'[d] = call[d]
        /\ call'[c].step = "getting" /\ call[c].step = "written"
    BY <1>0, <1>4 DEF ClearCache, Advance, StoreType, Call
  <2> QED
    BY <2>1 DEF FreshInv
<1>5. CASE CacheMiss(c) \/ ReaderMisses(c)
  <2>1. /\ UNCHANGED <<stored, torn, cache, mishaps>>
        /\ \A d \in Callers \ {c} : call'[d] = call[d]
        /\ call'[c].step = "loading" /\ call'[c].seen = Loaded
        /\ call[c].step \notin {"truncated", "written"}
    <3>1. CASE CacheMiss(c)
      BY <1>0, <3>1, LoadedTyped DEF CacheMiss, StoreType, Call
    <3>2. CASE ReaderMisses(c)
      BY <3>2 DEF ReaderMisses, InFlight, StoreType, NoCall
    <3> QED
      BY <1>5, <3>1, <3>2
  <2> QED
    BY <2>1, LoadedWhole DEF FreshInv
<1>6. CASE FillCache(c) \/ ReaderFills(c)
  <2>1. /\ UNCHANGED <<stored, torn, mishaps>>
        /\ \A d \in Callers \ {c} : call'[d] = call[d]
        /\ call[c].step = "loading"
        /\ call'[c].step \in {"answered", "idle"}
        /\ cache' \in {cache, call[c].seen}
    BY <1>0, <1>6, NoCallTyped
       DEF FillCache, ReaderFills, Advance, StoreType, Call
  <2> QED
    BY <2>1 DEF FreshInv
<1> QED
  BY <1>1, <1>2, <1>3, <1>4, <1>5, <1>6 DEF StoreStep, ServerStep, Aside

-----------------------------------------------------------------------------
(* The theorems.                                                           *)

Inv == KeptInv /\ PanelInv /\ FreshInv

\* The initial states.
LEMMA InitInv == Init => Inv
<1> SUFFICES ASSUME Init PROVE Inv
  OBVIOUS
<1> USE DEF Init, StoreInit
<1>1. stored \in Config /\ \A c \in Callers : call[c] = NoCall
  OBVIOUS
<1>2. \A c \in Callers : ~InFlight(c)
  BY <1>1, NoCallTyped DEF InFlight
<1>3. StoreType
  BY <1>1, NoCallTyped DEF StoreType
<1>4. OneWriter /\ Snapshots /\ SavesAreKept
  BY <1>1, <1>2, NoCallTyped DEF OneWriter, Snapshots, SavesAreKept, Putting
<1>5. FreshInv
  BY <1>1, NoCallTyped DEF FreshInv
<1>6. ScreenType
  <2>1. mount \in 0..MaxPanels /\ edits \in 0..MaxEdits
    BY BoundsAssumption
  <2> QED
    BY <1>1, <2>1 DEF ScreenType
<1>7. QueueType
  BY DEF QueueType, JobStep
<1>8. Coherent
  BY <1>2, CallersAssumption DEF Coherent
<1> QED
  BY <1>3, <1>4, <1>5, <1>6, <1>7, <1>8 DEF Inv, KeptInv, PanelInv, PanelType

\* What is known of the store holds as long as the store is left alone.
LEMMA StoreStutters ==
  ASSUME KeptInv, FreshInv, UNCHANGED storeVars
  PROVE  KeptInv' /\ FreshInv' /\ StoreType'
<1> USE DEF storeVars, KeptInv
<1>1. StoreType'
  BY DEF StoreType
<1>2. OneWriter' /\ Snapshots'
  BY DEF OneWriter, Snapshots, Putting, InFlight
<1>3. SavesAreKept'
  BY DEF SavesAreKept
<1>4. FreshInv'
  BY DEF FreshInv
<1> QED
  BY <1>1, <1>2, <1>3, <1>4

\* Every step keeps the invariant.
LEMMA NextInv == Inv /\ [Next]_vars => Inv'
<1> SUFFICES ASSUME Inv, [Next]_vars PROVE Inv'
  OBVIOUS
<1>1. CASE UNCHANGED vars
  <2>1. KeptInv' /\ FreshInv' /\ StoreType'
    BY <1>1, StoreStutters DEF vars, Inv
  <2>2. ScreenType' /\ QueueType'
    BY <1>1 DEF vars, panelVars, Inv, PanelInv, PanelType, ScreenType, QueueType
  <2>3. Coherent'
    BY <1>1 DEF vars, storeVars, panelVars, Inv, PanelInv, Coherent, InFlight
  <2> QED
    BY <2>1, <2>2, <2>3 DEF Inv, PanelInv, PanelType
<1>2. CASE Next
  <2>1. PanelType' /\ Coherent'
    BY <1>2, PanelStepTyped, StepCoherent DEF Inv
  <2>2. ASSUME UNCHANGED storeVars
        PROVE  KeptInv' /\ FreshInv' /\ StoreType'
    BY <2>2, StoreStutters DEF Inv
  <2>3. ASSUME NEW c \in Callers, StoreStep(c)
        PROVE  KeptInv' /\ FreshInv' /\ StoreType'
    BY <2>3, StepKeeps, StepFresh, StoreStepTyped DEF Inv, KeptInv
  <2>4. KeptInv' /\ FreshInv' /\ StoreType'
    BY <1>2, <2>2, <2>3, StepsOfTheStore DEF Inv, KeptInv
  <2> QED
    BY <2>1, <2>4 DEF Inv, PanelInv
<1> QED
  BY <1>1, <1>2

\* The invariant holds in all reachable states.
LEMMA InvHolds == Spec => []Inv
BY InitInv, NextInv, PTL DEF Spec

\* Every variable of the store and the panels keeps its type.
THEOREM TypeCorrect == Spec => []TypeOK
<1>1. Inv => TypeOK
  BY DEF Inv, PanelInv, StoreType, PanelType, ScreenType, QueueType, TypeOK
<1> QED
  BY <1>1, InvHolds, PTL

\* Unless two PUTs of one file are under way together, each key holds the
\* value last written for it: update_llm_config() and set_key() write back
\* nothing that was changed meanwhile.
THEOREM SavesStayKept == Spec => []SavesAreKept
<1>1. Inv => SavesAreKept
  BY DEF Inv, KeptInv
<1> QED
  BY <1>1, InvHolds, PTL

\* Unless a load is under way during a write, what get_settings() has cached
\* once no PUT is under way is what the files hold.
THEOREM CacheStaysFresh == Spec => []CacheIsFresh
<1>1. ASSUME Inv PROVE CacheIsFresh
  <2> SUFFICES ASSUME "race" \notin mishaps, \A c \in Callers : ~Putting(c)
               PROVE  cache \in {None, stored}
    BY DEF CacheIsFresh
  <2>1. \A c \in Callers : call[c].step \notin {"truncated", "written"}
    BY <1>1, NoneAssumption DEF Inv, KeptInv, StoreType, Putting, InFlight
  <2> QED
    BY <1>1, <2>1 DEF Inv, FreshInv
<1> QED
  BY <1>1, InvHolds, PTL

-----------------------------------------------------------------------------
(* A settled panel shows what the files hold.                              *)

\* A PUT is under way for the first save of a panel, and only then.
Linked ==
  /\ \A c \in Callers : Putting(c) <=> c \in Panels /\ job[c] = "saving"
  /\ \A m \in Panels : job[m] = "saving" => call[m].key = Head1(m).key

\* What is queued for k, and not under way, is what the field shows.
Pending(k) ==
  \E i \in DOMAIN queue[mount] :
    /\ queue[mount][i] = [key |-> k, value |-> text[k]]
    /\ i > 1 \/ job[mount] \in {"idle", "asking", "asking again"}

\* Only the shown panel has saves; what is read for it is what is stored.
OneQueue ==
  /\ \A n \in Panels \ {mount} : Idle(n)
  /\ view = "loading" => Idle(mount)
  /\ view # "closed" /\ call[mount].step = "answered" => call[mount].seen = stored

\* The panel knows what is stored, but for the key it has just written ...
Knows ==
  view = "open" =>
    /\ InFlight(mount) => Putting(mount)
    /\ \A k \in Keys :
         \/ lastSaved[mount][k] = stored[k]
         \/ /\ call[mount].key = k
            /\ call[mount].step \in {"written", "getting", "loading", "answered"}

\* ... and shows it, but for what is being edited, saved, or still to save.
Shows ==
  view = "open" =>
    \A k \in Keys \ (refused \cup {focus}) :
      \/ text[k] = stored[k]
      \/ Pending(k)
      \/ job[mount] = "saving" /\ Head1(mount).key = k

ShownInv == mishaps = {} => OneQueue /\ Knows /\ Shows

\* A mishap is never forgotten.
LEMMA MishapsStay ==
  ASSUME PanelInv, Next PROVE mishaps \subseteq mishaps'
<1>1. ASSUME NEW c \in Callers, StoreStep(c) PROVE mishaps \subseteq mishaps'
  BY <1>1 DEF StoreStep, Starts, Ends, SendPut, Note, ServerStep, ReadFile, WriteDenied,
     Truncate, WriteFile, ClearCache, CacheHit, CacheMiss, FillCache, ReaderMisses,
     ReaderFills
<1> QED
  BY <1>1, StepsOfTheStore DEF storeVars

\* A step of the server keeps the call under way, and its key.
LEMMA ServerKeepsKey ==
  ASSUME StoreType, NEW c \in Callers, ServerStep(c)
  PROVE  /\ InFlight(c) /\ InFlight(c)' /\ call'[c].key = call[c].key
         /\ \A d \in Callers \ {c} : call'[d] = call[d]
<1> USE NoCallTyped DEF StoreType, InFlight, Advance
<1>0. call[c] \in Call
  OBVIOUS
<1>1. CASE ReadFile(c) \/ WriteDenied(c) \/ Truncate(c) \/ ClearCache(c)
  BY <1>0, <1>1 DEF ReadFile, WriteDenied, Truncate, ClearCache, Call
<1>2. CASE WriteFile(c)
  <2>1. /\ call[c].step \in {"truncated", "read"}
        /\ call' = [call EXCEPT ![c] = [NoCall EXCEPT !.step = "written",
                                                      !.key = call[c].key]]
    BY <1>2 DEF WriteFile
  <2> QED
    BY <1>0, <2>1 DEF NoCall
<1>3. CASE CacheHit(c) \/ CacheMiss(c) \/ FillCache(c)
  BY <1>0, <1>3 DEF CacheHit, CacheMiss, FillCache, Call
<1> QED
  BY <1>1, <1>2, <1>3 DEF ServerStep

\* A save that is queued at the end leaves the first one first.
LEMMA EnqueueKeepsHead ==
  ASSUME PanelInv, NEW m \in Panels, NEW k \in Keys, NEW v \in Values, Enqueue(m, k, v)
  PROVE  /\ \A n \in Panels : queue[n] # <<>> => Head1(n)' = Head1(n)
         /\ \A i \in DOMAIN queue[m] : i \in DOMAIN queue'[m] /\ queue'[m][i] = queue[m][i]
         /\ \E i \in DOMAIN queue'[m] :
              /\ queue'[m][i] = [key |-> k, value |-> v]
              /\ i > 1 \/ queue[m] = <<>>
<1> DEFINE s == [key |-> k, value |-> v]
           q == queue[m]
<1>1. q \in Seq(Save) /\ s \in Save /\ queue \in [Panels -> Seq(Save)]
  BY DEF PanelInv, PanelType, QueueType, Save
<1>2. queue' = [queue EXCEPT ![m] = Append(q, s)]
  BY DEF Enqueue
<1>3. /\ \A n \in Panels \ {m} : queue'[n] = queue[n]
      /\ queue'[m] = Append(q, s)
  BY <1>1, <1>2
<1> HIDE DEF s, q
<1>4. /\ \A i \in DOMAIN q : i \in DOMAIN Append(q, s) /\ Append(q, s)[i] = q[i]
      /\ Len(q) + 1 \in DOMAIN Append(q, s) /\ Append(q, s)[Len(q) + 1] = s
      /\ q # <<>> => 1 \in DOMAIN q /\ Len(q) + 1 > 1
  BY <1>1
<1>5. \A n \in Panels : queue[n] # <<>> => Head1(n)' = Head1(n)
  BY <1>3, <1>4 DEF Head1, q
<1> QED
  BY <1>3, <1>4, <1>5 DEF q, s

\* The PUT of a panel and its save start and end together.
LEMMA LinkedStep ==
  ASSUME PanelInv, Linked, Next PROVE Linked'
<1> USE DEF PanelInv
<1>0. /\ Panels \subseteq Callers /\ Readers \subseteq Callers /\ Panels \cap Readers = {}
      /\ call \in [Callers -> Call] /\ job \in [Panels -> JobStep]
      /\ queue \in [Panels -> Seq(Save)]
  BY CallersAssumption DEF StoreType, PanelType, QueueType
<1>1. CASE OpenPanel
  <2>1. /\ mount + 1 \in Panels /\ mount + 1 > mount
        /\ call' = [call EXCEPT ![mount + 1] = [NoCall EXCEPT !.step = "getting"]]
        /\ UNCHANGED <<queue, job>>
    BY <1>1, NextPanel DEF OpenPanel, PanelType, ScreenType
  <2>2. job[mount + 1] # "saving"
    BY <2>1 DEF Coherent
  <2>3. call'[mount + 1].key = None /\ \A c \in Callers \ {mount + 1} : call'[c] = call[c]
    BY <1>0, <2>1, NoCallTyped DEF Call
  <2>4. \A c \in Callers : Putting(c)' <=> c \in Panels /\ job'[c] = "saving"
    BY <1>0, <2>1, <2>2, <2>3 DEF Linked, Putting, InFlight
  <2>5. \A m \in Panels : job'[m] = "saving" => call'[m].key = Head1(m)'.key
    BY <1>0, <2>1, <2>2, <2>3 DEF Linked, Head1
  <2> QED
    BY <2>4, <2>5 DEF Linked
<1>2. ASSUME NEW m \in Panels, LoadFields(m) \/ LoadFails(m) PROVE Linked'
  <2>1. /\ call[m].key = None /\ UNCHANGED <<queue, job>>
        /\ call' = [call EXCEPT ![m] = NoCall]
    BY <1>2 DEF LoadFields, LoadFails, EndCall
  <2>2. ~Putting(m) /\ ~Putting(m)'
    BY <1>0, <2>1, NoCallTyped DEF Putting, InFlight
  <2>3. \A c \in Callers \ {m} : call'[c] = call[c]
    BY <1>0, <2>1
  <2> QED
    BY <1>0, <2>1, <2>2, <2>3 DEF Linked, Putting, InFlight, Head1
<1>3. ASSUME NEW m \in Panels, queue[m] # <<>>,
             SendPut(m, Head1(m).key, Head1(m).value), Proceed(m, "saving")
      PROVE  Linked'
  <2> DEFINE p == [NoCall EXCEPT !.step = "sent", !.key = Head1(m).key,
                                 !.value = Head1(m).value]
  <2>1. call' = [call EXCEPT ![m] = p]
    BY <1>3 DEF SendPut
  <2>2. p.step = "sent" /\ p.key = Head1(m).key
    BY DEF NoCall
  <2> HIDE DEF p
  <2>3. /\ job'[m] = "saving" /\ queue' = queue /\ Head1(m).key \in Keys
        /\ \A n \in Panels \ {m} : job'[n] = job[n]
        /\ \A c \in Callers \ {m} : call'[c] = call[c]
        /\ call'[m] = p
    BY <1>0, <1>3, <2>1, HeadTyped DEF Proceed
  <2>4. \A c \in Callers : Putting(c)' <=> c \in Panels /\ job'[c] = "saving"
    BY <1>0, <2>2, <2>3, NoneAssumption DEF Linked, Putting, InFlight
  <2>5. \A n \in Panels : job'[n] = "saving" => call'[n].key = Head1(n)'.key
    BY <1>0, <2>2, <2>3 DEF Linked, Head1
  <2> QED
    BY <2>4, <2>5 DEF Linked
<1>4. ASSUME NEW m \in Panels, queue[m] # <<>>, UNCHANGED call,
             job[m] # "saving",
             Settle(m) \/ \E step \in JobStep \ {"saving"} : Proceed(m, step)
      PROVE  Linked'
  <2>1. job'[m] # "saving"
    BY <1>0, <1>4 DEF Settle, Proceed
  <2>2. \A n \in Panels \ {m} : queue'[n] = queue[n] /\ job'[n] = job[n]
    BY <1>4, QueueMoves
  <2> QED
    BY <1>0, <1>4, <2>1, <2>2 DEF Linked, Putting, InFlight, Head1
<1>5. ASSUME NEW m \in Panels, queue[m] # <<>>, EndCall(m),
             Settle(m) \/ Proceed(m, "resetting")
      PROVE  Linked'
  <2>1. job'[m] # "saving" /\ ~Putting(m)'
    BY <1>0, <1>5, NoCallTyped DEF Settle, Proceed, EndCall, Putting, InFlight
  <2>2. \A n \in Panels \ {m} : queue'[n] = queue[n] /\ job'[n] = job[n]
    BY <1>5, QueueMoves DEF JobStep
  <2>3. \A c \in Callers \ {m} : call'[c] = call[c]
    BY <1>0, <1>5 DEF EndCall
  <2> QED
    BY <1>0, <2>1, <2>2, <2>3 DEF Linked, Putting, InFlight, Head1
<1>6. ASSUME NEW k \in Keys, NEW v \in Values, mount \in Panels, Enqueue(mount, k, v),
             UNCHANGED <<call, job>>
      PROVE  Linked'
  <2>1. \A n \in Panels : job[n] = "saving" => Head1(n)' = Head1(n)
    BY <1>6, EnqueueKeepsHead DEF Coherent
  <2> QED
    BY <1>6, <2>1 DEF Linked, Putting, InFlight
<1>7. ASSUME UNCHANGED <<call, job, queue>> PROVE Linked'
  BY <1>7 DEF Linked, Putting, InFlight, Head1
<1>8. ASSUME NEW m \in Panels, QueueStep(m) PROVE Linked'
  <2>0. queue[m] # <<>>
    BY <1>8, QueueStepMoves
  <2>1. CASE SkipSave(m) \/ AskSave(m) \/ ResetForSave(m) \/ FinishSave(m)
    BY <1>4, <2>0, <2>1 DEF SkipSave, AskSave, ResetForSave, FinishSave, Waiting, storeVars,
       JobStep
  <2>2. CASE StartSave(m)
    BY <1>3, <2>0, <2>2 DEF StartSave
  <2>3. CASE TakeAnswer(m) \/ TakeFailure(m)
    BY <1>5, <2>0, <2>3 DEF TakeAnswer, TakeFailure, AfterPut
  <2> QED
    BY <1>8, <2>1, <2>2, <2>3 DEF QueueStep
<1>9. CASE ConfirmOnce \/ DeclineSave
  BY <1>4, <1>9, ShownPanel DEF ConfirmOnce, DeclineSave, AskedSave, storeVars, JobStep
<1>10. CASE ConfirmSave
  BY <1>3, <1>10, ShownPanel DEF ConfirmSave, AskedSave
<1>11. CASE BlurField
  <2>1. mount \in Panels /\ focus \in Keys /\ text[focus] \in Values
    BY <1>11, ShownPanel DEF BlurField, PanelType, ScreenType, Config
  <2> QED
    BY <1>6, <1>11, <2>1 DEF BlurField, storeVars
<1>12. ASSUME NEW k \in ModeKeys, NEW v \in Choices[k], PickMode(k, v) PROVE Linked'
  <2>1. k \in Keys /\ v \in Values /\ mount \in Panels
    BY <1>12, ChoicesAssumption, SwitchKeysAssumption, ShownPanel DEF Keys, PickMode
  <2> QED
    BY <1>6, <1>12, <2>1 DEF PickMode, storeVars
<1>13. CASE \/ LeavePanel \/ ReverifyFails \/ AskButton \/ AnswerButton
            \/ \E k \in Keys \ ModeKeys : \E v \in Choices[k] : EditField(k, v)
  BY <1>7, <1>13 DEF LeavePanel, ReverifyFails, AskButton, AnswerButton, EditField,
                    storeVars
<1>14. ASSUME NEW m \in Panels, Serve(m) PROVE Linked'
  <2>1. UNCHANGED <<job, queue>>
    BY <1>14 DEF Serve
  <2>2. /\ InFlight(m) /\ InFlight(m)' /\ call'[m].key = call[m].key
        /\ \A d \in Callers \ {m} : call'[d] = call[d]
    BY <1>0, <1>14, ServerKeepsKey DEF Serve
  <2> QED
    BY <1>0, <2>1, <2>2 DEF Linked, Putting, InFlight, Head1
<1>15. ASSUME NEW r \in Readers, Reader(r) PROVE Linked'
  <2>1. /\ \A d \in Callers \ {r} : call'[d] = call[d]
        /\ r \notin Panels /\ r \in Callers /\ ~Putting(r)'
        /\ UNCHANGED <<job, queue>>
    BY <1>0, <1>15, NoCallTyped
       DEF Reader, ReaderMisses, ReaderFills, Putting, InFlight, NoCall, panelVars
  <2> QED
    BY <1>0, <2>1 DEF Linked, Putting, InFlight, Head1
<1> QED
  BY <1>1, <1>2, <1>8, <1>9, <1>10, <1>11, <1>12, <1>13, <1>14, <1>15
     DEF Next, UserAnswers, Runs

\* When the first save settles, what else is queued stays queued.
LEMMA SettleKeepsPending ==
  ASSUME PanelInv, mount \in Panels, queue[mount] # <<>>, Settle(mount), mount' = mount,
         NEW k \in Keys, text'[k] = text[k], Pending(k)
  PROVE  \/ Pending(k)'
         \/ /\ job[mount] \in {"idle", "asking", "asking again"}
            /\ Head1(mount).key = k /\ Head1(mount).value = text[k]
<1> DEFINE q == queue[mount]
           s == [key |-> k, value |-> text[k]]
<1>1. q \in Seq(Save) /\ queue \in [Panels -> Seq(Save)] /\ job \in [Panels -> JobStep]
  BY DEF PanelInv, PanelType, QueueType
<1>2. PICK i \in DOMAIN q : /\ q[i] = s
                            /\ i > 1 \/ job[mount] \in {"idle", "asking", "asking again"}
  BY DEF Pending
<1>3. queue'[mount] = Tail(q) /\ job'[mount] = "idle"
  BY <1>1 DEF Settle
<1>4. CASE i > 1
  <2>1. i - 1 \in DOMAIN Tail(q) /\ Tail(q)[i - 1] = q[i]
    BY <1>1, <1>4
  <2> QED
    BY <1>2, <1>3, <2>1 DEF Pending
<1>5. CASE ~(i > 1)
  <2>1. i = 1
    BY <1>1, <1>5
  <2>2. Head1(mount) = s
    BY <1>2, <2>1 DEF Head1
  <2>3. Head1(mount).key = k /\ Head1(mount).value = text[k]
    BY <2>2
  <2> QED
    BY <1>2, <1>5, <2>3
<1> QED
  BY <1>4, <1>5

\* Without mishaps only the shown panel has saves, and no other call writes.
LEMMA OneSaver ==
  ASSUME PanelInv, Linked, OneQueue
  PROVE  /\ \A m \in Panels : queue[m] # <<>> => m = mount
         /\ \A c \in Callers : Putting(c) => c = mount /\ c \in Panels /\ queue[c] # <<>>
         /\ \A c \in Callers :
              call[c].step \in {"sent", "read", "truncated", "written", "failed"}
                => Putting(c)
<1>1. \A c \in Callers :
        call[c].step \in {"sent", "read", "truncated", "written", "failed"} => Putting(c)
  BY NoneAssumption DEF PanelInv, StoreType, Putting, InFlight
<1> QED
  BY <1>1 DEF OneQueue, Idle, Linked, PanelInv, Coherent

\* A call that reads the configuration for the shown panel finds what is stored.
LEMMA ReadsTheFile ==
  ASSUME Inv, Linked, OneQueue, mishaps = {}, mount \in Panels,
         call[mount].step \in {"getting", "loading"}
  PROVE  /\ ~torn /\ cache \in {None, stored}
         /\ call[mount].step = "loading" => call[mount].seen = stored
<1>1. mount \in Callers
  BY CallersAssumption
<1>2. \A c \in Callers : call[c].step \notin {"truncated", "written"}
  BY OneSaver DEF Inv
<1> QED
  BY <1>1, <1>2 DEF Inv, FreshInv

\* The server's steps for the shown panel: it writes the key that is saved,
\* and answers with what is stored.
LEMMA ShownServe ==
  ASSUME Inv, Linked, OneQueue, Knows, Shows, mishaps = {}, mishaps' = {},
         NEW m \in Panels, Serve(m)
  PROVE  OneQueue' /\ Knows' /\ Shows'
<1> USE DEF Inv
<1>0. /\ Panels \subseteq Callers /\ m \in Callers /\ m \in Panels
      /\ view # "closed" => mount \in Panels
      /\ UNCHANGED <<view, mount, text, focus, queue, job, lastSaved, refused>>
  BY ShownPanel, CallersAssumption DEF Serve
<1>1. /\ InFlight(m) /\ InFlight(m)' /\ call'[m].key = call[m].key
      /\ \A d \in Callers \ {m} : call'[d] = call[d]
  BY <1>0, ServerKeepsKey DEF Serve, PanelInv
<1>2. \A k \in Keys : Pending(k)' <=> Pending(k)
  BY <1>0 DEF Pending
<1>3. CASE WriteFile(m)
  <2>1. call[m].step \in {"read", "truncated"} /\ call[m].key \in Keys
    BY <1>0, <1>3 DEF WriteFile, PanelInv, StoreType
  <2>2. m = mount /\ queue[m] # <<>> /\ Putting(m) /\ job[m] = "saving"
        /\ call[m].key = Head1(m).key
    BY <1>0, <2>1, OneSaver DEF Linked
  <2>3. \A k \in Keys \ {call[m].key} : stored'[k] = stored[k]
    BY <1>0, <1>3, <2>1 DEF WriteFile, WrittenBack, KeptInv, Snapshots
  <2>4. call'[m].step = "written"
    BY <1>0, <1>3, NoCallTyped DEF WriteFile, PanelInv, StoreType, NoCall
  <2>5. OneQueue'
    BY <1>0, <2>4, <2>2 DEF OneQueue, Idle
  <2>6. Knows'
    BY <1>0, <1>1, <2>1, <2>2, <2>3, <2>4 DEF Knows, Putting
  <2>7. Shows'
    BY <1>0, <1>2, <2>2, <2>3 DEF Shows, Head1
  <2> QED
    BY <2>5, <2>6, <2>7
<1>4. CASE ~WriteFile(m)
  <2>1. stored' = stored
    BY <1>4 DEF Serve, ServerStep, ReadFile, WriteDenied, Truncate, ClearCache, CacheHit,
       CacheMiss, FillCache
  <2>2. Shows'
    BY <1>0, <1>2, <2>1 DEF Shows, Head1
  <2>3. CASE m # mount
    BY <1>0, <1>1, <2>1, <2>2, <2>3 DEF OneQueue, Knows, Idle, Putting, InFlight
  <2>4. CASE m = mount
    <3>1. call[m] \in Call
      BY <1>0 DEF PanelInv, StoreType
    <3>2. call'[m].step = "answered" => call'[m].seen = stored
      <4>1. CASE CacheHit(m)
        BY <1>0, <2>4, <3>1, <4>1, ReadsTheFile DEF CacheHit, Call, PanelInv, StoreType
      <4>2. CASE FillCache(m)
        BY <1>0, <2>4, <3>1, <4>2, ReadsTheFile
           DEF FillCache, Advance, Call, PanelInv, StoreType
      <4>3. CASE ~CacheHit(m) /\ ~FillCache(m)
        BY <1>0, <1>4, <3>1, <4>3
           DEF Serve, ServerStep, ReadFile, WriteDenied, Truncate, ClearCache, CacheMiss,
               Advance, Call, PanelInv, StoreType
      <4> QED
        BY <4>1, <4>2, <4>3
    <3>3. /\ call[m].step \in {"written", "getting", "loading", "answered"}
               => call'[m].step \in {"written", "getting", "loading", "answered"}
      BY <1>0, <1>4, <3>1
         DEF Serve, ServerStep, ReadFile, WriteDenied, Truncate, ClearCache, CacheHit,
             CacheMiss, FillCache, Advance, Call, PanelInv, StoreType
    <3>4. OneQueue'
      BY <1>0, <2>1, <2>4, <3>2 DEF OneQueue, Idle
    <3>5. Knows'
      BY <1>0, <1>1, <2>1, <2>4, <3>3 DEF Knows, Putting
    <3> QED
      BY <2>2, <3>4, <3>5
  <2> QED
    BY <2>3, <2>4
<1> QED
  BY <1>3, <1>4

\* The steps of the shown panel's queue.
LEMMA ShownQueue ==
  ASSUME Inv, Linked, OneQueue, Knows, Shows, mishaps = {},
         NEW m \in Panels, QueueStep(m)
  PROVE  OneQueue' /\ Knows' /\ Shows'
<1> USE DEF Inv
<1>0. /\ queue[m] # <<>> /\ m = mount /\ m \in Callers
      /\ Settle(m) \/ \E step \in JobStep : Proceed(m, step)
  BY QueueStepMoves, OneSaver, CallersAssumption
<1>1. /\ UNCHANGED <<stored, view, mount, focus>>
      /\ queue \in [Panels -> Seq(Save)] /\ job \in [Panels -> JobStep]
      /\ lastSaved \in [Panels -> Config] /\ call \in [Callers -> Call]
  BY DEF QueueStep, SkipSave, StartSave, AskSave, TakeAnswer, TakeFailure, ResetForSave,
     FinishSave, SendPut, storeVars, PanelInv, PanelType, QueueType, ScreenType, StoreType
<1>2. \A n \in Panels \ {m} : queue'[n] = queue[n]
  BY <1>0, QueueMoves
<1>3. view # "loading"
  BY <1>0 DEF OneQueue, Idle
<1>4. job[m] # "saving" /\ view = "open" =>
        ~InFlight(m) /\ \A k \in Keys : lastSaved[m][k] = stored[k]
  BY <1>0 DEF Knows, Linked, InFlight
<1>5. CASE SkipSave(m)
  <2>1. /\ UNCHANGED <<call, text, refused, lastSaved>> /\ job[m] = "idle"
        /\ Settle(m) /\ lastSaved[m][Head1(m).key] = Head1(m).value
    BY <1>5 DEF SkipSave, storeVars, Waiting, Unchanged
  <2>2. OneQueue' /\ Knows'
    BY <1>0, <1>1, <1>2, <1>3, <2>1 DEF OneQueue, Knows, Idle, Putting, InFlight
  <2>3. Shows'
    BY <1>0, <1>1, <1>4, <2>1, SettleKeepsPending DEF Shows
  <2> QED
    BY <2>2, <2>3
<1>6. CASE StartSave(m)
  <2>1. /\ UNCHANGED <<text, refused, lastSaved>> /\ job[m] = "idle"
        /\ job'[m] = "saving" /\ queue' = queue
        /\ SendPut(m, Head1(m).key, Head1(m).value)
    BY <1>1, <1>6 DEF StartSave, Waiting, Proceed
  <2>2. call'[m].step = "sent" /\ call'[m].key = Head1(m).key /\ call'[m].key \in Keys
    BY <1>0, <1>1, <2>1, HeadTyped, NoCallTyped DEF SendPut, NoCall, PanelInv
  <2>3. OneQueue' /\ Knows'
    BY <1>0, <1>1, <1>2, <1>3, <1>4, <2>1, <2>2, NoneAssumption
       DEF OneQueue, Knows, Idle, Putting, InFlight
  <2>4. \A k \in Keys : Pending(k) => Pending(k)' \/ Head1(m).key = k
    BY <1>0, <1>1, <2>1 DEF Pending, Head1
  <2>5. Shows'
    BY <1>0, <1>1, <2>1, <2>4 DEF Shows, Head1
  <2> QED
    BY <2>3, <2>5
<1>7. CASE AskSave(m)
  <2>1. /\ UNCHANGED <<call, text, refused, lastSaved, queue>> /\ job[m] = "idle"
        /\ job'[m] = "asking"
    BY <1>1, <1>7 DEF AskSave, storeVars, Waiting, Proceed
  <2>2. OneQueue' /\ Knows'
    BY <1>0, <1>1, <1>3, <2>1 DEF OneQueue, Knows, Idle, Putting, InFlight
  <2>3. Shows'
    BY <1>0, <1>1, <2>1 DEF Shows, Pending
  <2> QED
    BY <2>2, <2>3
<1>8. CASE TakeAnswer(m)
  <2> DEFINE key == call[m].key
             Update(settings) == [j \in Keys |-> IF j \in Taken(key) THEN call[m].seen[j]
                                                 ELSE settings[j]]
  <2>1. /\ job[m] = "saving" /\ call[m].step = "answered" /\ EndCall(m)
        /\ lastSaved' = [lastSaved EXCEPT ![m] = Update(lastSaved[m])]
        /\ view = "open" => text' = Update(text) /\ refused' = refused \ Taken(key)
        /\ Settle(m) \/ Proceed(m, "resetting")
    BY <1>0, <1>8 DEF TakeAnswer, AfterPut, Open
  <2>2. key \in Taken(key) /\ key = Head1(m).key /\ ~InFlight(m)'
    BY <1>0, <1>1, <2>1, NoCallTyped DEF Taken, EndCall, InFlight, Linked
  <2>3. view = "open" => \A k \in Taken(key) : call[m].seen[k] = stored[k]
    BY <1>0, <2>1 DEF OneQueue
  <2>4. \A k \in Keys : lastSaved'[m][k] = IF k \in Taken(key) THEN call[m].seen[k]
                                           ELSE lastSaved[m][k]
    BY <1>1, <2>1
  <2>5. view = "open" => \A k \in Keys :
          text'[k] = IF k \in Taken(key) THEN call[m].seen[k] ELSE text[k]
    BY <2>1
  <2> HIDE DEF key, Update
  <2>6. OneQueue' /\ Knows'
    BY <1>0, <1>1, <1>2, <1>3, <2>1, <2>2, <2>3, <2>4
       DEF OneQueue, Knows, Idle, InFlight, key
  <2>7. ASSUME view = "open", NEW k \in Keys \ Taken(key), Pending(k)
        PROVE  Pending(k)'
    <3>1. CASE Settle(m)
      BY <1>0, <1>1, <2>1, <2>5, <2>7, <3>1, SettleKeepsPending
    <3>2. CASE Proceed(m, "resetting")
      BY <1>0, <1>1, <2>1, <2>5, <2>7, <3>2 DEF Proceed, Pending
    <3> QED
      BY <2>1, <3>1, <3>2
  <2>8. Shows'
    BY <1>0, <1>1, <2>1, <2>2, <2>3, <2>5, <2>7 DEF Shows
  <2> QED
    BY <2>6, <2>8
<1>9. CASE TakeFailure(m)
  <2>1. /\ job[m] = "saving" /\ call[m].step = "failed" /\ EndCall(m) /\ Settle(m)
        /\ view = "open" => refused' = refused \cup {call[m].key}
        /\ UNCHANGED <<text, lastSaved>>
    BY <1>0, <1>9 DEF TakeFailure, Open
  <2>2. call[m].key = Head1(m).key /\ ~InFlight(m)'
    BY <1>0, <1>1, <2>1, NoCallTyped DEF EndCall, InFlight, Linked
  <2>3. OneQueue' /\ Knows'
    BY <1>0, <1>1, <1>2, <1>3, <2>1, <2>2 DEF OneQueue, Knows, Idle, InFlight
  <2>4. Shows'
    BY <1>0, <1>1, <2>1, <2>2, SettleKeepsPending DEF Shows
  <2> QED
    BY <2>3, <2>4
<1>10. CASE ResetForSave(m) \/ FinishSave(m)
  <2>1. /\ UNCHANGED <<call, text, refused, lastSaved>>
        /\ job[m] \in {"resetting", "finishing"}
        /\ Settle(m) \/ Proceed(m, "finishing")
    BY <1>10 DEF ResetForSave, FinishSave, storeVars
  <2>2. OneQueue' /\ Knows'
    BY <1>0, <1>1, <1>2, <1>3, <1>4, <2>1 DEF OneQueue, Knows, Idle, InFlight
  <2>3. ASSUME NEW k \in Keys, Pending(k) PROVE Pending(k)'
    <3>1. CASE Settle(m)
      BY <1>0, <1>1, <2>1, <2>3, <3>1, SettleKeepsPending
    <3>2. CASE Proceed(m, "finishing")
      BY <1>0, <1>1, <2>1, <2>3, <3>2 DEF Proceed, Pending
    <3> QED
      BY <2>1, <3>1, <3>2
  <2>4. Shows'
    BY <1>0, <1>1, <2>1, <2>3 DEF Shows
  <2> QED
    BY <2>2, <2>4
<1> QED
  BY <1>5, <1>6, <1>7, <1>8, <1>9, <1>10 DEF QueueStep

\* What the user does, and what loads the shown panel.
LEMMA ShownUser ==
  ASSUME Inv, Linked, OneQueue, Knows, Shows, mishaps = {}, mishaps' = {},
         \/ OpenPanel \/ LeavePanel \/ ReverifyFails \/ BlurField \/ AskButton \/ UserAnswers
         \/ (\E k \in Keys \ ModeKeys : \E v \in Choices[k] : EditField(k, v))
         \/ (\E k \in ModeKeys : \E v \in Choices[k] : PickMode(k, v))
         \/ (\E m \in Panels : LoadFields(m) \/ LoadFails(m))
  PROVE  OneQueue' /\ Knows' /\ Shows'
<1> USE DEF Inv
<1>0. /\ view # "closed" => mount \in Panels
      /\ Panels \subseteq Callers
      /\ queue \in [Panels -> Seq(Save)] /\ job \in [Panels -> JobStep]
      /\ lastSaved \in [Panels -> Config] /\ call \in [Callers -> Call]
      /\ stored \in Config /\ text \in Config
  BY ShownPanel DEF PanelInv, PanelType, QueueType, ScreenType, StoreType
<1>1. CASE OpenPanel
  <2>1. /\ view' = "loading" /\ mount' = mount + 1 /\ mount + 1 \in Panels
        /\ queue' = queue /\ \A m \in Panels : Idle(m)
        /\ call' = [call EXCEPT ![mount + 1] = [NoCall EXCEPT !.step = "getting"]]
    BY <1>1, NextPanel DEF OpenPanel, Note
  <2>2. call'[mount + 1].step = "getting"
    BY <1>0, <2>1, NoCallTyped DEF Call
  <2> QED
    BY <2>1, <2>2 DEF OneQueue, Knows, Shows, Idle
<1>14. ASSUME NEW m \in Panels, call' = [call EXCEPT ![m] = NoCall],
              UNCHANGED <<stored, mount, queue>>,
              view' = view \/ (view = "loading" /\ view' = "broken")
       PROVE  OneQueue'
  <2>1. view # "closed" => call'[mount] \in {call[mount], NoCall}
    BY <1>0, <1>14
  <2> QED
    BY <1>14, <2>1, NoCallTyped DEF OneQueue, Idle
<1>2. ASSUME NEW m \in Panels, LoadFields(m) PROVE OneQueue' /\ Knows' /\ Shows'
  <2>1. /\ call[m].step = "answered" /\ call[m].key = None
        /\ lastSaved' = [lastSaved EXCEPT ![m] = call[m].seen]
        /\ call' = [call EXCEPT ![m] = NoCall]
        /\ UNCHANGED <<stored, mount, focus, queue, job, refused>>
    BY <1>2 DEF LoadFields, EndCall
  <2>2. ~InFlight(m)' /\ InFlight(m) /\ ~Putting(m)
    BY <1>0, <2>1, NoCallTyped DEF InFlight, Putting
  <2>3. CASE view = "loading" /\ m = mount
    <3>1. view' = "open" /\ text' = call[m].seen /\ call[m].seen = stored
      BY <1>2, <2>1, <2>3 DEF LoadFields, OneQueue
    <3> QED
      BY <1>0, <2>1, <2>2, <2>3, <3>1 DEF OneQueue, Knows, Shows, Idle, InFlight
  <2>4. CASE ~(view = "loading" /\ m = mount)
    <3>1. view' = view /\ text' = text
      BY <1>2, <2>4 DEF LoadFields
    <3>2. view = "open" => m # mount
      BY <2>2, <2>4 DEF Knows
    <3>3. view = "open" => call'[mount] = call[mount] /\ lastSaved'[mount] = lastSaved[mount]
      BY <1>0, <2>1, <3>2
    <3>4. Shows'
      BY <2>1, <3>1 DEF Shows, Pending, Head1
    <3>5. Knows'
      BY <2>1, <3>1, <3>3 DEF Knows, Putting, InFlight
    <3> QED
      BY <1>14, <2>1, <3>1, <3>4, <3>5
  <2> QED
    BY <2>3, <2>4
<1>15. ASSUME NEW m \in Panels, LoadFails(m) PROVE OneQueue' /\ Knows' /\ Shows'
  <2>1. /\ call[m].step = "answered" /\ call[m].key = None
        /\ call' = [call EXCEPT ![m] = NoCall]
        /\ view' = view \/ (view = "loading" /\ view' = "broken")
        /\ UNCHANGED <<stored, mount, text, focus, queue, job, lastSaved, refused>>
    BY <1>15 DEF LoadFails, EndCall
  <2>2. InFlight(m) /\ ~Putting(m)
    BY <2>1 DEF InFlight, Putting
  <2>3. view = "open" => m # mount
    BY <2>2 DEF Knows
  <2>4. view' = "open" => view = "open" /\ call'[mount] = call[mount]
    BY <1>0, <2>1, <2>3
  <2>5. Shows'
    BY <2>1, <2>4 DEF Shows, Pending, Head1
  <2>6. Knows'
    BY <2>1, <2>4 DEF Knows, Putting, InFlight
  <2> QED
    BY <1>14, <2>1, <2>5, <2>6
<1>3. CASE LeavePanel \/ ReverifyFails
  BY <1>3 DEF LeavePanel, ReverifyFails, storeVars, OneQueue, Knows, Shows, Idle
<1>4. ASSUME NEW k \in Keys, NEW v \in Choices[k], EditField(k, v)
      PROVE  OneQueue' /\ Knows' /\ Shows'
  <2>1. /\ text' = [text EXCEPT ![k] = v] /\ focus' = k /\ focus = None
        /\ UNCHANGED <<storeVars, view, mount, queue, job, lastSaved, refused>>
    BY <1>4 DEF EditField
  <2>2. \A j \in Keys \ {k} : text'[j] = text[j]
    BY <1>0, <2>1
  <2>3. Shows'
    BY <2>1, <2>2, NoneAssumption DEF Shows, Pending, Head1, storeVars
  <2> QED
    BY <2>1, <2>3 DEF OneQueue, Knows, Idle, Putting, InFlight, storeVars
<1>5. ASSUME NEW k \in Keys, NEW v \in Values, mount \in Panels, view = "open",
             Enqueue(mount, k, v), text' \in {text, [text EXCEPT ![k] = v]}, text'[k] = v,
             focus' = None, focus \in {None, k},
             UNCHANGED <<storeVars, view, mount, job, lastSaved, refused>>
      PROVE  OneQueue' /\ Knows' /\ Shows'
  <2>1. \A j \in Keys \ {k} : text'[j] = text[j]
    BY <1>0, <1>5 DEF Config
  <2>2. \A n \in Panels \ {mount} : queue'[n] = queue[n]
    BY <1>0, <1>5 DEF Enqueue
  <2>3. /\ queue[mount] # <<>> => Head1(mount)' = Head1(mount)
        /\ \A i \in DOMAIN queue[mount] :
             i \in DOMAIN queue'[mount] /\ queue'[mount][i] = queue[mount][i]
    BY <1>5, EnqueueKeepsHead
  <2>4. \A j \in Keys \ {k} : Pending(j) => Pending(j)'
    BY <1>5, <2>1, <2>3 DEF Pending
  <2>5. Pending(k)'
    <3>1. PICK i \in DOMAIN queue'[mount] : /\ queue'[mount][i] = [key |-> k, value |-> v]
                                            /\ i > 1 \/ queue[mount] = <<>>
      BY <1>5, EnqueueKeepsHead
    <3>2. queue[mount] = <<>> => job[mount] = "idle"
      BY <1>5 DEF PanelInv, Coherent
    <3> QED
      BY <1>5, <3>1, <3>2 DEF Pending
  <2>6. job[mount] = "saving" => queue[mount] # <<>>
    BY <1>5 DEF PanelInv, Coherent
  <2>7. Shows'
    BY <1>5, <2>1, <2>3, <2>4, <2>5, <2>6 DEF Shows, storeVars
  <2> QED
    BY <1>5, <2>2, <2>7 DEF OneQueue, Knows, Idle, Putting, InFlight, storeVars
<1>6. CASE BlurField
  <2>1. focus \in Keys /\ text[focus] \in Values
    BY <1>0, <1>6 DEF BlurField, PanelInv, PanelType, ScreenType, Config
  <2> QED
    BY <1>0, <1>5, <1>6, <2>1 DEF BlurField
<1>7. ASSUME NEW k \in ModeKeys, NEW v \in Choices[k], PickMode(k, v)
      PROVE  OneQueue' /\ Knows' /\ Shows'
  <2>1. k \in Keys /\ v \in Values
    BY ChoicesAssumption, SwitchKeysAssumption DEF Keys
  <2>2. text'[k] = v
    BY <1>0, <1>7, <2>1 DEF PickMode, Config
  <2> QED
    BY <1>0, <1>5, <1>7, <2>1, <2>2 DEF PickMode
<1>8. CASE AskButton \/ AnswerButton
  BY <1>8 DEF AskButton, AnswerButton, storeVars, OneQueue, Knows, Shows, Idle, Pending,
     Putting, InFlight, Head1
<1>9. ASSUME AskedSave, job[mount] \in {"asking", "asking again"}
      PROVE  /\ mount \in Panels /\ queue[mount] # <<>> /\ view = "open" /\ ~InFlight(mount)
             /\ \A k \in Keys : lastSaved[mount][k] = stored[k]
  <2>1. mount \in Panels /\ view = "open" /\ queue[mount] # <<>>
    BY <1>9 DEF AskedSave, PanelInv, Coherent
  <2>2. ~Putting(mount)
    BY <1>0, <1>9, <2>1 DEF Linked
  <2> QED
    BY <2>1, <2>2 DEF Knows, InFlight
<1>10. ASSUME AskedSave PROVE job[mount] \in {"asking", "asking again"}
  BY <1>10, ShownPanel DEF AskedSave
<1>11. CASE ConfirmOnce
  <2>1. /\ mount \in Panels /\ job[mount] = "asking" /\ job'[mount] = "asking again"
        /\ UNCHANGED <<storeVars, queue, view, mount, text, focus, lastSaved, refused>>
    BY <1>0, <1>9, <1>11 DEF ConfirmOnce, Proceed
  <2> QED
    BY <2>1 DEF OneQueue, Knows, Shows, Idle, Pending, Putting, InFlight, storeVars
<1>12. CASE ConfirmSave
  <2>1. /\ mount \in Panels /\ queue[mount] # <<>> /\ job'[mount] = "saving"
        /\ SendPut(mount, Head1(mount).key, Head1(mount).value)
        /\ UNCHANGED <<stored, queue, view, mount, text, focus, lastSaved, refused>>
        /\ view = "open" /\ \A k \in Keys : lastSaved[mount][k] = stored[k]
    BY <1>0, <1>9, <1>10, <1>12 DEF ConfirmSave, Proceed, SendPut
  <2>2. /\ call'[mount].step = "sent" /\ call'[mount].key = Head1(mount).key
        /\ call'[mount].key \in Keys
    BY <1>0, <2>1, HeadTyped, NoCallTyped DEF SendPut, NoCall, PanelInv
  <2>3. OneQueue' /\ Knows'
    BY <2>1, <2>2, NoneAssumption DEF OneQueue, Knows, Idle, Putting, InFlight
  <2>4. ASSUME NEW k \in Keys, Pending(k), Head1(mount).key # k PROVE Pending(k)'
    <3>1. PICK i \in DOMAIN queue[mount] : queue[mount][i] = [key |-> k, value |-> text[k]]
      BY <2>4 DEF Pending
    <3>2. queue[mount] \in Seq(Save) /\ i # 1
      BY <1>0, <2>1, <2>4, <3>1 DEF Head1
    <3>3. i > 1
      BY <3>1, <3>2
    <3> QED
      BY <2>1, <3>1, <3>3 DEF Pending
  <2>5. job[mount] # "saving"
    BY <1>10, <1>12 DEF ConfirmSave
  <2>6. Shows'
    BY <2>1, <2>4, <2>5 DEF Shows, Head1
  <2> QED
    BY <2>3, <2>6
<1>13. CASE DeclineSave
  <2> DEFINE k == Head1(mount).key
  <2>1. /\ mount \in Panels /\ queue[mount] # <<>> /\ view = "open" /\ ~InFlight(mount)
        /\ \A j \in Keys : lastSaved[mount][j] = stored[j]
        /\ job[mount] \in {"asking", "asking again"}
    BY <1>9, <1>10, <1>13 DEF DeclineSave
  <2>2. /\ text' = [text EXCEPT ![k] = lastSaved[mount][k]] /\ refused' = refused \ {k}
        /\ Settle(mount) /\ k \in Keys
        /\ UNCHANGED <<storeVars, view, mount, focus, lastSaved>>
    BY <1>13, <2>1, HeadTyped DEF DeclineSave, PanelInv
  <2>3. text'[k] = stored[k] /\ \A j \in Keys \ {k} : text'[j] = text[j]
    BY <1>0, <2>1, <2>2 DEF Config
  <2>4. \A n \in Panels \ {mount} : queue'[n] = queue[n]
    BY <2>1, <2>2, QueueMoves
  <2>5. OneQueue' /\ Knows'
    BY <2>1, <2>2, <2>4 DEF OneQueue, Knows, Idle, InFlight, storeVars
  <2>6. \A j \in Keys \ {k} : Pending(j) => Pending(j)'
    BY <2>1, <2>2, <2>3, SettleKeepsPending
  <2>7. Shows'
    BY <2>1, <2>2, <2>3, <2>6 DEF Shows, storeVars
  <2> QED
    BY <2>5, <2>7
<1> QED
  BY <1>1, <1>2, <1>3, <1>4, <1>6, <1>7, <1>8, <1>11, <1>12, <1>13, <1>15 DEF UserAnswers

\* Other readers of the configuration show nothing.
LEMMA ShownReader ==
  ASSUME Inv, OneQueue, Knows, Shows, NEW r \in Readers, Reader(r)
  PROVE  OneQueue' /\ Knows' /\ Shows'
<1>1. /\ view # "closed" => mount \in Panels
      /\ UNCHANGED <<view, mount, text, focus, queue, job, lastSaved, refused, stored>>
  BY ShownPanel DEF Reader, panelVars, ReaderMisses, ReaderFills, Inv
<1>2. view # "closed" => call'[mount] = call[mount]
  BY <1>1, CallersAssumption DEF Reader, ReaderMisses, ReaderFills, Inv, PanelInv, StoreType
<1> QED
  BY <1>1, <1>2 DEF OneQueue, Knows, Shows, Idle, Pending, Putting, InFlight, Head1

\* A panel whose saves have all settled shows what the files hold, and knows
\* it, but for the field being edited and the saves that failed, unless a
\* save of an earlier panel, a stale cache or a clash came between.
THEOREM PanelKeepsShowing == Spec => []PanelShowsTheFile
<1> DEFINE IInv == Inv /\ Linked /\ ShownInv
<1>1. Init => IInv
  <2> SUFFICES ASSUME Init PROVE Linked /\ ShownInv
    BY InitInv
  <2>1. \A c \in Callers : ~Putting(c)
    BY NoCallTyped DEF Init, StoreInit, Putting, InFlight
  <2> QED
    BY <2>1 DEF Init, Linked, ShownInv, OneQueue, Knows, Shows, Idle
<1>2. IInv /\ [Next]_vars => IInv'
  <2> SUFFICES ASSUME IInv, [Next]_vars PROVE Linked' /\ ShownInv'
    BY NextInv
  <2>1. CASE UNCHANGED vars
    BY <2>1 DEF vars, storeVars, panelVars, Linked, ShownInv, OneQueue, Knows, Shows, Idle,
       Pending, Putting, InFlight, Head1
  <2>2. CASE Next
    <3>1. Linked'
      BY <2>2, LinkedStep DEF Inv
    <3>2. ASSUME mishaps' = {} PROVE OneQueue' /\ Knows' /\ Shows'
      <4>1. mishaps = {} /\ OneQueue /\ Knows /\ Shows
        BY <2>2, <3>2, MishapsStay DEF Inv, ShownInv
      <4> QED
        BY <2>2, <3>2, <4>1, ShownUser, ShownQueue, ShownServe, ShownReader DEF Next, Runs
    <3> QED
      BY <3>1, <3>2 DEF ShownInv
  <2> QED
    BY <2>1, <2>2
<1>3. ASSUME IInv PROVE PanelShowsTheFile
  <2> SUFFICES ASSUME NEW m \in Panels, mishaps = {}, Open(m), Idle(m)
               PROVE  /\ lastSaved[m] = stored
                      /\ \A k \in Keys \ (refused \cup {focus}) : text[k] = stored[k]
    BY DEF PanelShowsTheFile
  <2>1. m = mount /\ view = "open" /\ queue[m] = <<>> /\ job[m] = "idle"
    BY <1>3 DEF Open, Idle, Inv, PanelInv, Coherent
  <2>2. ~InFlight(m)
    BY <1>3, <2>1, CallersAssumption DEF ShownInv, Knows, Linked
  <2>3. \A k \in Keys : lastSaved[m][k] = stored[k]
    BY <1>3, <2>1, <2>2 DEF ShownInv, Knows, InFlight
  <2>4. lastSaved[m] = stored
    BY <1>3, <2>3 DEF Inv, PanelInv, PanelType, ScreenType, StoreType, Config
  <2>5. \A k \in Keys : ~Pending(k)
    BY <2>1 DEF Pending
  <2> QED
    BY <1>3, <2>1, <2>4, <2>5 DEF ShownInv, Shows
<1> QED
  BY <1>1, <1>2, <1>3, PTL DEF Spec

=============================================================================
