--------------------------- MODULE SettingsStore ---------------------------
(***************************************************************************)
(* The configuration of the server: config/config.yaml, config/.env and    *)
(* the process-wide copy of both that get_settings() caches.               *)
(*                                                                         *)
(* FastAPI runs every handler in a thread of its own, and none of them     *)
(* takes a lock. A PUT reads its whole file, writes it back with one value *)
(* changed, clears the cache and loads it again; any other thread may read *)
(* the configuration through the cache meanwhile.                          *)
(***************************************************************************)
EXTENDS Naturals, FiniteSets

CONSTANTS
  ConfigKeys,  \* the editable keys of config.yaml
  EnvKeys,     \* the editable keys of .env
  Values,
  Default,     \* what LLMConfig gives a key config.yaml does not have
  Canonical,   \* Canonical[v]: how a setting saved as v is read back
  Callers,     \* the requests' senders, at most one call of each at a time
  None         \* no key, no cache

Keys == ConfigKeys \cup EnvKeys
Config == [Keys -> Values]

ASSUME KeysAssumption == ConfigKeys \cap EnvKeys = {}
ASSUME ValuesAssumption == Default \in Values
ASSUME NoneAssumption == None \notin Keys \cup Config
\* Reading back what was read back changes nothing.
ASSUME CanonicalAssumption ==
  /\ Canonical \in [Values -> Values]
  /\ \A v \in Values : Canonical[Canonical[v]] = Canonical[v]

VARIABLES
  stored,    \* the settings the two files hold
  torn,      \* config.yaml is truncated and not yet written again
  cache,     \* what get_settings() has cached, or None
  call,      \* call[c]: the request of c that is under way
  accepted,  \* history: the value last written for each key
  mishaps    \* history: which kinds of unlucky timing have occurred

storeVars == <<stored, torn, cache, call, accepted, mishaps>>

\* A GET has no key. seen is what the call last read: the file it is about
\* to write back, or the settings it will answer with.
Call == [step : {"idle", "sent", "read", "truncated", "written", "getting",
                 "loading", "answered", "failed"},
         key : Keys \cup {None}, value : Values, seen : Config]

NoCall == [step |-> "idle", key |-> None, value |-> Default,
           seen |-> [k \in Keys |-> Default]]

FileOf(k) == IF k \in ConfigKeys THEN ConfigKeys ELSE EnvKeys

InFlight(c) == call[c].step # "idle"
Putting(c) == InFlight(c) /\ call[c].key # None

StoreInit ==
  /\ stored \in {s \in Config : \A k \in EnvKeys : Canonical[s[k]] = s[k]}
  /\ torn = FALSE
  /\ cache = None
  /\ call = [c \in Callers |-> NoCall]
  /\ accepted = stored
  /\ mishaps = {}

-----------------------------------------------------------------------------
(* The calls, step by step. *)

\* History only: that kind of mishap may have occurred in this step.
Note(kind, occurs) ==
  mishaps' = IF occurs THEN mishaps \cup {kind} ELSE mishaps

Advance(c, step) == call' = [call EXCEPT ![c].step = step]

\* PUT /settings or PUT /settings/sources with one key. Two PUTs of the same
\* file under way together clash: either may write back what it read before
\* the other's write.
SendPut(c, k, v) ==
  /\ ~InFlight(c)
  /\ call' = [call EXCEPT ![c] = [NoCall EXCEPT !.step = "sent", !.key = k,
                                                !.value = v]]
  /\ Note("clash", \E d \in Callers : Putting(d)
                                      /\ FileOf(call[d].key) = FileOf(k))
  /\ UNCHANGED <<stored, torn, cache, accepted>>

\* yaml_rt.load(f), or the reading half of set_key(), which each attempt
\* repeats (the last counts). A truncated config.yaml is no mapping:
\* ConfigError.
ReadFile(c) ==
  /\ call[c].step = "sent"
  /\ IF torn /\ call[c].key \in ConfigKeys
     THEN Advance(c, "failed")
     ELSE call' = [call EXCEPT ![c].step = "read", ![c].seen = stored]
  /\ UNCHANGED <<stored, torn, cache, accepted, mishaps>>

\* Every retry met a PermissionError; nothing was written.
WriteDenied(c) ==
  /\ call[c].step = "read"
  /\ Advance(c, "failed")
  /\ UNCHANGED <<stored, torn, cache, accepted, mishaps>>

\* path.open("w") of update_llm_config().
Truncate(c) ==
  /\ call[c].step = "read"
  /\ call[c].key \in ConfigKeys
  /\ torn' = TRUE
  /\ Advance(c, "truncated")
  /\ UNCHANGED <<stored, cache, accepted, mishaps>>

\* Mutant of WrittenBack: the file is written anew from the given field alone.
WrittenBackAlone(p) ==
  [k \in Keys |->
     IF k \notin FileOf(p.key) THEN stored[k]
     ELSE IF k = p.key THEN p.value ELSE Default]

\* The settings after call p has written its file back: the other file is
\* left alone, the other keys of its own file are as p read them.
WrittenBack(p) ==
  [k \in Keys |->
     IF k \notin FileOf(p.key) THEN stored[k]
     ELSE IF k # p.key THEN p.seen[k]
     ELSE IF k \in EnvKeys THEN Canonical[p.value] ELSE p.value]

\* yaml_rt.dump() into the truncated file, or the rename that ends set_key().
\* A load that is under way may have read the file before: a race.
WriteFile(c) ==
  LET p == call[c] IN
  /\ p.step = IF p.key \in ConfigKeys THEN "truncated" ELSE "read"
  /\ stored' = WrittenBack(p)
  /\ torn' = (torn /\ p.key \notin ConfigKeys)
  /\ accepted' = [accepted EXCEPT ![p.key] = stored'[p.key]]
  /\ Note("race", \E d \in Callers : call[d].step = "loading")
  /\ call' = [call EXCEPT ![c] = [NoCall EXCEPT !.step = "written",
                                                !.key = p.key]]
  /\ UNCHANGED cache

\* Mutant of ClearCache: the settings are read again without clearing the cache.
ClearCacheForgotten(c) ==
  /\ call[c].step = "written"
  /\ Advance(c, "getting")
  /\ UNCHANGED <<stored, torn, cache, accepted, mishaps>>

\* reload_settings(): get_settings.cache_clear().
ClearCache(c) ==
  /\ call[c].step = "written"
  /\ cache' = None
  /\ Advance(c, "getting")
  /\ UNCHANGED <<stored, torn, accepted, mishaps>>

\* Mutant of Loaded: no defaults for the keys of an empty config.yaml.
LoadedBare == [k \in (IF torn THEN EnvKeys ELSE Keys) |-> stored[k]]

\* Settings(env=EnvSettings(), config=load_config()). An empty config.yaml
\* is a valid one with every key left out.
Loaded == [k \in Keys |-> IF torn /\ k \in ConfigKeys THEN Default
                          ELSE stored[k]]

\* get_settings() finds the settings cached.
CacheHit(c) ==
  /\ call[c].step = "getting"
  /\ cache # None
  /\ call' = [call EXCEPT ![c].step = "answered", ![c].seen = cache]
  /\ UNCHANGED <<stored, torn, cache, accepted, mishaps>>

\* get_settings() does not: it reads the files, outside any lock.
CacheMiss(c) ==
  /\ call[c].step = "getting"
  /\ cache = None
  /\ call' = [call EXCEPT ![c].step = "loading", ![c].seen = Loaded]
  /\ UNCHANGED <<stored, torn, cache, accepted, mishaps>>

\* lru_cache keeps the value it gets first, and answers with its own.
FillCache(c) ==
  /\ call[c].step = "loading"
  /\ cache' = IF cache = None THEN call[c].seen ELSE cache
  /\ Advance(c, "answered")
  /\ UNCHANGED <<stored, torn, accepted, mishaps>>

\* Any other use of get_settings(), by a query or a connection check. One
\* that finds the settings cached changes nothing.
ReaderMisses(r) ==
  /\ ~InFlight(r)
  /\ cache = None
  /\ call' = [call EXCEPT ![r] = [NoCall EXCEPT !.step = "loading",
                                                !.seen = Loaded]]
  /\ UNCHANGED <<stored, torn, cache, accepted, mishaps>>

ReaderFills(r) ==
  /\ call[r].step = "loading"
  /\ cache' = IF cache = None THEN call[r].seen ELSE cache
  /\ call' = [call EXCEPT ![r] = NoCall]
  /\ UNCHANGED <<stored, torn, accepted, mishaps>>

\* The sender takes the answer.
EndCall(c) == call' = [call EXCEPT ![c] = NoCall]

\* A step of the server on behalf of c.
ServerStep(c) ==
  \/ ReadFile(c)
  \/ WriteDenied(c)
  \/ Truncate(c)
  \/ WriteFile(c)
  \/ ClearCache(c)
  \/ CacheHit(c)
  \/ CacheMiss(c)
  \/ FillCache(c)
=============================================================================
