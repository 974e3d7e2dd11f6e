-------------------------------- MODULE Cards --------------------------------
(***************************************************************************)
(* The voice cards of social_learning: a cache filled by detached refresh  *)
(* threads, one per session at a time, written to disk under its lock and  *)
(* restored at the next import.                                            *)
(***************************************************************************)
EXTENDS Naturals

CONSTANTS CardSessions,   \* Hermes sessions
          CardTexts,      \* what the service may answer with
          REFRESH_EVERY,
          MaxTurns, MaxReloads   \* bounds

Keys == CardSessions \cup {"__global__"}

VARIABLES
  perSession,  \* social_learning.per_session_card, read again on every use
  cache,       \* _CACHE: key -> its card, or "none"
  counter,     \* _COUNTER: turns of a session
  disk,        \* the cache file's [cache, counter]
  REFRESHING,  \* _REFRESHING
  fetching,    \* per session, threads in _refresh_card
  leaving,     \* per session, threads between _refresh_card and their finally
  starting,    \* the plugin is being registered: no turn yet
  unsaved,     \* history: the last save failed
  unread,      \* history: the restore failed, and nothing was saved since
  reloads

threads  == <<REFRESHING, fetching, leaving>>
cardVars == <<perSession, cache, counter, disk, threads, starting, unsaved, unread,
              reloads>>

Key(s) == IF perSession THEN s ELSE "__global__"

CardsInit ==
  /\ perSession \in BOOLEAN /\ starting = TRUE /\ unread = FALSE
  /\ cache = [k \in Keys |-> "none"] /\ counter = [s \in CardSessions |-> 0]
  /\ disk = [cache |-> cache, counter |-> counter]
  /\ REFRESHING = {} /\ unsaved = FALSE /\ reloads = 0
  /\ fetching = [s \in CardSessions |-> 0] /\ leaving = [s \in CardSessions |-> 0]

\* Bug: a refresh is started whenever one is due.
SpawnAlways(s) ==
  /\ REFRESHING' = REFRESHING \cup {s}
  /\ fetching' = [fetching EXCEPT ![s] = @ + 1]

\* _spawn_refresh: nothing if a thread of the session is at work.
Spawn(s) ==
  IF s \in REFRESHING THEN UNCHANGED <<REFRESHING, fetching>>
  ELSE /\ REFRESHING' = REFRESHING \cup {s}
       /\ fetching' = [fetching EXCEPT ![s] = @ + 1]

\* pre_llm_call: a turn is counted; without a card, or on every
\* REFRESH_EVERY-th turn, a refresh starts unless there is no key.
CardTurn(s) ==
  /\ counter[s] < MaxTurns
  /\ counter' = [counter EXCEPT ![s] = @ + 1] /\ starting' = FALSE
  /\ IF cache[Key(s)] = "none" \/ counter'[s] % REFRESH_EVERY = 0
     THEN Spawn(s) \/ UNCHANGED <<REFRESHING, fetching>>
     ELSE UNCHANGED <<REFRESHING, fetching>>
  /\ UNCHANGED <<perSession, cache, disk, leaving, unsaved, unread, reloads>>

\* warm_recent_sessions: at registration, a recent session without a card.
Warm(s) ==
  /\ starting /\ cache[Key(s)] = "none"
  /\ Spawn(s)
  /\ UNCHANGED <<perSession, cache, counter, disk, leaving, starting, unsaved, unread,
                 reloads>>

\* What _save_cache writes, under the lock that guards both.
Saved == [cache |-> cache', counter |-> counter]

\* The service answers with a card, which is cached and saved in one hold of
\* the lock; the save may fail.
Refreshed(s) ==
  /\ fetching[s] > 0
  /\ \E card \in CardTexts : cache' = [cache EXCEPT ![Key(s)] = card]
  /\ \/ disk' = Saved /\ unsaved' = FALSE /\ unread' = FALSE
     \/ unsaved' = TRUE /\ UNCHANGED <<disk, unread>>
  /\ fetching' = [fetching EXCEPT ![s] = @ - 1]
  /\ leaving' = [leaving EXCEPT ![s] = @ + 1]
  /\ UNCHANGED <<perSession, counter, REFRESHING, starting, reloads>>

\* No transcript, no answer, another status, no prompt_block.
NotRefreshed(s) ==
  /\ fetching[s] > 0
  /\ fetching' = [fetching EXCEPT ![s] = @ - 1]
  /\ leaving' = [leaving EXCEPT ![s] = @ + 1]
  /\ UNCHANGED <<perSession, cache, counter, disk, REFRESHING, starting, unsaved, unread,
                 reloads>>

\* The thread's finally.
Leave(s) ==
  /\ leaving[s] > 0
  /\ leaving' = [leaving EXCEPT ![s] = @ - 1]
  /\ REFRESHING' = REFRESHING \ {s}
  /\ UNCHANGED <<perSession, cache, counter, disk, fetching, starting, unsaved, unread,
                 reloads>>

\* _load_cache: the file is read, or not, or its counters are malformed.  A
\* file that was not read stays, and the next save overwrites all of it.
Load ==
  \/ cache' = disk.cache /\ counter' = disk.counter /\ unread' = FALSE
  \/ cache' = disk.cache /\ counter' = [s \in CardSessions |-> 0] /\ unread' = FALSE
  \/ cache' = [k \in Keys |-> "none"] /\ counter' = [s \in CardSessions |-> 0] /\ unread' = TRUE

\* A restart: threads are gone, and the module is imported anew.
Reload ==
  /\ reloads < MaxReloads
  /\ reloads' = reloads + 1
  /\ Load
  /\ REFRESHING' = {} /\ unsaved' = FALSE /\ starting' = TRUE
  /\ fetching' = [s \in CardSessions |-> 0] /\ leaving' = [s \in CardSessions |-> 0]
  /\ UNCHANGED <<perSession, disk>>

\* The operator edits config.yaml.
ChangeMode ==
  /\ perSession' = ~ perSession
  /\ UNCHANGED <<cache, counter, disk, threads, starting, unsaved, unread, reloads>>

CardsNext ==
  \/ \E s \in CardSessions :
       CardTurn(s) \/ Warm(s) \/ Refreshed(s) \/ NotRefreshed(s) \/ Leave(s)
  \/ Reload \/ ChangeMode

CardsSpec == CardsInit /\ [][CardsNext]_cardVars

-----------------------------------------------------------------------------
\* First part: a session never has two refreshes in flight, and its guard is up exactly
\* while one is: a slow service costs one thread, and no ending, failure or
\* restart leaves a session that never refreshes again.
OneRefresh ==
  \A s \in CardSessions :
    fetching[s] + leaving[s] = IF s \in REFRESHING THEN 1 ELSE 0

\* Second part: unless the save after it failed, a card that is in use is in
\* the file, although several sessions may be refreshing the same key; and the
\* cards in the file are those in use unless the file could not be read: then
\* the process starts without them, and its first save drops them.
CardsKept ==
  ~ unsaved =>
    /\ \A k \in Keys : cache[k] \in {"none", disk.cache[k]}
    /\ ~ unread => disk.cache = cache

\* Refreshes in flight neither pile up nor wedge a session, and whichever of
\* them ends last, the file has the card that is in use.
CardsSound == OneRefresh /\ CardsKept
=============================================================================
