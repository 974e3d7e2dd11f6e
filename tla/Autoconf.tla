------------------------------- MODULE Autoconf -------------------------------
(***************************************************************************)
(* autoconfig.py: at every boot, what a marker file does not list yet is   *)
(* swept into config.yaml and .env, and listed.  A section is done once,   *)
(* so what the operator changes afterwards stays.                          *)
(***************************************************************************)
EXTENDS Naturals

CONSTANTS MaxSweeps   \* bound on boots

Sections == {"core", "whatsapp", "slack", "telegram"}

\* Where a section keeps its settings.
InConfig == {"core", "slack"}
InEnv    == {"whatsapp", "slack"}

VARIABLES
  inUse,      \* platforms whose tokens are in the environment, and "core"
  config,     \* sections whose config.yaml settings are right
  env,        \* sections whose .env settings are filled
  readable,   \* config.yaml parses as a mapping
  done,       \* the marker file
  sweeps

confVars == <<inUse, config, env, readable, done, sweeps>>

AutoconfInit ==
  /\ inUse \in {u \in SUBSET Sections : "core" \in u}
  /\ config \in SUBSET InConfig /\ env \in SUBSET InEnv
  /\ readable \in BOOLEAN
  /\ done = {} /\ sweeps = 0

\* Bug: the section is listed whether or not config.yaml was written.
ListedAnyway(todo, wrote) == todo

\* The sections recorded: all but core when config.yaml could not be written.
Recorded(todo, wrote) == IF wrote THEN todo ELSE todo \ {"core"}

\* What plan() wants written to config.yaml for the sections to do.  A file
\* that cannot be read is an empty one to it: everything is wanted.
Wanted(todo) == (todo \cap InConfig) \ (IF readable THEN config ELSE {})

\* maybe_autoconfigure.  A marker that cannot be read lists nothing.  Only .env
\* keys that are unset are filled; an unreadable config.yaml is not touched,
\* which counts as a write that failed; each of the writes may fail.
Sweep ==
  /\ sweeps < MaxSweeps
  /\ sweeps' = sweeps + 1
  /\ \E listed \in {done, {}} :
     LET todo == inUse \ listed IN
     \E wrote \in IF Wanted(todo) = {} THEN {TRUE} ELSE {readable, FALSE} :
       /\ config' = IF wrote THEN config \cup Wanted(todo) ELSE config
       /\ done' \in {done, IF todo = {} THEN done ELSE listed \cup Recorded(todo, wrote)}
       /\ env' \in {env, env \cup (todo \cap InEnv)}
  /\ UNCHANGED <<inUse, readable>>

\* The operator enables a platform, repairs or breaks config.yaml, or
\* changes settings between two boots.
Operator ==
  /\ inUse' \in {inUse \cup u : u \in SUBSET Sections}
  /\ config' \in {config, {}} /\ readable' \in BOOLEAN
  /\ UNCHANGED <<env, done, sweeps>>

AutoconfNext == Sweep \/ Operator

AutoconfSpec == AutoconfInit /\ [][AutoconfNext]_confVars

-----------------------------------------------------------------------------
\* The core chat settings are listed as done only by a boot that could read
\* config.yaml and left them right in it: an unreadable file or a failed write
\* is retried at the next boot, never recorded.
CoreRecorded ==
  [][("core" \in done' /\ "core" \notin done) => (readable /\ "core" \in config')]_confVars
=============================================================================
