--------------------------------- MODULE Soul ---------------------------------
(***************************************************************************)
(* SOUL.md and its enhancement (soul/__init__.py): /soul enhance, and the  *)
(* automatic attempt that register() makes at the first boot with a seed.  *)
(* An enhancement polls a job for minutes; meanwhile the user may edit the *)
(* file, the other enhancement may finish, the process may restart.        *)
(***************************************************************************)
EXTENDS Naturals

CONSTANTS MaxEdits, MaxBoots   \* bounds

\* A text is the user's n-th version (0: no persona), enhanced or not.
Version(n)  == [of |-> n, enhanced |-> FALSE]
Enhanced(t) == [t EXCEPT !.enhanced = TRUE]
Blank(t)    == t.of = 0

VARIABLES
  soulMd,    \* the file's text
  bak,       \* SOUL.md.bak
  marker,    \* the state file of this path: absent, pending, succeeded, failed, torn
  work,      \* per enhancer: where it is and the text it read
  booting,   \* register() has yet to reach maybe_auto_enhance
  boots, edits,
  asked,     \* history: automatic calls to the service
  rewrote    \* history: the automatic attempt has rewritten SOUL.md

soulVars == <<soulMd, bak, marker, work, booting, boots, edits, asked, rewrote>>

Enhancers == {"auto", "command"}
AtRest    == [step |-> "rest", raw |-> Version(0)]

SoulInit ==
  /\ soulMd \in {Version(0), Version(1)} /\ edits = soulMd.of
  /\ bak = Version(0) /\ marker = "absent"
  /\ work = [w \in Enhancers |-> AtRest]
  /\ booting = TRUE /\ boots = 1 /\ asked = 0 /\ rewrote = FALSE

\* The user saves another version.
Edit ==
  /\ edits < MaxEdits
  /\ edits' = edits + 1
  /\ soulMd' = Version(edits + 1)
  /\ UNCHANGED <<bak, marker, work, booting, boots, asked, rewrote>>

\* Bug: the claim overwrites a marker that is there.
ClaimAgain == marker \in {"absent", "pending", "torn"}

\* The marker is created exclusively, before the thread that it stands for.
Claim == marker = "absent"

\* maybe_auto_enhance: the one automatic attempt, if there is a seed and the
\* claim succeeds.  A marker that says anything else is only reported.
AutoEnhance ==
  /\ booting
  /\ booting' = FALSE
  /\ IF Blank(soulMd) \/ ~ Claim THEN UNCHANGED <<marker, work>>
     ELSE \/ /\ marker' = "pending"
             /\ work' = [work EXCEPT !["auto"].step = "read"]
          \/ UNCHANGED <<marker, work>>   \* the state directory is not writable
  /\ UNCHANGED <<soulMd, bak, boots, edits, asked, rewrote>>

\* /soul enhance.
Command ==
  /\ ~ booting /\ work["command"].step = "rest"
  /\ work' = [work EXCEPT !["command"].step = "read"]
  /\ UNCHANGED <<soulMd, bak, marker, booting, boots, edits, asked, rewrote>>

\* Where an enhancer goes when it gives up: the thread records its failure.
GivenUp(w) == IF w = "auto" THEN "failed" ELSE "rest"

\* The file is read once; what was read is sent and the job is polled.
Read(w) ==
  /\ work[w].step = "read"
  /\ work' = [work EXCEPT ![w] = [step |-> IF Blank(soulMd) THEN GivenUp(w) ELSE "poll",
                                  raw |-> soulMd]]
  /\ asked' = IF w = "auto" /\ ~ Blank(soulMd) THEN asked + 1 ELSE asked
  /\ UNCHANGED <<soulMd, bak, marker, booting, boots, edits, rewrote>>

\* enhance() ends: a persona, or one of its errors.
EnhanceEnds(w) ==
  /\ work[w].step = "poll"
  /\ \E step \in {"backup", GivenUp(w)} : work' = [work EXCEPT ![w].step = step]
  /\ UNCHANGED <<soulMd, bak, marker, booting, boots, edits, asked, rewrote>>

\* The text that was read goes to .bak, then its enhancement to SOUL.md;
\* either write may fail.
Backup(w) ==
  /\ work[w].step = "backup"
  /\ \/ bak' = work[w].raw /\ work' = [work EXCEPT ![w].step = "rewrite"]
     \/ bak' = bak /\ work' = [work EXCEPT ![w].step = GivenUp(w)]
  /\ UNCHANGED <<soulMd, marker, booting, boots, edits, asked, rewrote>>

Rewrite(w) ==
  /\ work[w].step = "rewrite"
  /\ \/ /\ soulMd' = Enhanced(work[w].raw)
        /\ rewrote' = (rewrote \/ w = "auto")
        /\ work' = [work EXCEPT ![w].step = IF w = "auto" THEN "succeeded" ELSE "rest"]
     \/ /\ UNCHANGED <<soulMd, rewrote>>
        /\ work' = [work EXCEPT ![w].step = GivenUp(w)]
  /\ UNCHANGED <<bak, marker, booting, boots, edits, asked>>

\* The thread's last step: its outcome replaces the marker, or cannot.
Record ==
  /\ work["auto"].step \in {"succeeded", "failed"}
  /\ \/ marker' = work["auto"].step
     \/ UNCHANGED marker
  /\ work' = [work EXCEPT !["auto"] = AtRest]
  /\ UNCHANGED <<soulMd, bak, booting, boots, edits, asked, rewrote>>

\* A restart; the exclusive create may have been cut before its content.
SoulRestart ==
  /\ boots < MaxBoots
  /\ boots' = boots + 1
  /\ booting' = TRUE
  /\ work' = [w \in Enhancers |-> AtRest]
  /\ marker' \in IF work["auto"].step = "read" THEN {"pending", "torn"} ELSE {marker}
  /\ UNCHANGED <<soulMd, bak, edits, asked, rewrote>>

SoulNext ==
  \/ Edit \/ AutoEnhance \/ Command \/ Record \/ SoulRestart
  \/ \E w \in Enhancers : Read(w) \/ EnhanceEnds(w) \/ Backup(w) \/ Rewrite(w)

SoulSpec == SoulInit /\ [][SoulNext]_soulVars

-----------------------------------------------------------------------------
\* The service is asked automatically at most once for a SOUL.md, whatever
\* boots and crashes fall into the attempt; after an attempt that ended the
\* marker says succeeded only if the attempt rewrote the file; and while an
\* attempt is at work no other boot can take its marker for free.
AutoOnce ==
  /\ asked <= 1
  /\ marker = "succeeded" => rewrote
  /\ work["auto"].step # "rest" => marker = "pending"
=============================================================================
