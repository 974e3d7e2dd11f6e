-------------------------------- MODULE Shadow --------------------------------
(***************************************************************************)
(* The shadow proxy (tools/shadow/shadow_proxy.py): each request is served *)
(* by the local service, and a copy is queued for production, whose turn   *)
(* epochs differ.  One worker mirrors the copies in queue order, learns    *)
(* from each pair of answers, and rewrites what the next copies carry.     *)
(***************************************************************************)
EXTENDS Naturals, Sequences

CONSTANTS Submits,        \* submit_messages requests, each perhaps with a respond
          ShadowThreads,
          MaxProxyStarts  \* bound

Exchanges == {"submit", "respond"} \X Submits

VARIABLES
  threadOf,    \* the thread of each submit
  at,          \* where an exchange is
  localCount, prodCount,   \* external: epoch counters of the two services
  localEpoch, prodEpoch,   \* external: the epochs they gave a submit, 0 if none
  mirrorQueue, \* the queue of Pending items
  epochs,      \* Mapper.epochs: <<thread, local epoch, production epoch>>
  workerUp,    \* mirror_worker has not died
  written,     \* history: dataset lines of an exchange
  sentEpoch,   \* history: the epoch a respond carried to production, 0 if none
  learned,     \* history: submits this process has learned a pair from
  proxyStarts

shadowVars == <<threadOf, at, localCount, prodCount, localEpoch, prodEpoch, mirrorQueue, epochs,
                workerUp, written, sentEpoch, learned, proxyStarts>>
services   == <<threadOf, localCount, prodCount, localEpoch, prodEpoch>>

ShadowInit ==
  /\ threadOf \in [Submits -> ShadowThreads]
  /\ at = [e \in Exchanges |-> "idle"]
  /\ localCount = [t \in ShadowThreads |-> 0]
  /\ prodCount \in [ShadowThreads -> {0, 1}]
  /\ localEpoch = [x \in Submits |-> 0] /\ prodEpoch = [x \in Submits |-> 0]
  /\ mirrorQueue = <<>> /\ epochs = {} /\ workerUp = TRUE
  /\ written = [e \in Exchanges |-> 0] /\ sentEpoch = [x \in Submits |-> 0]
  /\ learned = {} /\ proxyStarts = 1

Moves(e, place) == at' = [at EXCEPT ![e] = place]
Writes(e, n)    == written' = [written EXCEPT ![e] = @ + n]

\* A client sends submit_messages, or the respond to a submit it had the
\* answer of; proxy() forwards it at once.
Arrive(e) ==
  /\ at[e] = "idle"
  /\ e[1] = "respond" => at[<<"submit", e[2]>>] \in {"queued", "mirrored", "recorded", "lost"}
                         /\ localEpoch[e[2]] # 0
  /\ Moves(e, "sent")
  /\ UNCHANGED <<services, mirrorQueue, epochs, workerUp, written, sentEpoch, learned, proxyStarts>>

\* The local service answers (external); a submit moves its thread's epoch.
LocalHandles(e) ==
  /\ at[e] = "sent"
  /\ Moves(e, "handled")
  /\ IF e[1] = "respond" THEN UNCHANGED <<localCount, localEpoch>>
     ELSE LET t == threadOf[e[2]] IN
          /\ localCount' = [localCount EXCEPT ![t] = @ + 1]
          /\ localEpoch' = [localEpoch EXCEPT ![e[2]] = localCount'[t]]
  /\ UNCHANGED <<threadOf, prodCount, prodEpoch, mirrorQueue, epochs, workerUp, written,
                 sentEpoch, learned, proxyStarts>>

\* The local call raises, whether or not it was handled: recorded, 502.
LocalUnreachable(e) ==
  /\ at[e] \in {"sent", "handled"}
  /\ Moves(e, "refused") /\ Writes(e, 1)
  /\ UNCHANGED <<services, mirrorQueue, epochs, workerUp, sentEpoch, learned, proxyStarts>>

Enqueue(e) == mirrorQueue' = Append(mirrorQueue, e)

\* The answer is back: the copy is queued, and only then has the client its
\* answer.  Concurrent requests are queued in the order of their answers.
Answered(e) ==
  /\ at[e] = "handled"
  /\ Moves(e, "queued")
  /\ Enqueue(e)
  /\ UNCHANGED <<services, epochs, workerUp, written, sentEpoch, learned, proxyStarts>>

\* Mapper.rewrite_body: production's epoch if the pair is known.
Rewritten(x) ==
  LET known == {p \in epochs : p[1] = threadOf[x] /\ p[2] = localEpoch[x]} IN
  IF known = {} THEN localEpoch[x] ELSE (CHOOSE p \in known : TRUE)[3]

\* The worker takes the next copy, rewrites it and sends it.
Mirror(e) ==
  /\ workerUp /\ mirrorQueue # <<>> /\ e = Head(mirrorQueue)
  /\ \A f \in Exchanges : at[f] # "mirrored"
  /\ mirrorQueue' = Tail(mirrorQueue)
  /\ Moves(e, "mirrored")
  /\ sentEpoch' = IF e[1] = "respond" THEN [sentEpoch EXCEPT ![e[2]] = Rewritten(e[2])]
                  ELSE sentEpoch
  /\ UNCHANGED <<services, epochs, workerUp, written, learned, proxyStarts>>

\* Production handles the copy, if it arrives (external).
ProdHandles(e, x) ==
  IF e[1] = "respond" THEN UNCHANGED <<prodCount, prodEpoch>>
  ELSE /\ prodCount' = [prodCount EXCEPT ![threadOf[x]] = @ + 1]
       /\ prodEpoch' = [prodEpoch EXCEPT ![x] = prodCount'[threadOf[x]]]

\* Bug: epochs are learned for every thread alike.
PairsAnywhere(x) == {<<t, localEpoch[x], prodEpoch'[x]>> : t \in ShadowThreads}

Pairs(x) == {<<threadOf[x], localEpoch[x], prodEpoch'[x]>>}

\* Its answer arrives: the pair is learned from, written and shown.  Showing
\* it, or reading its connect_url, may raise, and the record is written again.
ProdAnswers(e) ==
  /\ at[e] = "mirrored"
  /\ ProdHandles(e, e[2])
  /\ IF e[1] = "submit"
     THEN epochs' = epochs \cup Pairs(e[2]) /\ learned' = learned \cup {e[2]}
     ELSE UNCHANGED <<epochs, learned>>
  /\ \E n \in {1, 2} : Writes(e, n)
  /\ Moves(e, "recorded")
  /\ UNCHANGED <<threadOf, localCount, localEpoch, mirrorQueue, workerUp, sentEpoch, proxyStarts>>

\* No answer, handled or not; or an exception before anything was learned.
ProdFails(e) ==
  /\ at[e] = "mirrored"
  /\ ProdHandles(e, e[2]) \/ UNCHANGED <<prodCount, prodEpoch>>
  /\ Writes(e, 1) /\ Moves(e, "recorded")
  /\ UNCHANGED <<threadOf, localCount, localEpoch, mirrorQueue, epochs, workerUp, sentEpoch,
                 learned, proxyStarts>>

\* The write raises in _mirror_one and again in the handler: the worker ends.
WorkerDies(e) ==
  /\ at[e] = "mirrored"
  /\ workerUp' = FALSE
  /\ ProdHandles(e, e[2]) /\ Moves(e, "lost")
  /\ UNCHANGED <<threadOf, localCount, localEpoch, mirrorQueue, epochs, written, sentEpoch,
                 learned, proxyStarts>>

\* The proxy restarts: the queue and what was learned are gone.
ProxyRestart ==
  /\ proxyStarts < MaxProxyStarts
  /\ proxyStarts' = proxyStarts + 1
  /\ at' = [e \in Exchanges |-> IF at[e] \in {"sent", "handled", "queued", "mirrored"}
                                THEN "lost" ELSE at[e]]
  /\ mirrorQueue' = <<>> /\ epochs' = {} /\ learned' = {} /\ workerUp' = TRUE
  /\ UNCHANGED <<services, written, sentEpoch>>

ShadowNext ==
  \/ \E e \in Exchanges :
       \/ Arrive(e) \/ LocalHandles(e) \/ LocalUnreachable(e) \/ Answered(e)
       \/ Mirror(e) \/ ProdAnswers(e) \/ ProdFails(e) \/ WorkerDies(e)
  \/ ProxyRestart

ShadowSpec == ShadowInit /\ [][ShadowNext]_shadowVars

-----------------------------------------------------------------------------
\* A reply is compared in the same turn on both sides: a respond reaches
\* production with the epoch production gave the submit it answers, whatever
\* order concurrent requests were answered in, once the proxy knows that epoch.
MirroredInStep ==
  \A x \in learned : sentEpoch[x] \in {0, prodEpoch[x]}
=============================================================================
