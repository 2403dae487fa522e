---------------------------- MODULE StatePlanes ----------------------------
(***************************************************************************)
(* From a request to the state file: the bounded queue between the request *)
(* path and the learning stores (observations.go, sequence_api61.go), the  *)
(* published model, the saves of api_security_persist.go, and the shutdown *)
(* of main.go that drains and flushes them.  A store is the set of items   *)
(* it reflects: requests observed and changes made by operators.           *)
(*                                                                         *)
(* Requests, operators, the worker and the autosave are processes; a step  *)
(* is what happens under one lock or in one channel operation.  Sampled    *)
(* bodies, which a long queue sheds, are not told apart.                   *)
(***************************************************************************)
EXTENDS Naturals, Sequences, FiniteSets

CONSTANTS Observed,      \* requests
          Operators,     \* admin handlers that change a store and save it
          Autosave, Worker, Nobody,
          QueueSize,
          MaxFailures    \* bound: writes that fail

ASSUME PlanesAssumption ==
  /\ QueueSize \in Nat \ {0} /\ MaxFailures \in Nat
  /\ Autosave # Worker /\ {Autosave, Worker} \cap Operators = {}
  /\ Nobody \notin Operators \cup {Autosave, Worker}

Publishers == Operators \cup {Autosave, Worker}

VARIABLES
  stage,      \* of the process: running, admin, listeners, drain, flush, stopped
  overran,    \* the shutdown limit passed with handlers left
  last,       \* the goroutines that took their stop branch
  accepting, request, queue,
  loose,      \* requests under way that no Shutdown waits for
  kept,       \* history: requests whose send succeeded while accepting
  strays,     \* history: those waited for, yet whose send succeeded after it
  store, shown,
  publisher,  \* holder of the publish lock
  at,         \* of each publisher: idle, publish, copied, save, write, done, lost
  copy,       \* the model it holds
  saved, failed

planesVars == <<stage, overran, last, accepting, request, queue, loose, kept, strays,
                store, shown, publisher, at, copy, saved, failed>>
queueVars == <<accepting, request, queue, loose, kept, strays>>
modelVars == <<store, shown, publisher, at, copy, saved, failed>>

PlanesInit ==
  /\ stage = "running" /\ overran = FALSE /\ last = {}
  /\ accepting = TRUE /\ queue = <<>> /\ loose = {} /\ kept = {} /\ strays = {}
  /\ request = [r \in Observed |-> "new"]
  /\ store = {} /\ shown = {} /\ publisher = Nobody
  /\ at = [p \in Publishers |-> "idle"] /\ copy = [p \in Publishers |-> {}]
  /\ saved = {} /\ failed = 0

-----------------------------------------------------------------------------
(* Requests.  The listeners in live accept until their Shutdown begins; a  *)
(* retry timer may still bind one after that.                              *)
Arrives(r) ==
  /\ stage # "stopped" /\ request[r] = "new"
  /\ request' = [request EXCEPT ![r] = "serving"]
  /\ loose' = IF stage \in {"running", "admin"} THEN loose ELSE loose \cup {r}
  /\ UNCHANGED <<stage, overran, last, accepting, queue, kept, strays, modelVars>>

(* A reconcile removes the listener of a request under way, or reopens it  *)
(* with another protocol, or its connection is upgraded (a WebSocket): no  *)
(* Shutdown waits for its handler any more.                                *)
Detaches(r) ==
  /\ stage \in {"running", "admin", "listeners"} /\ request[r] \in {"serving", "sending"} /\ r \notin loose
  /\ loose' = loose \cup {r}
  /\ UNCHANGED <<stage, overran, last, accepting, request, queue, kept, strays, modelVars>>

(* noteRequest reads the flag; the send comes later.                       *)
Notes(r) ==
  /\ stage # "stopped" /\ request[r] = "serving"
  /\ request' = [request EXCEPT ![r] = IF accepting THEN "sending" ELSE "over"]
  /\ loose' = IF accepting THEN loose ELSE loose \ {r}
  /\ UNCHANGED <<stage, overran, last, accepting, queue, kept, strays, modelVars>>

(* enqueue never blocks: a full queue drops the event.                     *)
Sends(r) ==
  /\ stage # "stopped" /\ request[r] = "sending"
  /\ request' = [request EXCEPT ![r] = "over"]
  /\ IF Len(queue) < QueueSize
     THEN /\ queue' = Append(queue, r)
          /\ kept' = IF accepting THEN kept \cup {r} ELSE kept
          /\ strays' = IF accepting THEN strays ELSE strays \cup ({r} \ loose)
     ELSE UNCHANGED <<queue, kept, strays>>
  /\ loose' = loose \ {r}
  /\ UNCHANGED <<stage, overran, last, accepting, modelVars>>

-----------------------------------------------------------------------------
(* publishSnapshot: clone under the state lock, sort, store, all of it     *)
(* under the publish lock.                                                 *)
Clones(p) ==
  /\ at[p] = "publish"
  /\ publisher' = p /\ copy' = [copy EXCEPT ![p] = store]
  /\ at' = [at EXCEPT ![p] = "copied"]
  /\ UNCHANGED <<stage, overran, last, queueVars, store, shown, saved, failed>>

PublishBegins(p) == publisher = Nobody /\ Clones(p)

(* Mutated form: a save in progress at the stop counts as the last one.    *)
AfterStop(p) == IF p \in last \/ (p = Autosave /\ stage = "flush") THEN "done" ELSE "idle"

(* A goroutine returns to its select; what its stop branch did is its      *)
(* last.                                                                   *)
AfterSave(p) == IF p \in last THEN "done" ELSE "idle"

PublishEnds(p) ==
  /\ at[p] = "copied"
  /\ shown' = copy[p] /\ publisher' = Nobody
  /\ at' = [at EXCEPT ![p] = IF p # Worker THEN "save" ELSE AfterSave(p)]
  /\ copy' = [copy EXCEPT ![p] = {}]
  /\ UNCHANGED <<stage, overran, last, queueVars, store, saved, failed>>

(* save: what is published now is taken ...                                *)
Loads(p) ==
  /\ at[p] = "save"
  /\ copy' = [copy EXCEPT ![p] = shown]
  /\ at' = [at EXCEPT ![p] = "write"]
  /\ UNCHANGED <<stage, overran, last, queueVars, store, shown, publisher, saved, failed>>

AfterFailure(p) == IF p \in last THEN "lost" ELSE "idle"

(* ... and atomicWriteJSON replaces the file or leaves it.                 *)
Writes(p) ==
  /\ at[p] = "write"
  /\ \/ saved' = copy[p] /\ at' = [at EXCEPT ![p] = AfterSave(p)] /\ UNCHANGED failed
     \/ /\ failed < MaxFailures /\ failed' = failed + 1
        /\ at' = [at EXCEPT ![p] = AfterFailure(p)] /\ UNCHANGED saved
  /\ copy' = [copy EXCEPT ![p] = {}]
  /\ UNCHANGED <<stage, overran, last, queueVars, store, shown, publisher>>

(* What a handler or goroutine does once it has begun to publish or save.  *)
Continues(p) ==
  /\ stage # "stopped"
  /\ PublishBegins(p) \/ PublishEnds(p) \/ Loads(p) \/ Writes(p)

-----------------------------------------------------------------------------
(* An operator's handler: the change, then its save.                       *)
Changes(p) ==
  /\ stage = "running" /\ at[p] = "idle" /\ p \notin store
  /\ store' = store \cup {p} /\ at' = [at EXCEPT ![p] = "publish"]
  /\ UNCHANGED <<stage, overran, last, queueVars, shown, publisher, copy, saved, failed>>

(* run: an event, the ticker, or, after the stop and with the queue found  *)
(* empty, the last publication.                                            *)
Learns ==
  /\ stage # "stopped" /\ at[Worker] = "idle" /\ queue # <<>>
  /\ store' = store \cup {Head(queue)} /\ queue' = Tail(queue)
  /\ UNCHANGED <<stage, overran, last, accepting, request, loose, kept, strays,
                 shown, publisher, at, copy, saved, failed>>

(* The stop branch found the queue empty.                                  *)
Drained == stage = "drain" /\ queue = <<>>

Ticks ==
  /\ at[Worker] = "idle" /\ at' = [at EXCEPT ![Worker] = "publish"]
  /\ \/ stage \in {"running", "admin", "listeners"} /\ UNCHANGED last
     \/ Drained /\ last' = last \cup {Worker}
  /\ UNCHANGED <<stage, overran, queueVars, store, shown, publisher, copy, saved, failed>>

(* startAPISecurityAutosave: the ticker or the stop.                       *)
Autosaves ==
  /\ stage # "stopped" /\ at[Autosave] = "idle"
  /\ at' = [at EXCEPT ![Autosave] = "publish"]
  /\ \/ UNCHANGED last
     \/ stage = "flush" /\ last' = last \cup {Autosave}
  /\ UNCHANGED <<stage, overran, queueVars, store, shown, publisher, copy, saved, failed>>

-----------------------------------------------------------------------------
(* The shutdown of main: the admin server, the listeners, the planes, the  *)
(* last saves.  One limit covers both Shutdown calls; when it passes they  *)
(* return with handlers still running.  For the handlers of a listener     *)
(* that was removed or reopened, or of an upgraded connection, nobody      *)
(* waits.                                                                  *)
AdminShutdown == stage = "running" /\ stage' = "admin" /\ UNCHANGED accepting

ListenerShutdown ==
  /\ stage = "admin"
  /\ overran \/ \A p \in Operators : at[p] = "idle"
  /\ stage' = "listeners" /\ UNCHANGED accepting

StopAndDrain ==
  /\ stage = "listeners"
  /\ overran \/ \A r \in Observed \ loose : request[r] \in {"new", "over"}
  /\ stage' = "drain" /\ accepting' = FALSE

Flush == stage = "drain" /\ at[Worker] = "done" /\ stage' = "flush" /\ UNCHANGED accepting

Stop == /\ stage = "flush" /\ at[Autosave] \in {"done", "lost"}
        /\ stage' = "stopped" /\ UNCHANGED accepting

LimitPasses == /\ stage \in {"admin", "listeners"} /\ ~overran /\ overran' = TRUE
               /\ UNCHANGED <<stage, last, queueVars, modelVars>>

ShutsDown == /\ AdminShutdown \/ ListenerShutdown \/ StopAndDrain \/ Flush \/ Stop
             /\ UNCHANGED <<overran, last, request, queue, loose, kept, strays, modelVars>>

-----------------------------------------------------------------------------
PlanesNext ==
  \/ \E r \in Observed : Arrives(r) \/ Detaches(r) \/ Notes(r) \/ Sends(r)
  \/ \E p \in Publishers : Continues(p)
  \/ \E p \in Operators : Changes(p)
  \/ Learns \/ Ticks \/ Autosaves
  \/ ShutsDown \/ LimitPasses

(* Goroutines run and the autosave ticks; the publish lock is fair to who  *)
(* waits for it.                                                           *)
PlanesFairness == /\ \A p \in Publishers \ {Autosave} : WF_planesVars(Continues(p))
                  /\ SF_planesVars(Continues(Autosave)) /\ WF_planesVars(Autosaves)

PlanesSpec == PlanesInit /\ [][PlanesNext]_planesVars /\ PlanesFairness

-----------------------------------------------------------------------------
(* When the process stops within its limit and its last write succeeds,    *)
(* the file holds every event the queue took while it accepted and every   *)
(* change of an operator: "final API intelligence flush includes drained   *)
(* observations" (main.go).  Only a request whose listener was removed,    *)
(* reopened or bound late, or whose connection was upgraded, can still     *)
(* send after the queue was closed.                                        *)
DrainedIsFlushed ==
  stage = "stopped" /\ ~overran /\ at[Autosave] = "done" =>
    kept \cup store \subseteq saved /\ strays = {}

(* A published model never loses what the one before it had, whoever       *)
(* publishes: "an older concurrent clone can never replace a newer         *)
(* published model" (publishSnapshot).                                     *)
PublishedNeverBack == [][shown \subseteq shown']_planesVars

(* What a store has learned or was told reaches the file even when writes  *)
(* fail or an older save lands on a newer one, unless the process dies     *)
(* first (startAPISecurityAutosave).                                       *)
LearnedIsSaved ==
  \A x \in Observed \cup Operators :
    x \in store ~> (x \in saved \/ overran \/ at[Autosave] = "lost")

(* What is learned stays: a published model keeps what the one before it   *)
(* had, and everything reaches the file.                                   *)
LearningIsKept == PublishedNeverBack /\ LearnedIsSaved

(* Why DrainedIsFlushed holds.  A publication replaces the model only by a *)
(* clone that has all of it.                                               *)
Steps == {"idle", "publish", "copied", "save", "write", "done", "lost"}
Queued == {queue[i] : i \in DOMAIN queue}

PlanesTypes ==
  /\ stage \in {"running", "admin", "listeners", "drain", "flush", "stopped"}
  /\ overran \in BOOLEAN /\ last \subseteq {Worker, Autosave}
  /\ request \in [Observed -> {"new", "serving", "sending", "over"}]
  /\ queue \in Seq(Observed)
  /\ at \in [Publishers -> Steps] /\ at[Worker] \in {"idle", "publish", "copied", "done"}
  /\ DOMAIN copy = Publishers /\ copy = [p \in Publishers |-> copy[p]]
  /\ kept \subseteq Observed

PublishInv ==
  /\ shown \subseteq store /\ kept \subseteq store \cup Queued
  /\ \A p \in Publishers : at[p] = "copied" =>
       publisher = p /\ shown \subseteq copy[p] /\ copy[p] \subseteq store

(* Within the limit, no handler of a live listener is left when the planes *)
(* stop, and a request sends once.                                         *)
Late == {"drain", "flush", "stopped"}

QuietInv ==
  ~overran => /\ stage \in Late \cup {"listeners"} => \A p \in Operators : at[p] = "idle"
              /\ stage \in Late => \A r \in Observed \ loose : request[r] \in {"new", "over"}
              /\ strays = {}

SendInv == /\ accepting = (stage \notin Late)
           /\ \A r \in kept : request[r] = "over"

(* What the last publication and the last save have to show for.           *)
LastInv ==
  /\ at[Worker] = "done" \/ Worker \in last => stage \in Late
  /\ at[Worker] = "done" => Worker \in last
  /\ Worker \in last => at[Worker] # "idle"
  /\ Worker \in last => Queued \cap kept = {}
  /\ Worker \in last /\ ~overran /\ at[Worker] = "copied" => copy[Worker] = store
  /\ at[Worker] = "done" /\ ~overran => shown = store
  /\ stage \in {"flush", "stopped"} => at[Worker] = "done"
  /\ Autosave \in last => stage \in {"flush", "stopped"} /\ at[Autosave] # "idle"
  /\ at[Autosave] \in {"done", "lost"} => Autosave \in last
  /\ Autosave \in last /\ ~overran =>
       /\ at[Autosave] = "write" => copy[Autosave] = store
       /\ at[Autosave] = "done" => saved = store

(* The inductive invariant.                                                *)
PlanesInv == PlanesTypes /\ PublishInv /\ QuietInv /\ SendInv /\ LastInv
=============================================================================
