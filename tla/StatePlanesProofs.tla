-------------------------- MODULE StatePlanesProofs --------------------------
(* Proofs about the planes and their files, for any requests, operators,   *)
(* queue and failing writes.                                               *)
EXTENDS StatePlanes, TLAPS

(* The invariant holds at the start.                                       *)
LEMMA PlanesStart ==
  ASSUME PlanesInit
  PROVE  PlanesInv
<1>1. Worker \in Publishers /\ Autosave \in Publishers
  BY DEF Publishers
<1>2. PlanesTypes
  <2>1. at \in [Publishers -> Steps] /\ request \in [Observed -> {"new", "serving", "sending", "over"}]
    BY DEF PlanesInit, Steps
  <2>2. at[Worker] = "idle" /\ DOMAIN copy = Publishers /\ copy = [p \in Publishers |-> copy[p]]
    BY <1>1 DEF PlanesInit
  <2>3. stage = "running" /\ last \subseteq {Worker, Autosave} /\ queue \in Seq(Observed)
    BY DEF PlanesInit
  <2>4. overran \in BOOLEAN
    BY DEF PlanesInit
  <2>5. kept \subseteq Observed
    BY DEF PlanesInit
  <2> QED BY <2>1, <2>2, <2>3, <2>4, <2>5 DEF PlanesTypes
<1>3. PublishInv
  BY DEF PlanesInit, PublishInv
<1>4. QuietInv
  BY DEF PlanesInit, QuietInv, Late
<1>6. SendInv
  BY DEF PlanesInit, SendInv, Late
<1>5. LastInv
  BY <1>1 DEF PlanesInit, LastInv, Late
<1> QED BY <1>2, <1>3, <1>4, <1>5, <1>6 DEF PlanesInv

-----------------------------------------------------------------------------
(* Requests: what a send adds is in the queue; once the planes stop it is  *)
(* counted for nothing, and no request that was waited for sends.          *)
LEMMA RequestSteps ==
  ASSUME PlanesInv, NEW r \in Observed, Arrives(r) \/ Detaches(r) \/ Notes(r) \/ Sends(r)
  PROVE  PlanesInv'
<1>1. UNCHANGED <<stage, overran, last, accepting, modelVars>>
  BY DEF Arrives, Detaches, Notes, Sends, modelVars
<1>2. \/ UNCHANGED <<queue, kept, strays>>
      \/ /\ queue' = Append(queue, r)
         /\ kept' = IF accepting THEN kept \cup {r} ELSE kept
         /\ strays' = IF accepting THEN strays ELSE strays \cup ({r} \ loose)
         /\ request[r] = "sending" /\ request'[r] = "over"
  BY DEF Arrives, Detaches, Notes, Sends, PlanesInv, PlanesTypes
<1>3. request' = request \/ \E s \in {"serving", "sending", "over"} :
        request' = [request EXCEPT ![r] = s] /\ request[r] # "over"
  BY DEF Arrives, Detaches, Notes, Sends
<1>4. PlanesTypes'
  <2>1. stage' = stage /\ overran' = overran /\ last' = last /\ at' = at /\ copy' = copy
    BY <1>1 DEF modelVars
  <2>2. request' \in [Observed -> {"new", "serving", "sending", "over"}]
    BY <1>3 DEF PlanesInv, PlanesTypes
  <2>3. queue \in Seq(Observed) /\ kept \subseteq Observed
    BY DEF PlanesInv, PlanesTypes
  <2>4. queue' \in Seq(Observed) /\ kept' \subseteq Observed
    BY <1>2, <2>3
  <2> QED BY <2>1, <2>2, <2>4 DEF PlanesInv, PlanesTypes
<1>5. kept' \subseteq store \cup Queued' /\ Queued' \subseteq Queued \cup {r}
  <2>1. CASE UNCHANGED <<queue, kept, strays>>
    BY <2>1 DEF PlanesInv, PublishInv, Queued
  <2>2. CASE queue' = Append(queue, r) /\ kept' \subseteq kept \cup {r}
    <3>1. /\ \A i \in DOMAIN queue : i \in DOMAIN queue' /\ queue'[i] = queue[i]
          /\ Len(queue) + 1 \in DOMAIN queue' /\ queue'[Len(queue) + 1] = r
          /\ \A i \in DOMAIN queue' : i \in DOMAIN queue \/ i = Len(queue) + 1
      BY <2>2 DEF PlanesInv, PlanesTypes
    <3> QED BY <2>2, <3>1 DEF PlanesInv, PublishInv, Queued
  <2> QED BY <1>2, <2>1, <2>2
<1>6. PublishInv'
  BY <1>1, <1>5 DEF PlanesInv, PublishInv, modelVars
<1>7. SendInv'
  <2>1. \A q \in kept' : request'[q] = "over"
    BY <1>2, <1>3 DEF PlanesInv, PlanesTypes, SendInv
  <2> QED BY <1>1, <2>1 DEF PlanesInv, SendInv
<1>8. QuietInv'
  <2>1. CASE stage \in Late /\ ~overran
    <3>1. \A q \in Observed \ loose : request[q] \in {"new", "over"}
      BY <2>1 DEF PlanesInv, QuietInv
    <3>2. \A q \in Observed \ loose' : request'[q] \in {"new", "over"}
      <4>1. CASE Arrives(r)
        BY <2>1, <3>1, <4>1 DEF Arrives, Late, PlanesInv, PlanesTypes
      <4>2. CASE Detaches(r)
        BY <2>1, <4>2 DEF Detaches, Late
      <4>3. CASE Notes(r)
        <5>1. ~accepting
          BY <2>1 DEF PlanesInv, SendInv
        <5> QED BY <3>1, <4>3, <5>1 DEF Notes, PlanesInv, PlanesTypes
      <4>4. CASE Sends(r)
        BY <3>1, <4>4 DEF Sends, PlanesInv, PlanesTypes
      <4> QED BY <4>1, <4>2, <4>3, <4>4
    <3>3. strays' = {}
      BY <1>2, <2>1, <3>1 DEF PlanesInv, QuietInv
    <3> QED BY <1>1, <2>1, <3>2, <3>3 DEF PlanesInv, QuietInv, modelVars
  <2>2. CASE stage \notin Late /\ ~overran
    <3>1. strays' = {}
      BY <1>2, <2>2 DEF PlanesInv, QuietInv, SendInv
    <3> QED BY <1>1, <2>2, <3>1 DEF PlanesInv, QuietInv, modelVars
  <2>3. CASE overran
    BY <1>1, <2>3 DEF QuietInv
  <2> QED BY <2>1, <2>2, <2>3
<1>9. LastInv'
  <2>1. Worker \in last => Queued' \cap kept' = {}
    <3> SUFFICES ASSUME Worker \in last PROVE Queued' \cap kept' = {}
      OBVIOUS
    <3>1. ~accepting /\ Queued \cap kept = {}
      BY DEF PlanesInv, LastInv, SendInv
    <3>2. kept' = kept
      BY <1>2, <3>1
    <3>3. UNCHANGED queue \/ r \notin kept
      BY <1>2 DEF PlanesInv, SendInv
    <3> QED BY <1>5, <3>1, <3>2, <3>3 DEF Queued
  <2> QED BY <1>1, <2>1 DEF PlanesInv, LastInv, modelVars
<1> QED BY <1>4, <1>6, <1>7, <1>8, <1>9 DEF PlanesInv

-----------------------------------------------------------------------------
(* A publication puts its clone, which has all that was shown, in place of *)
(* the model; the worker's last one finds the store complete.              *)
LEMMA PublishSteps ==
  ASSUME PlanesInv, NEW p \in Publishers, PublishBegins(p) \/ PublishEnds(p)
  PROVE  PlanesInv' /\ shown \subseteq shown'
<1>0. UNCHANGED <<stage, overran, last, queueVars, store, saved>>
  BY DEF PublishBegins, Clones, PublishEnds
<1>1. Worker \in Publishers /\ Autosave \in Publishers /\ Worker # Autosave
      /\ \A q \in Operators : q \in Publishers /\ q # Worker /\ q # Autosave
  BY PlanesAssumption DEF Publishers
<1>4. SendInv'
  BY <1>0 DEF PlanesInv, SendInv, queueVars
<1>2. CASE PublishBegins(p)
  <2>1. /\ at[p] = "publish" /\ publisher = Nobody /\ publisher' = p /\ shown' = shown
        /\ copy' = [copy EXCEPT ![p] = store] /\ at' = [at EXCEPT ![p] = "copied"]
    BY <1>2 DEF PublishBegins, Clones
  <2>2. PlanesTypes'
    BY <1>0, <1>1, <2>1 DEF PlanesInv, PlanesTypes, Steps, queueVars
  <2>3. PublishInv'
    <3>1. \A q \in Publishers : at[q] # "copied"
      BY <2>1, PlanesAssumption DEF PlanesInv, PublishInv, Publishers
    <3> QED BY <1>0, <2>1, <3>1 DEF PlanesInv, PlanesTypes, PublishInv, queueVars, Queued
  <2>4. QuietInv'
    BY <1>0, <1>1, <2>1 DEF PlanesInv, PlanesTypes, QuietInv, queueVars
  <2>5. LastInv'
    BY <1>0, <1>1, <2>1 DEF PlanesInv, PlanesTypes, LastInv, queueVars, Queued
  <2> QED BY <1>4, <2>1, <2>2, <2>3, <2>4, <2>5 DEF PlanesInv
<1>3. CASE PublishEnds(p)
  <2> DEFINE s == IF p # Worker THEN "save" ELSE AfterSave(p)
  <2>1. /\ at[p] = "copied" /\ publisher' = Nobody /\ shown' = copy[p]
        /\ copy' = [copy EXCEPT ![p] = {}] /\ at' = [at EXCEPT ![p] = s]
    BY <1>3 DEF PublishEnds
  <2>2. /\ p # Worker => s = "save"
        /\ p = Worker /\ p \in last => s = "done"
        /\ p = Worker /\ p \notin last => s = "idle"
    BY DEF AfterSave
  <2> HIDE DEF s
  <2>3. PlanesTypes'
    <3>1. s \in Steps /\ (p = Worker => s \in {"idle", "done"})
      BY <2>2 DEF Steps
    <3>2. at' \in [Publishers -> Steps] /\ at'[Worker] \in {"idle", "publish", "copied", "done"}
      BY <1>1, <2>1, <3>1 DEF PlanesInv, PlanesTypes
    <3> QED BY <1>0, <2>1, <3>2 DEF PlanesInv, PlanesTypes, queueVars
  <2>4. publisher = p /\ shown \subseteq shown' /\ shown' \subseteq store
    BY <2>1 DEF PlanesInv, PublishInv
  <2>5. PublishInv'
    <3>1. \A q \in Publishers : at'[q] # "copied"
      BY <2>1, <2>2, <2>4 DEF PlanesInv, PlanesTypes, PublishInv
    <3> QED BY <1>0, <2>4, <3>1 DEF PlanesInv, PublishInv, queueVars, Queued
  <2>6. QuietInv'
    BY <1>0, <1>1, <2>1 DEF PlanesInv, PlanesTypes, QuietInv, queueVars
  <2>7. LastInv'
    <3>1. at'[Worker] = "done" /\ ~overran => shown' = store
      BY <1>1, <2>1, <2>2, <2>4 DEF PlanesInv, PlanesTypes, LastInv
    <3> QED BY <1>0, <1>1, <2>1, <2>2, <3>1 DEF PlanesInv, PlanesTypes, LastInv, queueVars, Queued
  <2> QED BY <1>4, <2>3, <2>4, <2>5, <2>6, <2>7 DEF PlanesInv
<1> QED BY <1>2, <1>3

-----------------------------------------------------------------------------
(* A save takes the model that is shown; the last one of the autosave is   *)
(* the only writer then.                                                   *)
LEMMA SaveSteps ==
  ASSUME PlanesInv, NEW p \in Publishers, Loads(p) \/ Writes(p)
  PROVE  PlanesInv'
<1>0. UNCHANGED <<stage, overran, last, queueVars, store, shown, publisher>>
  BY DEF Loads, Writes
<1>1. /\ Worker \in Publishers /\ Autosave \in Publishers /\ Worker # Autosave
      /\ \A q \in Publishers : q \in Operators \/ q = Autosave \/ q = Worker
      /\ \A q \in Operators : q \in Publishers /\ q # Worker /\ q # Autosave
  BY PlanesAssumption DEF Publishers
<1>2. p # Worker /\ at[p] \in {"save", "write"}
  BY DEF Loads, Writes, PlanesInv, PlanesTypes
<1>5. SendInv'
  BY <1>0 DEF PlanesInv, SendInv, queueVars
<1>3. CASE Loads(p)
  <2>1. /\ at[p] = "save" /\ copy' = [copy EXCEPT ![p] = shown] /\ at' = [at EXCEPT ![p] = "write"]
        /\ saved' = saved
    BY <1>3 DEF Loads
  <2>2. PlanesTypes'
    BY <1>0, <1>1, <1>2, <2>1 DEF PlanesInv, PlanesTypes, Steps, queueVars
  <2>3. PublishInv'
    BY <1>0, <2>1 DEF PlanesInv, PlanesTypes, PublishInv, queueVars, Queued
  <2>4. QuietInv'
    BY <1>0, <1>1, <2>1 DEF PlanesInv, PlanesTypes, QuietInv, queueVars
  <2>5. LastInv'
    BY <1>0, <1>1, <1>2, <2>1 DEF PlanesInv, PlanesTypes, LastInv, queueVars, Queued
  <2> QED BY <1>5, <2>2, <2>3, <2>4, <2>5 DEF PlanesInv
<1>4. CASE Writes(p)
  <2>1. PICK s \in {"idle", "done", "lost"} :
          /\ at[p] = "write" /\ copy' = [copy EXCEPT ![p] = {}] /\ at' = [at EXCEPT ![p] = s]
          /\ s # "idle" <=> p \in last
          /\ saved' = copy[p] \/ (saved' = saved /\ s # "done")
    BY <1>4 DEF Writes, AfterSave, AfterFailure
  <2>2. PlanesTypes'
    BY <1>0, <1>1, <1>2, <2>1 DEF PlanesInv, PlanesTypes, Steps, queueVars
  <2>3. PublishInv'
    BY <1>0, <2>1 DEF PlanesInv, PlanesTypes, PublishInv, queueVars, Queued
  <2>4. QuietInv'
    BY <1>0, <1>1, <2>1 DEF PlanesInv, PlanesTypes, QuietInv, queueVars, Late
  <2>5. ~overran /\ Autosave \in last => p = Autosave
    BY <1>1, <1>2 DEF PlanesInv, QuietInv, LastInv, Late
  <2>6. ~overran /\ Autosave \in last /\ at'[Autosave] = "done" => saved' = store
    BY <1>1, <2>1, <2>5 DEF PlanesInv, PlanesTypes, LastInv
  <2>7. LastInv'
    BY <1>0, <1>1, <1>2, <2>1, <2>5, <2>6 DEF PlanesInv, PlanesTypes, LastInv, queueVars, Queued
  <2> QED BY <1>5, <2>2, <2>3, <2>4, <2>7 DEF PlanesInv
<1> QED BY <1>3, <1>4

-----------------------------------------------------------------------------
(* Operators change a store while the process runs, the worker until it    *)
(* has stopped; the last ticks begin with an empty queue and a full model. *)
LEMMA StoreSteps ==
  ASSUME PlanesInv, Learns \/ \E p \in Operators : Changes(p)
  PROVE  PlanesInv'
<1>1. /\ Worker \in Publishers /\ Autosave \in Publishers /\ Worker # Autosave
      /\ \A q \in Operators : q \in Publishers /\ q # Worker /\ q # Autosave
  BY PlanesAssumption DEF Publishers
<1>2. CASE Learns
  <2>1. /\ UNCHANGED <<stage, overran, last, accepting, request, loose, kept, strays>>
        /\ UNCHANGED <<shown, publisher, at, copy, saved, failed>>
        /\ at[Worker] = "idle" /\ queue # <<>> /\ queue' = Tail(queue)
        /\ store' = store \cup {Head(queue)} /\ stage # "stopped"
    BY <1>2 DEF Learns
  <2>2. /\ queue' \in Seq(Observed)
        /\ \A i \in DOMAIN queue : queue[i] = Head(queue) \/ \E j \in DOMAIN queue' : queue'[j] = queue[i]
    <3>1. queue \in Seq(Observed) /\ Len(queue) \in Nat /\ Len(queue') = Len(queue) - 1 /\ queue' \in Seq(Observed)
      BY <2>1 DEF PlanesInv, PlanesTypes
    <3>2. ASSUME NEW i \in DOMAIN queue, i # 1 PROVE i - 1 \in DOMAIN queue' /\ queue'[i - 1] = queue[i]
      BY <2>1, <3>1, <3>2
    <3> QED BY <3>1, <3>2
  <2>3. Queued \subseteq Queued' \cup {Head(queue)}
    BY <2>2 DEF Queued
  <2>4. PlanesTypes'
    BY <2>1, <2>2 DEF PlanesInv, PlanesTypes
  <2>5. PublishInv'
    BY <2>1, <2>3 DEF PlanesInv, PublishInv
  <2>6. QuietInv'
    BY <2>1 DEF PlanesInv, QuietInv
  <2>7. Worker \notin last /\ stage # "flush"
    BY <2>1 DEF PlanesInv, LastInv
  <2>8. Autosave \notin last
    BY <2>1, <2>7 DEF PlanesInv, LastInv
  <2>9. LastInv'
    BY <2>1, <2>7, <2>8 DEF PlanesInv, LastInv
  <2>10. SendInv'
    BY <2>1 DEF PlanesInv, SendInv
  <2> QED BY <2>4, <2>5, <2>6, <2>9, <2>10 DEF PlanesInv
<1>3. ASSUME NEW p \in Operators, Changes(p) PROVE PlanesInv'
  <2>1. /\ UNCHANGED <<stage, overran, last, queueVars, shown, publisher, copy, saved, failed>>
        /\ stage = "running" /\ store' = store \cup {p} /\ at' = [at EXCEPT ![p] = "publish"]
    BY <1>3 DEF Changes
  <2>2. PlanesTypes'
    BY <1>1, <2>1 DEF PlanesInv, PlanesTypes, Steps, queueVars
  <2>3. PublishInv'
    BY <1>1, <2>1 DEF PlanesInv, PlanesTypes, PublishInv, queueVars, Queued
  <2>4. QuietInv'
    BY <2>1 DEF PlanesInv, QuietInv, queueVars, Late
  <2>5. LastInv'
    BY <1>1, <2>1 DEF PlanesInv, PlanesTypes, LastInv, queueVars, Queued, Late
  <2>6. SendInv'
    BY <2>1 DEF PlanesInv, SendInv, queueVars
  <2> QED BY <2>2, <2>3, <2>4, <2>5, <2>6 DEF PlanesInv
<1> QED BY <1>2, <1>3

(* The worker and the autosave begin a publication.                        *)
LEMMA TickSteps ==
  ASSUME PlanesInv, Ticks \/ Autosaves
  PROVE  PlanesInv'
<1>1. /\ Worker \in Publishers /\ Autosave \in Publishers /\ Worker # Autosave
      /\ \A q \in Operators : q \in Publishers /\ q # Worker /\ q # Autosave
  BY PlanesAssumption DEF Publishers
<1> DEFINE Begins(p) ==
        /\ UNCHANGED <<stage, overran, queueVars, store, shown, publisher, copy, saved, failed>>
        /\ at[p] = "idle" /\ at' = [at EXCEPT ![p] = "publish"]
        /\ last' = last \/ last' = last \cup {p}
        /\ p = Worker /\ last' # last => stage = "drain" /\ queue = <<>>
        /\ p = Autosave /\ last' # last => stage = "flush"
        /\ p = Worker /\ last' = last => stage \notin Late
<1>0. \E p \in {Worker, Autosave} : Begins(p)
  <2>1. CASE Ticks
    <3>1. Begins(Worker)
      BY <1>1, <2>1 DEF Ticks, Drained, Late, queueVars, PlanesInv, LastInv
    <3> QED BY <3>1
  <2>2. CASE Autosaves
    <3>1. Begins(Autosave)
      BY <1>1, <2>2 DEF Autosaves, queueVars
    <3> QED BY <3>1
  <2> QED BY <2>1, <2>2
<1>2. PICK p \in {Worker, Autosave} : Begins(p)
  BY <1>0
<1>3. PlanesTypes'
  BY <1>1, <1>2 DEF PlanesInv, PlanesTypes, Steps, queueVars
<1>4. PublishInv'
  BY <1>1, <1>2 DEF PlanesInv, PlanesTypes, PublishInv, queueVars, Queued
<1>5. QuietInv'
  BY <1>1, <1>2 DEF PlanesInv, PlanesTypes, QuietInv, queueVars
<1>6. LastInv'
  BY <1>1, <1>2 DEF PlanesInv, PlanesTypes, LastInv, queueVars, Queued, Late
<1>7. SendInv'
  BY <1>2 DEF PlanesInv, SendInv, queueVars
<1> QED BY <1>3, <1>4, <1>5, <1>6, <1>7 DEF PlanesInv

-----------------------------------------------------------------------------
(* The shutdown, within its limit or not.                                  *)
LEMMA ShutdownSteps ==
  ASSUME PlanesInv, ShutsDown \/ LimitPasses \/ UNCHANGED planesVars
  PROVE  PlanesInv'
<1>1. UNCHANGED <<last, request, queue, loose, kept, strays, modelVars>>
  BY DEF ShutsDown, LimitPasses, planesVars, queueVars, modelVars
<1>2. PublishInv'
  BY <1>1 DEF PlanesInv, PublishInv, modelVars, Queued
<1>3. CASE ShutsDown
  <2>1. /\ overran' = overran
        /\ \/ stage = "running" /\ stage' = "admin" /\ accepting' = accepting
           \/ /\ stage = "admin" /\ stage' = "listeners" /\ accepting' = accepting
              /\ overran \/ \A p \in Operators : at[p] = "idle"
           \/ /\ stage = "listeners" /\ stage' = "drain" /\ accepting' = FALSE
              /\ overran \/ \A r \in Observed \ loose : request[r] \in {"new", "over"}
           \/ stage = "drain" /\ stage' = "flush" /\ at[Worker] = "done" /\ accepting' = accepting
           \/ stage = "flush" /\ stage' = "stopped" /\ accepting' = accepting
    BY <1>3 DEF ShutsDown, AdminShutdown, ListenerShutdown, StopAndDrain, Flush, Stop
  <2>2. PlanesTypes'
    BY <1>1, <2>1 DEF PlanesInv, PlanesTypes, modelVars
  <2>3. QuietInv'
    BY <1>1, <2>1 DEF PlanesInv, QuietInv, modelVars, Late
  <2>4. LastInv'
    BY <1>1, <2>1 DEF PlanesInv, LastInv, modelVars, Queued, Late
  <2>5. SendInv'
    BY <1>1, <2>1 DEF PlanesInv, SendInv, Late
  <2> QED BY <1>2, <2>2, <2>3, <2>4, <2>5 DEF PlanesInv
<1>4. CASE LimitPasses
  <2>1. stage' = stage /\ overran' = TRUE /\ accepting' = accepting
    BY <1>4 DEF LimitPasses, queueVars
  <2>2. PlanesTypes'
    BY <1>1, <2>1 DEF PlanesInv, PlanesTypes, modelVars
  <2>3. QuietInv'
    BY <2>1 DEF QuietInv
  <2>4. LastInv'
    BY <1>1, <2>1 DEF PlanesInv, LastInv, modelVars, Queued
  <2>5. SendInv'
    BY <1>1, <2>1 DEF PlanesInv, SendInv
  <2> QED BY <1>2, <2>2, <2>3, <2>4, <2>5 DEF PlanesInv
<1>5. CASE UNCHANGED planesVars
  BY <1>5 DEF planesVars, PlanesInv, PlanesTypes, PublishInv, QuietInv, SendInv, LastInv, Queued
<1> QED BY <1>3, <1>4, <1>5

-----------------------------------------------------------------------------
(* Every step keeps the invariant, and none takes back what is shown.      *)
LEMMA PlanesStep ==
  ASSUME PlanesInv, [PlanesNext]_planesVars
  PROVE  PlanesInv' /\ shown \subseteq shown'
<1>1. ASSUME NEW p \in Publishers, Continues(p) PROVE PlanesInv' /\ shown \subseteq shown'
  <2>1. CASE PublishBegins(p) \/ PublishEnds(p)
    BY <2>1, PublishSteps
  <2>2. CASE Loads(p) \/ Writes(p)
    <3>1. shown' = shown
      BY <2>2 DEF Loads, Writes
    <3> QED BY <2>2, <3>1, SaveSteps
  <2> QED BY <1>1, <2>1, <2>2 DEF Continues
<1>2. ASSUME NEW r \in Observed, Arrives(r) \/ Detaches(r) \/ Notes(r) \/ Sends(r)
      PROVE  PlanesInv' /\ shown \subseteq shown'
  <2>1. shown' = shown
    BY <1>2 DEF Arrives, Detaches, Notes, Sends, modelVars
  <2> QED BY <1>2, <2>1, RequestSteps
<1>3. CASE Learns \/ \E p \in Operators : Changes(p)
  <2>1. shown' = shown
    BY <1>3 DEF Learns, Changes
  <2> QED BY <1>3, <2>1, StoreSteps
<1>4. CASE Ticks \/ Autosaves
  <2>1. shown' = shown
    BY <1>4 DEF Ticks, Autosaves
  <2> QED BY <1>4, <2>1, TickSteps
<1>5. CASE ShutsDown \/ LimitPasses \/ UNCHANGED planesVars
  <2>1. shown' = shown
    BY <1>5 DEF ShutsDown, LimitPasses, planesVars, modelVars
  <2> QED BY <1>5, <2>1, ShutdownSteps
<1> QED BY <1>1, <1>2, <1>3, <1>4, <1>5 DEF PlanesNext

(* The invariant holds always, with or without fairness.                   *)
LEMMA PlanesInvariant == PlanesInit /\ [][PlanesNext]_planesVars => []PlanesInv
<1>1. PlanesInit => PlanesInv
  BY PlanesStart
<1>2. PlanesInv /\ [PlanesNext]_planesVars => PlanesInv'
  BY PlanesStep
<1> QED BY <1>1, <1>2, PTL

(* A process that stops within its limit and whose last write succeeds has *)
(* every event the queue took while it accepted and every operator's       *)
(* change in its file, and nothing else was sent but by requests nobody    *)
(* waits for: for any requests and handlers, queue and earlier failures.   *)
THEOREM DrainFlushed == PlanesSpec => []DrainedIsFlushed
<1>1. PlanesInv => DrainedIsFlushed
  <2> SUFFICES ASSUME PlanesInv, stage = "stopped", ~overran, at[Autosave] = "done"
               PROVE  kept \cup store \subseteq saved /\ strays = {}
    BY DEF DrainedIsFlushed
  <2>1. saved = store /\ strays = {} /\ Queued \cap kept = {}
    BY DEF PlanesInv, QuietInv, LastInv
  <2> QED BY <2>1 DEF PlanesInv, PublishInv
<1> QED BY <1>1, PlanesInvariant, PTL DEF PlanesSpec

(* A published model never loses what the one before it had: the older of  *)
(* two clones cannot replace the newer.                                    *)
THEOREM ModelNeverBack == PlanesSpec => PublishedNeverBack
<1>1. PlanesInv /\ [PlanesNext]_planesVars => [shown \subseteq shown']_planesVars
  BY PlanesStep
<1> QED BY <1>1, PlanesInvariant, PTL DEF PlanesSpec, PublishedNeverBack
=============================================================================
