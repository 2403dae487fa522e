------------------------------- MODULE HASync -------------------------------
(***************************************************************************)
(* The HA pair (ha.go and its callers in admin.go and main.go): each node  *)
(* pushes every committed configuration to its peer, one request at a time *)
(* with one pending slot in which the latest wins, and polls the peer's    *)
(* health to compute its role.  A node's own transaction (ControlPlane) is *)
(* two steps here: the swap of the runtime, and the rename with its push   *)
(* or the rollback.  A request that the client gave up on may still be     *)
(* applied by the peer later; it is never sent again.                      *)
(***************************************************************************)
EXTENDS Integers, FiniteSets

CONSTANTS Nodes, Peer,   \* Peer[n] is the other node of n's pair
          Editors,       \* nodes operators administer: one of each pair
          None,
          Faults,        \* what may fail: rename, rollback, reject, lost, late, crash, ping, manual
          MaxRevs, MaxFaults   \* bounds

ASSUME PeerAssumption == /\ Peer \in [Nodes -> Nodes]
                         /\ \A n \in Nodes : Peer[n] # n /\ Peer[Peer[n]] = n
ASSUME EditorsAssumption == /\ Editors \subseteq Nodes
                            /\ \A n \in Editors : Peer[n] \notin Editors
ASSUME BoundsAssumption == MaxRevs \in Nat /\ MaxFaults \in Nat

HA == [on : BOOLEAN, primary : BOOLEAN]
Config == [shared : 0..MaxRevs, ha : HA]
ASSUME NoneAssumption == None \notin Config /\ None \notin HA

VARIABLES
  up,        \* the node's process runs
  config,    \* its committed configuration, config.json
  live,      \* s.rt.Load().cfg; its HA part is h.cfg
  old,       \* the runtime a transaction between swap and rename goes back to
  loop,      \* its sync loop: state, payload being sent, h.syncPending
  wire,      \* requests the peer has not handled
  lastSync,  \* h.state.LastSync
  role,      \* h.state.Role
  tick,      \* HA settings a running tick started with
  snap,      \* payload handleHASync read without the lock
  stale,     \* history: the newest push was not of the committed configuration
  overtaken, \* history: what the node last took from its peer came late
  faults

cfgVars == <<config, live, old>>
roleVars == <<role, tick>>
historyVars == <<stale, overtaken>>
vars == <<up, config, live, old, loop, wire, lastSync, role, tick, snap, stale, overtaken, faults>>

Idle == [st |-> "idle", job |-> None, pending |-> None]
Fault(f) == f \in Faults /\ faults < MaxFaults /\ faults' = faults + 1

Init ==
  /\ up = [n \in Nodes |-> TRUE]
  /\ config \in [Nodes -> {c \in Config : c.shared = 0 /\ c.ha.on}]
  /\ \A n \in Nodes : config[n].ha.primary # config[Peer[n]].ha.primary
  /\ live = config /\ old = [n \in Nodes |-> None]
  /\ loop = [n \in Nodes |-> Idle]
  /\ wire = {}
  /\ lastSync = [n \in Nodes |-> "none"] /\ role = [n \in Nodes |-> "solo"]
  /\ tick = [n \in Nodes |-> None] /\ snap = [n \in Nodes |-> None]
  /\ stale = [n \in Nodes |-> FALSE] /\ overtaken = [n \in Nodes |-> FALSE]
  /\ faults = 0

-----------------------------------------------------------------------------
(* Pushing.                                                                *)

(* sharedConfigForPeer: the HA settings stay at home.                      *)
Payload(c) == [c EXCEPT !.ha = [on |-> FALSE, primary |-> FALSE]]

(* Mutated form: a pending job is not replaced.                            *)
KeepFirst(l, c, p) ==
  IF ~c.ha.on THEN l
  ELSE IF l.st = "idle" THEN [l EXCEPT !.st = "ready", !.job = p]
  ELSE [l EXCEPT !.pending = IF @ = None THEN p ELSE @]

(* pushConfig of payload p by a node that runs c: the loop is started, or  *)
(* p replaces the pending job (the latest wins).                           *)
Pushed(l, c, p) ==
  IF ~c.ha.on THEN l
  ELSE IF l.st = "idle" THEN [l EXCEPT !.st = "ready", !.job = p]
  ELSE [l EXCEPT !.pending = p]

(* h.configure: the state of a disabled engine is reset; a running loop is *)
(* not stopped.                                                            *)
Configure(n, c) ==
  /\ role' = IF c.ha.on THEN role ELSE [role EXCEPT ![n] = "solo"]
  /\ lastSync' = IF c.ha.on THEN lastSync ELSE [lastSync EXCEPT ![n] = "none"]

(* applyEx under applyMu up to the swap and the configure calls.           *)
Swap(n, c) ==
  /\ up[n] /\ n \in Editors /\ old[n] = None
  /\ live' = [live EXCEPT ![n] = c]
  /\ old' = [old EXCEPT ![n] = live[n]]
  /\ Configure(n, c)
  /\ UNCHANGED <<up, config, loop, wire, tick, snap, historyVars, faults>>

(* A change of the shared part.                                            *)
Edit(n) ==
  \E r \in 0..MaxRevs : r # live[n].shared /\ Swap(n, [live[n] EXCEPT !.shared = r])

(* A change of the node's own HA settings.                                 *)
SetHA(n) == Swap(n, [live[n] EXCEPT !.ha.on = ~@])

(* staged.commit, then pushConfig.                                         *)
Commit(n) ==
  /\ up[n] /\ old[n] # None
  /\ config' = [config EXCEPT ![n] = live[n]]
  /\ old' = [old EXCEPT ![n] = None]
  /\ loop' = [loop EXCEPT ![n] = Pushed(@, live[n], Payload(live[n]))]
  /\ stale' = [stale EXCEPT ![n] = FALSE]
  /\ UNCHANGED <<up, live, wire, lastSync, roleVars, snap, overtaken, faults>>

(* The rename failed: the old runtime is applied again, or that fails too. *)
RollBack(n) ==
  /\ up[n] /\ old[n] # None /\ Fault("rename")
  /\ old' = [old EXCEPT ![n] = None]
  /\ \/ live' = [live EXCEPT ![n] = old[n]] /\ Configure(n, old[n])
     \/ "rollback" \in Faults /\ UNCHANGED <<live, role, lastSync>>
  /\ UNCHANGED <<up, config, loop, wire, tick, snap, historyVars>>

(* handleHASync: the runtime is read without applyMu, pushed later.        *)
SyncRead(n) ==
  /\ up[n] /\ "manual" \in Faults /\ n \in Editors
  /\ live[n].ha.on /\ snap[n] = None
  /\ snap' = [snap EXCEPT ![n] = Payload(live[n])]
  /\ UNCHANGED <<up, cfgVars, loop, wire, lastSync, roleVars, historyVars, faults>>

SyncPush(n) ==
  /\ up[n] /\ snap[n] # None
  /\ loop' = [loop EXCEPT ![n] = Pushed(@, live[n], snap[n])]
  /\ snap' = [snap EXCEPT ![n] = None]
  /\ stale' = [stale EXCEPT ![n] = IF live[n].ha.on THEN snap[n].shared # config[n].shared ELSE @]
  /\ UNCHANGED <<up, cfgVars, wire, lastSync, roleVars, overtaken, faults>>

-----------------------------------------------------------------------------
(* runSyncLoop and sendSyncJob.                                            *)

Send(n) ==
  /\ up[n] /\ loop[n].st = "ready"
  /\ loop' = [loop EXCEPT ![n].st = "waiting"]
  /\ wire' = wire \cup {[from |-> n, cfg |-> loop[n].job, awaited |-> TRUE]}
  /\ UNCHANGED <<up, cfgVars, lastSync, roleVars, snap, historyVars, faults>>

(* Mutated form: the loop ends without looking at the pending slot.        *)
Stop(l) == [l EXCEPT !.st = "idle", !.job = None]

(* After an answer the loop goes on with the pending job, or ends.         *)
Answered(l) == IF l.pending = None THEN Idle
               ELSE [l EXCEPT !.st = "ready", !.job = l.pending, !.pending = None]

(* Mutated form: the peer's HA settings are taken over.                    *)
TakeAll(local, incoming) == incoming

(* mergePeerConfig: identity and secrets stay local.                       *)
Merge(local, incoming) == [incoming EXCEPT !.ha = local.ha]

(* applyPersistedLocked with fromSync: nothing is pushed.                  *)
FromSync(l, c) == l

Record(n, result) == lastSync' = [lastSync EXCEPT ![n] = result]

(* handleHAPeerConfig on node p, and its answer to a client that still     *)
(* waits.  The configuration may be refused (or its rename fail, and then  *)
(* the rollback too), or the answer get lost.  HA of p is never off.       *)
Handle(p, m) ==
  /\ up[p] /\ old[p] = None /\ m \in wire /\ Peer[m.from] = p
  /\ wire' = wire \ {m}
  /\ LET c == Merge(live[p], m.cfg)
         l == [loop EXCEPT ![p] = FromSync(@, c)]
     IN \/ /\ config' = [config EXCEPT ![p] = c] /\ live' = [live EXCEPT ![p] = c]
           /\ overtaken' = [overtaken EXCEPT ![p] = ~m.awaited]
           /\ loop' = IF m.awaited THEN [l EXCEPT ![m.from] = Answered(@)] ELSE l
           /\ \/ m.awaited /\ Record(m.from, "ok") /\ UNCHANGED faults
              \/ m.awaited /\ Record(m.from, "error") /\ Fault("lost")
              \/ ~m.awaited /\ UNCHANGED <<lastSync, faults>>
        \/ /\ Fault("reject") /\ UNCHANGED <<config, overtaken>>
           /\ UNCHANGED live \/ ("rollback" \in Faults /\ live' = [live EXCEPT ![p] = c])
           /\ IF m.awaited
                THEN loop' = [loop EXCEPT ![m.from] = Answered(@)] /\ Record(m.from, "error")
                ELSE UNCHANGED <<loop, lastSync>>
  /\ UNCHANGED <<up, old, roleVars, snap, stale>>

(* The client gives up: the request never arrives, or it is on its way to  *)
(* the peer's applyMu and will still be applied.                           *)
Timeout(n) ==
  /\ up[n] /\ loop[n].st = "waiting"
  /\ loop' = [loop EXCEPT ![n] = Answered(@)] /\ Record(n, "error")
  /\ LET mine == {m \in wire : m.from = n /\ m.awaited}
     IN \/ mine = {} /\ UNCHANGED <<wire, faults>>
        \/ /\ mine # {} /\ wire' = wire \ mine
           /\ (~up[Peer[n]] /\ UNCHANGED faults) \/ Fault("lost")
        \/ /\ mine # {} /\ Fault("late")
           /\ wire' = (wire \ mine) \cup {[m EXCEPT !.awaited = FALSE] : m \in mine}
  /\ UNCHANGED <<up, cfgVars, roleVars, snap, historyVars>>

-----------------------------------------------------------------------------
(* Roles.                                                                  *)

TickStart(n) ==
  /\ up[n] /\ live[n].ha.on /\ tick[n] = None
  /\ tick' = [tick EXCEPT ![n] = live[n].ha]
  /\ UNCHANGED <<up, cfgVars, loop, wire, lastSync, role, snap, historyVars, faults>>

(* Mutated forms: no takeover; no tie-break.                               *)
StandBy(primary, alive) == IF alive /\ primary THEN "active" ELSE "standby"
AllActive(primary, alive) == "active"

(* The peer is alive: the primary is active; else: take over.              *)
RoleFor(primary, alive) == IF alive /\ ~primary THEN "standby" ELSE "active"

(* The role follows the settings the tick started with and its ping.       *)
TickEnd(n) ==
  /\ up[n] /\ tick[n] # None
  /\ \E alive \in BOOLEAN :
       /\ role' = [role EXCEPT ![n] = RoleFor(tick[n].primary, alive)]
       /\ \/ alive = up[Peer[n]] /\ UNCHANGED faults
          \/ ~alive /\ up[Peer[n]] /\ Fault("ping")
  /\ tick' = [tick EXCEPT ![n] = None]
  /\ UNCHANGED <<up, cfgVars, loop, wire, lastSync, snap, historyVars>>

-----------------------------------------------------------------------------
(* A crash loses the runtime, the sync loop and the role; requests already *)
(* sent to the peer stay there, those this node was handling are cut off.  *)
Crash(n) ==
  /\ up[n] /\ Fault("crash")
  /\ up' = [up EXCEPT ![n] = FALSE]
  /\ live' = [live EXCEPT ![n] = config[n]] /\ old' = [old EXCEPT ![n] = None]
  /\ loop' = [loop EXCEPT ![n] = Idle]
  /\ snap' = [snap EXCEPT ![n] = None] /\ tick' = [tick EXCEPT ![n] = None]
  /\ lastSync' = [lastSync EXCEPT ![n] = "none"] /\ role' = [role EXCEPT ![n] = "solo"]
  /\ wire' = {[m EXCEPT !.awaited = FALSE] : m \in {x \in wire : x.from = n}}
               \cup {m \in wire : m.from # n /\ Peer[m.from] # n}
  /\ UNCHANGED <<config, historyVars>>

Boot(n) ==
  /\ ~up[n] /\ up' = [up EXCEPT ![n] = TRUE]
  /\ UNCHANGED <<cfgVars, loop, wire, lastSync, role, tick, snap, historyVars, faults>>

-----------------------------------------------------------------------------
Next ==
  \E n \in Nodes :
    \/ Edit(n) \/ SetHA(n) \/ Commit(n) \/ RollBack(n) \/ SyncRead(n) \/ SyncPush(n)
    \/ Send(n) \/ Timeout(n) \/ TickStart(n) \/ TickEnd(n) \/ Crash(n) \/ Boot(n)
    \/ \E m \in wire : Handle(n, m)

Spec == Init /\ [][Next]_vars

(* The sync goroutine runs, requests are handled or time out, the ticker   *)
(* ticks.  A node that is down may stay down.                              *)
FairSpec ==
  Spec /\ \A n \in Nodes :
    /\ WF_vars(Send(n)) /\ WF_vars(Timeout(n) \/ \E m \in wire : Handle(Peer[n], m))
    /\ WF_vars(TickStart(n)) /\ WF_vars(TickEnd(n))
-----------------------------------------------------------------------------
(* Properties.                                                             *)

Loops == [st : {"idle", "ready", "waiting"}, job : Config \cup {None},
          pending : Config \cup {None}]
Requests == [from : Nodes, cfg : Config, awaited : BOOLEAN]

TypeOK ==
  /\ up \in [Nodes -> BOOLEAN]
  /\ config \in [Nodes -> Config] /\ live \in [Nodes -> Config]
  /\ old \in [Nodes -> Config \cup {None}]
  /\ loop \in [Nodes -> Loops] /\ wire \subseteq Requests
  /\ lastSync \in [Nodes -> {"none", "ok", "error"}]
  /\ role \in [Nodes -> {"solo", "active", "standby"}]
  /\ tick \in [Nodes -> HA \cup {None}] /\ snap \in [Nodes -> Config \cup {None}]
  /\ stale \in [Nodes -> BOOLEAN] /\ overtaken \in [Nodes -> BOOLEAN]
  /\ faults \in Nat

(* LastSync does not lie: when the loop has ended with "ok", the peer has  *)
(* the node's committed configuration, however many commits, rollbacks,    *)
(* refusals, lost answers, crashes and settings changes went before.       *)
(* Exceptions: a manual sync that pushed what it had read before the last  *)
(* commit, or from a runtime that was never committed; and a request the   *)
(* client gave up on that the peer applied afterwards.                     *)
HonestStatus ==
  \A n \in Editors :
    (/\ loop[n].st = "idle" /\ lastSync[n] = "ok" /\ config[n].ha.on
     /\ ~stale[n] /\ ~overtaken[Peer[n]])
       => config[Peer[n]].shared = config[n].shared

(* The tie-breaker: neither syncing nor a rollback ever makes both nodes   *)
(* of a pair primary or both secondary: each keeps its own HA settings.    *)
OnePrimary == \A n \in Nodes : live[n].ha.primary # live[Peer[n]].ha.primary

(* A configuration taken from the peer is not pushed back: the node nobody *)
(* administers never starts its sync loop.                                 *)
NoEcho == \A n \in Nodes \ Editors : loop[n] = Idle

(* A pending configuration is sent, or replaced by a newer one that is,    *)
(* whatever happens to the request before it.                              *)
PendingIsSent == \A n \in Nodes : loop[n].pending # None ~> loop[n].pending = None

(* Once pings stop failing by themselves, each node settles in the role    *)
(* its settings and its peer's health give it: exactly one of two live     *)
(* nodes is active, and a node alone is.                                   *)
RolesSettle ==
  \A n \in Nodes :
    <>[](up[n] /\ live[n].ha.on) =>
      <>[](role[n] = IF up[Peer[n]] /\ ~live[n].ha.primary THEN "standby" ELSE "active")

(* "... so the peer always converges to the newest committed shared config"*)
(* (pushConfig): when nothing is under way any more and the last sync was  *)
(* answered with success.                                                  *)
PeerConverges ==
  \A n \in Editors :
    (/\ loop[n].st = "idle" /\ lastSync[n] = "ok" /\ config[n].ha.on
     /\ wire = {} /\ snap[n] = None)
       => config[Peer[n]].shared = config[n].shared

(* Why HonestStatus holds.  A request the client waits for carries the job *)
(* of its loop; the newest payload of an enabled loop is the committed     *)
(* configuration.  Every configuration of a node has its own tie-breaker.  *)
WireInv ==
  \A m \in wire : m.awaited => loop[m.from].st = "waiting" /\ loop[m.from].job = m.cfg

LoopInv ==
  \A n \in Nodes :
    /\ loop[n].st = "idle" => loop[n].job = None /\ loop[n].pending = None
    /\ loop[n].st # "idle" => loop[n].job # None

NewestInv ==
  \A n \in Editors : config[n].ha.on /\ ~stale[n] =>
    /\ loop[n].pending # None => loop[n].pending.shared = config[n].shared
    /\ loop[n].st # "idle" /\ loop[n].pending = None => loop[n].job.shared = config[n].shared

IdleInv == \A n \in Nodes \ Editors : loop[n] = Idle /\ snap[n] = None /\ old[n] = None

TieInv ==
  \A n \in Nodes :
    /\ config[n].ha.primary = live[n].ha.primary
    /\ old[n] # None => old[n].ha.primary = live[n].ha.primary

SenderInv == \A m \in wire : m.from \in Editors

(* The inductive invariant.                                                *)
IInv == /\ TypeOK /\ WireInv /\ LoopInv /\ NewestInv /\ IdleInv /\ SenderInv
        /\ HonestStatus /\ TieInv /\ OnePrimary
=============================================================================
