---------------------------- MODULE HASyncProofs ----------------------------
(* Proofs about the HA pair, for any number of pairs, revisions and faults *)
(* in any interleaving.                                                    *)
EXTENDS HASync, TLAPS

(* A configuration and its parts.                                          *)
LEMMA ConfigShape ==
  ASSUME NEW c \in Config, NEW d \in Config
  PROVE  /\ Payload(c) \in Config /\ Payload(c).shared = c.shared
         /\ Merge(c, d) \in Config
         /\ Merge(c, d).shared = d.shared /\ Merge(c, d).ha = c.ha
  BY DEF Config, HA, Payload, Merge

(* Turning HA on or off.                                                   *)
LEMMA ToggleShape ==
  ASSUME NEW c \in Config
  PROVE  LET d == [c EXCEPT !.ha.on = ~@]
         IN /\ d \in Config /\ d.shared = c.shared
            /\ d.ha.on = ~c.ha.on /\ d.ha.primary = c.ha.primary
<1>1. c.ha \in HA /\ c.shared \in 0..MaxRevs /\ c = [shared |-> c.shared, ha |-> c.ha]
  BY DEF Config
<1>2. c.ha.on \in BOOLEAN /\ c.ha.primary \in BOOLEAN
  BY <1>1 DEF HA
<1>3. [c.ha EXCEPT !.on = ~@] \in HA
  BY <1>1, <1>2 DEF HA
<1>4. [c.ha EXCEPT !.on = ~@].on = ~c.ha.on /\ [c.ha EXCEPT !.on = ~@].primary = c.ha.primary
  BY <1>1, <1>2 DEF HA
<1>5. [c EXCEPT !.ha.on = ~@] = [shared |-> c.shared, ha |-> [c.ha EXCEPT !.on = ~@]]
  BY <1>1
<1> QED BY <1>1, <1>3, <1>4, <1>5 DEF Config

(* A new revision of the shared part.                                      *)
LEMMA EditShape ==
  ASSUME NEW c \in Config, NEW r \in 0..MaxRevs
  PROVE  LET d == [c EXCEPT !.shared = r]
         IN d \in Config /\ d.ha = c.ha
  BY DEF Config

(* pushConfig: what it makes of a loop.                                    *)
LEMMA PushedShape ==
  ASSUME NEW l \in Loops, NEW c \in Config, NEW p \in Config,
         l.st = "idle" => l.job = None /\ l.pending = None,
         l.st # "idle" => l.job # None
  PROVE  LET q == Pushed(l, c, p)
         IN /\ q \in Loops
            /\ q.st = "idle" => q.job = None /\ q.pending = None
            /\ q.st # "idle" => q.job # None
            /\ l.st = "waiting" => q.st = "waiting" /\ q.job = l.job
            /\ ~c.ha.on => q = l
            /\ c.ha.on => /\ q.st # "idle"
                          /\ q.pending = p \/ (q.pending = None /\ q.job = p)
  BY NoneAssumption DEF Loops, Pushed

(* runSyncLoop after an answer.                                            *)
LEMMA AnsweredShape ==
  ASSUME NEW l \in Loops
  PROVE  LET q == Answered(l)
         IN /\ q \in Loops
            /\ q.pending = None
            /\ q.st \in {"idle", "ready"}
            /\ q.st = "idle" <=> l.pending = None
            /\ q.st = "idle" => q.job = None
            /\ q.st # "idle" => q.job = l.pending /\ q.job # None
  BY DEF Loops, Answered, Idle

(* A loop that has ended.                                                  *)
LEMMA IdleShape == /\ Idle \in Loops
                   /\ Idle.st = "idle" /\ Idle.job = None /\ Idle.pending = None
  BY DEF Idle, Loops

(* Every step keeps the types.                                             *)
LEMMA TypeStep ==
  ASSUME TypeOK, LoopInv, [Next]_vars
  PROVE  TypeOK'
<1> USE DEF TypeOK
<1>1. CASE UNCHANGED vars
  BY <1>1 DEF vars
<1>2. ASSUME NEW n \in Nodes, NEW c \in Config, Swap(n, c) PROVE TypeOK'
  <2>1. live' \in [Nodes -> Config] /\ old' \in [Nodes -> Config \cup {None}]
    BY <1>2 DEF Swap
  <2>2. role' \in [Nodes -> {"solo", "active", "standby"}] /\ lastSync' \in [Nodes -> {"none", "ok", "error"}]
    BY <1>2 DEF Swap, Configure
  <2> QED BY <1>2, <2>1, <2>2 DEF Swap, historyVars
<1>3. ASSUME NEW n \in Nodes, Edit(n) \/ SetHA(n) PROVE TypeOK'
  <2>1. \A r \in 0..MaxRevs : [live[n] EXCEPT !.shared = r] \in Config
    BY EditShape
  <2>2. [live[n] EXCEPT !.ha.on = ~@] \in Config
    BY ToggleShape
  <2> QED BY <1>2, <1>3, <2>1, <2>2 DEF Edit, SetHA
<1>4. ASSUME NEW n \in Nodes, Commit(n) PROVE TypeOK'
  <2>1. Pushed(loop[n], live[n], Payload(live[n])) \in Loops
    BY ConfigShape, PushedShape DEF LoopInv
  <2>2. loop' \in [Nodes -> Loops] /\ config' \in [Nodes -> Config]
    BY <1>4, <2>1 DEF Commit
  <2>3. old' \in [Nodes -> Config \cup {None}] /\ stale' \in [Nodes -> BOOLEAN]
    BY <1>4 DEF Commit
  <2> QED BY <1>4, <2>2, <2>3 DEF Commit, roleVars
<1>14. ASSUME NEW n \in Nodes, RollBack(n) PROVE TypeOK'
  <2>1. live' \in [Nodes -> Config] /\ old' \in [Nodes -> Config \cup {None}]
    BY <1>14 DEF RollBack
  <2>2. role' \in [Nodes -> {"solo", "active", "standby"}] /\ lastSync' \in [Nodes -> {"none", "ok", "error"}]
    BY <1>14 DEF RollBack, Configure
  <2> QED BY <1>14, <2>1, <2>2 DEF RollBack, historyVars, Fault
<1>5. ASSUME NEW n \in Nodes, SyncRead(n) PROVE TypeOK'
  <2>1. Payload(live[n]) \in Config
    BY ConfigShape
  <2> QED BY <1>5, <2>1 DEF SyncRead, cfgVars, roleVars, historyVars
<1>6. ASSUME NEW n \in Nodes, SyncPush(n) PROVE TypeOK'
  <2>1. Pushed(loop[n], live[n], snap[n]) \in Loops
    BY <1>6, PushedShape DEF LoopInv, SyncPush
  <2> QED BY <1>6, <2>1 DEF SyncPush, cfgVars, roleVars
<1>7. ASSUME NEW n \in Nodes, Send(n) PROVE TypeOK'
  <2>1. [loop[n] EXCEPT !.st = "waiting"] \in Loops
    <3>1. loop[n] \in Loops
      OBVIOUS
    <3>2. /\ loop[n] = [st |-> loop[n].st, job |-> loop[n].job, pending |-> loop[n].pending]
          /\ loop[n].job \in Config \cup {None} /\ loop[n].pending \in Config \cup {None}
      BY ONLY <3>1 DEF Loops
    <3>3. [loop[n] EXCEPT !.st = "waiting"]
            = [st |-> "waiting", job |-> loop[n].job, pending |-> loop[n].pending]
      BY ONLY <3>2
    <3> QED BY ONLY <3>2, <3>3 DEF Loops
  <2>2. [from |-> n, cfg |-> loop[n].job, awaited |-> TRUE] \in Requests
    BY <1>7 DEF Send, LoopInv, Loops, Requests
  <2> QED BY <1>7, <2>1, <2>2 DEF Send, cfgVars, roleVars, historyVars
<1>8. ASSUME NEW n \in Nodes, Timeout(n) PROVE TypeOK'
  <2>1. Answered(loop[n]) \in Loops
    BY AnsweredShape
  <2>2. \A m \in wire : [m EXCEPT !.awaited = FALSE] \in Requests
    BY DEF Requests
  <2> QED BY <1>8, <2>1, <2>2 DEF Timeout, Record, Fault, cfgVars, roleVars, historyVars
<1>9. ASSUME NEW n \in Nodes, NEW m \in wire, Handle(n, m) PROVE TypeOK'
  <2>1. m.from \in Nodes /\ m.cfg \in Config /\ m.awaited \in BOOLEAN
    BY DEF Requests
  <2>2. Merge(live[n], m.cfg) \in Config
    BY <2>1, ConfigShape
  <2>3. Answered(loop[m.from]) \in Loops
    BY <2>1, AnsweredShape
  <2>4. loop' = loop \/ loop' = [loop EXCEPT ![m.from] = Answered(loop[m.from])]
    BY <1>9, <2>1 DEF Handle, FromSync
  <2>5. loop' \in [Nodes -> Loops]
    BY <2>1, <2>3, <2>4
  <2>6. config' \in [Nodes -> Config]
    <3>1. config' = config \/ config' = [config EXCEPT ![n] = Merge(live[n], m.cfg)]
      BY <1>9 DEF Handle
    <3> QED BY <3>1, <2>2
  <2>10. live' \in [Nodes -> Config]
    <3>1. live' = live \/ live' = [live EXCEPT ![n] = Merge(live[n], m.cfg)]
      BY <1>9 DEF Handle
    <3> QED BY <3>1, <2>2
  <2>8. overtaken' \in [Nodes -> BOOLEAN]
    <3>1. overtaken' = overtaken \/ overtaken' = [overtaken EXCEPT ![n] = ~m.awaited]
      BY <1>9 DEF Handle
    <3> QED BY <3>1
  <2>9. faults' \in Nat
    BY <1>9 DEF Handle, Fault
  <2>7. lastSync' \in [Nodes -> {"none", "ok", "error"}] /\ wire' \subseteq Requests
    BY <1>9, <2>1 DEF Handle, Record
  <2> QED BY <1>9, <2>5, <2>6, <2>7, <2>8, <2>9, <2>10 DEF Handle, roleVars
<1>10. ASSUME NEW n \in Nodes, TickStart(n) PROVE TypeOK'
  <2>1. live[n].ha \in HA
    BY DEF Config
  <2>2. tick' \in [Nodes -> HA \cup {None}]
    BY <1>10, <2>1 DEF TickStart
  <2> QED BY <1>10, <2>2 DEF TickStart, cfgVars, historyVars
<1>13. ASSUME NEW n \in Nodes, TickEnd(n) PROVE TypeOK'
  BY <1>13 DEF TickEnd, RoleFor, Fault, cfgVars, historyVars
<1>11. ASSUME NEW n \in Nodes, Crash(n) PROVE TypeOK'
  <2>1. \A m \in wire : [m EXCEPT !.awaited = FALSE] \in Requests
    BY DEF Requests
  <2> QED BY <1>11, <2>1, IdleShape DEF Crash, Fault, historyVars
<1>12. ASSUME NEW n \in Nodes, Boot(n) PROVE TypeOK'
  BY <1>12 DEF Boot, cfgVars, roleVars, historyVars
<1> QED
  BY <1>1, <1>3, <1>4, <1>5, <1>6, <1>7, <1>8, <1>9, <1>10, <1>11, <1>12, <1>13, <1>14 DEF Next
-----------------------------------------------------------------------------
(* The loops and the requests on the wire.                                 *)

ShapeInv == WireInv /\ LoopInv /\ IdleInv /\ SenderInv

(* pushConfig leaves the loop well formed and the request under way alone. *)
LEMMA PushKeepsShape ==
  ASSUME TypeOK, ShapeInv, NEW n \in Editors, NEW c \in Config, NEW p \in Config,
         loop' = [loop EXCEPT ![n] = Pushed(@, c, p)], UNCHANGED wire,
         \A x \in Nodes \ Editors : snap'[x] = snap[x] /\ old'[x] = old[x]
  PROVE  ShapeInv'
<1>1. n \in Nodes /\ loop[n] \in Loops
  BY EditorsAssumption DEF TypeOK
<1>2. loop'[n] = Pushed(loop[n], c, p) /\ \A x \in Nodes \ {n} : loop'[x] = loop[x]
  BY <1>1 DEF TypeOK
<1>3. LoopInv'
  BY <1>1, <1>2, PushedShape DEF ShapeInv, LoopInv
<1>4. WireInv'
  <2>1. loop[n].st = "waiting" => loop'[n].st = "waiting" /\ loop'[n].job = loop[n].job
    BY <1>1, <1>2, PushedShape DEF ShapeInv, LoopInv
  <2>2. \A m \in wire : m.from \in Nodes
    BY DEF TypeOK, Requests
  <2> QED BY <1>2, <2>1, <2>2 DEF ShapeInv, WireInv
<1>5. IdleInv' /\ SenderInv'
  BY <1>2 DEF ShapeInv, IdleInv, SenderInv
<1> QED BY <1>3, <1>4, <1>5 DEF ShapeInv

(* An answered loop has no request it waits for.                           *)
LEMMA AnswerKeepsShape ==
  ASSUME TypeOK, ShapeInv, NEW n \in Editors,
         loop' = [loop EXCEPT ![n] = Answered(@)], UNCHANGED <<snap, old>>,
         \A m \in wire' : /\ m.from \in Editors
                          /\ m.awaited => m \in wire /\ m.from # n
  PROVE  ShapeInv'
<1>1. n \in Nodes /\ loop[n] \in Loops
  BY EditorsAssumption DEF TypeOK
<1>2. loop'[n] = Answered(loop[n]) /\ \A x \in Nodes \ {n} : loop'[x] = loop[x]
  BY <1>1 DEF TypeOK
<1>3. LoopInv'
  BY <1>1, <1>2, AnsweredShape DEF ShapeInv, LoopInv
<1>4. WireInv'
  BY <1>2, EditorsAssumption DEF ShapeInv, WireInv
<1>5. IdleInv' /\ SenderInv'
  BY <1>2 DEF ShapeInv, IdleInv, SenderInv
<1> QED BY <1>3, <1>4, <1>5 DEF ShapeInv

(* Every step keeps the loops and the requests on the wire consistent.     *)
LEMMA ShapeStep ==
  ASSUME TypeOK, ShapeInv, [Next]_vars
  PROVE  ShapeInv'
<1>1. CASE UNCHANGED vars
  BY <1>1 DEF vars, ShapeInv, WireInv, LoopInv, IdleInv, SenderInv
<1>2. ASSUME NEW n \in Nodes, Edit(n) \/ SetHA(n) \/ RollBack(n) PROVE ShapeInv'
  <2>1. UNCHANGED <<loop, wire, snap>>
    BY <1>2 DEF Edit, SetHA, Swap, RollBack
  <2>2. n \in Editors
    BY <1>2 DEF Edit, SetHA, Swap, RollBack, ShapeInv, IdleInv
  <2>3. \A x \in Nodes \ Editors : old'[x] = old[x]
    BY <1>2, <2>2 DEF Edit, SetHA, Swap, RollBack, TypeOK
  <2> QED BY <2>1, <2>3 DEF ShapeInv, WireInv, LoopInv, IdleInv, SenderInv
<1>3. ASSUME NEW n \in Nodes, Commit(n) PROVE ShapeInv'
  <2>1. n \in Editors /\ live[n] \in Config /\ Payload(live[n]) \in Config
    BY <1>3, ConfigShape DEF Commit, TypeOK, ShapeInv, IdleInv
  <2>2. /\ loop' = [loop EXCEPT ![n] = Pushed(@, live[n], Payload(live[n]))]
        /\ UNCHANGED <<wire, snap>> /\ \A x \in Nodes \ Editors : old'[x] = old[x]
    BY <1>3, <2>1 DEF Commit, TypeOK
  <2> QED BY <2>1, <2>2, PushKeepsShape
<1>4. ASSUME NEW n \in Nodes, SyncRead(n) PROVE ShapeInv'
  BY <1>4 DEF SyncRead, cfgVars, TypeOK, ShapeInv, WireInv, LoopInv, IdleInv, SenderInv
<1>5. ASSUME NEW n \in Nodes, SyncPush(n) PROVE ShapeInv'
  <2>1. n \in Editors /\ live[n] \in Config /\ snap[n] \in Config
    BY <1>5 DEF SyncPush, TypeOK, ShapeInv, IdleInv
  <2>2. /\ loop' = [loop EXCEPT ![n] = Pushed(@, live[n], snap[n])] /\ UNCHANGED wire
        /\ \A x \in Nodes \ Editors : snap'[x] = snap[x] /\ old'[x] = old[x]
    BY <1>5, <2>1 DEF SyncPush, cfgVars, TypeOK
  <2> QED BY <2>1, <2>2, PushKeepsShape
<1>6. ASSUME NEW n \in Nodes, Send(n) PROVE ShapeInv'
  <2>1. loop[n] \in Loops /\ loop[n].st = "ready" /\ n \in Editors
    BY <1>6 DEF Send, TypeOK, ShapeInv, IdleInv, Idle
  <2>2. /\ loop'[n] = [loop[n] EXCEPT !.st = "waiting"]
        /\ \A x \in Nodes \ {n} : loop'[x] = loop[x]
    BY <1>6 DEF Send, TypeOK
  <2>3. loop'[n].st = "waiting" /\ loop'[n].job = loop[n].job /\ loop'[n].pending = loop[n].pending
    BY <2>1, <2>2 DEF Loops
  <2>4. WireInv'
    <3>1. \A m \in wire : m.awaited => m.from # n
      BY <2>1 DEF ShapeInv, WireInv
    <3> QED BY <1>6, <2>2, <2>3, <3>1 DEF Send, ShapeInv, WireInv, TypeOK, Requests
  <2>5. LoopInv'
    <3>1. loop'[n].st # "idle" /\ loop'[n].job # None
      BY <2>1, <2>3 DEF ShapeInv, LoopInv
    <3> QED BY <2>2, <3>1 DEF ShapeInv, LoopInv
  <2>6. IdleInv' /\ SenderInv'
    BY <1>6, <2>1, <2>2 DEF Send, cfgVars, ShapeInv, IdleInv, SenderInv
  <2> QED BY <2>4, <2>5, <2>6 DEF ShapeInv
<1>7. ASSUME NEW n \in Nodes, Timeout(n) PROVE ShapeInv'
  <2>1. n \in Editors
    BY <1>7 DEF Timeout, ShapeInv, IdleInv, Idle
  <2>2. loop' = [loop EXCEPT ![n] = Answered(@)] /\ UNCHANGED <<snap, old>>
    BY <1>7 DEF Timeout, cfgVars
  <2>3. \A m \in wire : m.from \in Editors /\ m \in Requests
    BY DEF ShapeInv, SenderInv, TypeOK
  <2>4. \A m \in wire' : m.from \in Editors /\ (m.awaited => m \in wire /\ m.from # n)
    BY <1>7, <2>3 DEF Timeout, Requests
  <2> QED BY <2>1, <2>2, <2>4, AnswerKeepsShape
<1>8. ASSUME NEW n \in Nodes, NEW m \in wire, Handle(n, m) PROVE ShapeInv'
  <2>1. m \in Requests /\ m.from \in Editors
    BY DEF ShapeInv, SenderInv, TypeOK
  <2>2. wire' = wire \ {m} /\ UNCHANGED <<snap, old>>
    BY <1>8 DEF Handle
  <2>3. CASE m.awaited
    <3>1. loop' = [loop EXCEPT ![m.from] = Answered(@)]
      <4>1. m.from # n
        BY <1>8, <2>1, PeerAssumption, EditorsAssumption DEF Handle
      <4> QED BY <1>8, <2>3, <4>1 DEF Handle, FromSync, TypeOK
    <3>2. \A x \in wire' : x.awaited => x \in wire /\ x.from # m.from
      <4>1. \A x \in wire : x.awaited /\ x.from = m.from => x = m
        BY <2>1, <2>3 DEF ShapeInv, WireInv, TypeOK, Requests
      <4> QED BY <2>2, <4>1
    <3> QED BY <2>1, <2>2, <3>1, <3>2, AnswerKeepsShape DEF ShapeInv, SenderInv
  <2>4. CASE ~m.awaited
    <3>1. UNCHANGED loop
      BY <1>8, <2>4 DEF Handle, FromSync, TypeOK
    <3> QED BY <2>2, <3>1 DEF ShapeInv, WireInv, LoopInv, IdleInv, SenderInv
  <2> QED BY <2>3, <2>4
<1>9. ASSUME NEW n \in Nodes, TickStart(n) \/ TickEnd(n) \/ Boot(n) PROVE ShapeInv'
  BY <1>9 DEF TickStart, TickEnd, Boot, cfgVars, ShapeInv, WireInv, LoopInv, IdleInv, SenderInv
<1>10. ASSUME NEW n \in Nodes, Crash(n) PROVE ShapeInv'
  <2>1. loop'[n] = Idle /\ \A x \in Nodes \ {n} : loop'[x] = loop[x]
    BY <1>10 DEF Crash, TypeOK
  <2>2. \A m \in wire' : m.from \in Editors /\ (m.awaited => m \in wire /\ m.from # n)
    BY <1>10 DEF Crash, ShapeInv, SenderInv, TypeOK, Requests
  <2>3. LoopInv' /\ WireInv' /\ SenderInv'
    BY <2>1, <2>2, IdleShape, EditorsAssumption DEF ShapeInv, LoopInv, WireInv, SenderInv
  <2>4. IdleInv'
    BY <1>10, <2>1 DEF Crash, ShapeInv, IdleInv, TypeOK
  <2> QED BY <2>3, <2>4 DEF ShapeInv
<1> QED
  BY <1>1, <1>2, <1>3, <1>4, <1>5, <1>6, <1>7, <1>8, <1>9, <1>10 DEF Next
-----------------------------------------------------------------------------
(* What the newest payload of a loop and its last status mean.             *)

AgreeInv == NewestInv /\ HonestStatus

Newest(x) == config[x].ha.on /\ ~stale[x] =>
  /\ loop[x].pending # None => loop[x].pending.shared = config[x].shared
  /\ loop[x].st # "idle" /\ loop[x].pending = None => loop[x].job.shared = config[x].shared

Honest(x) ==
  (/\ loop[x].st = "idle" /\ lastSync[x] = "ok" /\ config[x].ha.on
   /\ ~stale[x] /\ ~overtaken[Peer[x]])
     => config[Peer[x]].shared = config[x].shared

(* The agreement invariant, node by node.                                  *)
LEMMA AgreeParts == AgreeInv <=> \A x \in Editors : Newest(x) /\ Honest(x)
  BY DEF AgreeInv, NewestInv, HonestStatus, Newest, Honest

(* A node is the peer of one node only.                                    *)
LEMMA OnePeer ==
  ASSUME NEW x \in Nodes, NEW y \in Nodes
  PROVE  /\ Peer[x] \in Nodes /\ Peer[x] # x
         /\ Peer[x] = Peer[y] => x = y
         /\ x \in Editors => Peer[x] \notin Editors
  BY PeerAssumption, EditorsAssumption

(* A push by a node that runs c: of the committed configuration, or marked *)
(* as stale.  A node that runs without HA pushes nothing.                  *)
LEMMA PushAgrees ==
  ASSUME TypeOK, ShapeInv, AgreeInv,
         NEW n \in Editors, NEW c \in Config, NEW d \in Config, NEW p \in Config,
         loop' = [loop EXCEPT ![n] = Pushed(@, c, p)],
         config' = [config EXCEPT ![n] = d],
         c.ha.on /\ ~stale'[n] => p.shared = d.shared,
         ~c.ha.on => ~d.ha.on \/ (d = config[n] /\ stale'[n] = stale[n]),
         \A x \in Nodes \ {n} : stale'[x] = stale[x],
         UNCHANGED <<lastSync, overtaken>>
  PROVE  AgreeInv'
<1>1. n \in Nodes /\ loop[n] \in Loops /\ p # None
  BY EditorsAssumption, NoneAssumption DEF TypeOK
<1>2. /\ loop'[n] = Pushed(loop[n], c, p) /\ config'[n] = d
      /\ \A x \in Nodes \ {n} : loop'[x] = loop[x] /\ config'[x] = config[x]
  BY <1>1 DEF TypeOK
<1>3. Newest(n) /\ Honest(n) /\ Peer[n] \in Nodes \ {n}
  BY <1>1, AgreeParts, OnePeer
<1>4. Newest(n)' /\ Honest(n)'
  <2>0. /\ loop[n].st = "idle" => loop[n].job = None /\ loop[n].pending = None
        /\ loop[n].st # "idle" => loop[n].job # None
    BY <1>1 DEF ShapeInv, LoopInv
  <2>1. CASE c.ha.on
    <3>1. /\ loop'[n].st # "idle"
          /\ loop'[n].pending = p \/ (loop'[n].pending = None /\ loop'[n].job = p)
      <4> DEFINE q == Pushed(loop[n], c, p)
      <4>1. q.st # "idle" /\ (q.pending = p \/ (q.pending = None /\ q.job = p))
        BY ONLY <1>1, <2>0, <2>1, n \in Editors, c \in Config, p \in Config, PushedShape
      <4> QED BY <1>2, <4>1
    <3> QED BY <1>1, <1>2, <2>1, <3>1 DEF Newest, Honest
  <2>2. CASE ~c.ha.on
    <3>1. loop'[n] = loop[n]
      BY <1>2, <2>2 DEF Pushed
    <3> QED BY <1>2, <1>3, <2>2, <3>1 DEF Newest, Honest
  <2> QED BY <2>1, <2>2
<1>5. ASSUME NEW x \in Editors, x # n PROVE Newest(x)' /\ Honest(x)'
  <2>1. x \in Nodes /\ Peer[x] # n /\ Peer[x] \in Nodes
    BY EditorsAssumption, OnePeer
  <2>2. Newest(x) /\ Honest(x)
    BY AgreeParts
  <2> QED BY <1>2, <1>5, <2>1, <2>2 DEF Newest, Honest
<1> QED BY <1>4, <1>5, AgreeParts DEF AgreeInv, NewestInv, HonestStatus, Newest, Honest

(* configure resets a status or leaves it: it never makes one "ok".        *)
LEMMA ConfigureAgrees ==
  ASSUME TypeOK, AgreeInv, NEW n \in Nodes, NEW c, Configure(n, c),
         UNCHANGED <<loop, config, stale, overtaken>>
  PROVE  AgreeInv'
<1>1. \A x \in Nodes : lastSync'[x] = "ok" => lastSync[x] = "ok"
  BY DEF Configure, TypeOK
<1>2. ASSUME NEW x \in Editors PROVE Newest(x)' /\ Honest(x)'
  <2>1. x \in Nodes /\ Newest(x) /\ Honest(x)
    BY EditorsAssumption, AgreeParts
  <2> QED BY <1>1, <2>1 DEF Newest, Honest
<1> QED BY <1>2 DEF AgreeInv, NewestInv, HonestStatus, Newest, Honest

(* Every step keeps the newest payload and the status honest.              *)
LEMMA AgreeStep ==
  ASSUME TypeOK, ShapeInv, AgreeInv, [Next]_vars
  PROVE  AgreeInv'
<1>1. CASE UNCHANGED vars
  BY <1>1 DEF vars, AgreeInv, NewestInv, HonestStatus
<1>2. ASSUME NEW n \in Nodes, Edit(n) \/ SetHA(n) \/ RollBack(n) PROVE AgreeInv'
  <2>1. UNCHANGED <<loop, config, stale, overtaken>>
    BY <1>2 DEF Edit, SetHA, Swap, RollBack, historyVars
  <2>2. (\E c : Configure(n, c)) \/ UNCHANGED lastSync
    BY <1>2 DEF Edit, SetHA, Swap, RollBack
  <2>3. CASE \E c : Configure(n, c)
    BY <2>1, <2>3, ConfigureAgrees
  <2>4. CASE UNCHANGED lastSync
    BY <2>1, <2>4 DEF AgreeInv, NewestInv, HonestStatus
  <2> QED BY <2>2, <2>3, <2>4
<1>3. ASSUME NEW n \in Nodes, Commit(n) PROVE AgreeInv'
  <2>1. n \in Editors /\ live[n] \in Config
    BY <1>3 DEF Commit, TypeOK, ShapeInv, IdleInv
  <2>2. Payload(live[n]) \in Config /\ Payload(live[n]).shared = live[n].shared
    BY <2>1, ConfigShape
  <2>3. /\ loop' = [loop EXCEPT ![n] = Pushed(@, live[n], Payload(live[n]))]
        /\ config' = [config EXCEPT ![n] = live[n]] /\ UNCHANGED <<lastSync, overtaken>>
        /\ \A x \in Nodes \ {n} : stale'[x] = stale[x]
    BY <1>3 DEF Commit, TypeOK
  <2> QED BY <2>1, <2>2, <2>3, PushAgrees
<1>4. ASSUME NEW n \in Nodes, SyncRead(n) \/ TickStart(n) \/ TickEnd(n) \/ Boot(n)
      PROVE  AgreeInv'
  BY <1>4 DEF SyncRead, TickStart, TickEnd, Boot, cfgVars, historyVars,
              AgreeInv, NewestInv, HonestStatus
<1>5. ASSUME NEW n \in Nodes, SyncPush(n) PROVE AgreeInv'
  <2>1. n \in Editors /\ live[n] \in Config /\ config[n] \in Config /\ snap[n] \in Config
    BY <1>5 DEF SyncPush, TypeOK, ShapeInv, IdleInv
  <2>2. /\ loop' = [loop EXCEPT ![n] = Pushed(@, live[n], snap[n])]
        /\ config' = [config EXCEPT ![n] = config[n]] /\ UNCHANGED <<lastSync, overtaken>>
        /\ \A x \in Nodes \ {n} : stale'[x] = stale[x]
        /\ live[n].ha.on => stale'[n] = (snap[n].shared # config[n].shared)
        /\ ~live[n].ha.on => stale'[n] = stale[n]
    BY <1>5, <2>1 DEF SyncPush, cfgVars, TypeOK
  <2> QED BY <2>1, <2>2, PushAgrees
<1>6. ASSUME NEW n \in Nodes, Send(n) PROVE AgreeInv'
  <2>1. loop[n] \in Loops /\ loop[n].st = "ready"
    BY <1>6 DEF Send, TypeOK
  <2>2. /\ loop'[n] = [loop[n] EXCEPT !.st = "waiting"]
        /\ \A x \in Nodes \ {n} : loop'[x] = loop[x]
    BY <1>6 DEF Send, TypeOK
  <2>3. loop'[n].st = "waiting" /\ loop'[n].job = loop[n].job /\ loop'[n].pending = loop[n].pending
    BY <2>1, <2>2 DEF Loops
  <2>4. UNCHANGED <<config, lastSync, stale, overtaken>>
    BY <1>6 DEF Send, cfgVars, historyVars
  <2>5. ASSUME NEW x \in Editors PROVE Newest(x)' /\ Honest(x)'
    <3>1. x \in Nodes /\ Newest(x) /\ Honest(x)
      BY EditorsAssumption, AgreeParts
    <3>2. CASE x = n
      BY <2>1, <2>3, <2>4, <3>1, <3>2 DEF Newest, Honest
    <3>3. CASE x # n
      BY <2>2, <2>4, <3>1, <3>3 DEF Newest, Honest
    <3> QED BY <3>2, <3>3
  <2> QED BY <2>5 DEF AgreeInv, NewestInv, HonestStatus, Newest, Honest
<1>7. ASSUME NEW n \in Nodes, Timeout(n) PROVE AgreeInv'
  <2>1. /\ loop'[n] = Answered(loop[n]) /\ lastSync'[n] = "error"
        /\ \A x \in Nodes \ {n} : loop'[x] = loop[x] /\ lastSync'[x] = lastSync[x]
    BY <1>7 DEF Timeout, Record, TypeOK
  <2>2. UNCHANGED <<config, stale, overtaken>>
    BY <1>7 DEF Timeout, cfgVars, historyVars
  <2>3. ASSUME NEW x \in Editors PROVE Newest(x)' /\ Honest(x)'
    <3>1. x \in Nodes /\ Newest(x) /\ Honest(x) /\ loop[x] \in Loops
      BY EditorsAssumption, AgreeParts DEF TypeOK
    <3>2. CASE x = n
      BY <2>1, <2>2, <3>1, <3>2, AnsweredShape DEF Newest, Honest
    <3>3. CASE x # n
      BY <2>1, <2>2, <3>1, <3>3 DEF Newest, Honest
    <3> QED BY <3>2, <3>3
  <2> QED BY <2>3 DEF AgreeInv, NewestInv, HonestStatus, Newest, Honest
<1>8. ASSUME NEW n \in Nodes, Crash(n) PROVE AgreeInv'
  <2>1. /\ loop'[n] = Idle /\ lastSync'[n] = "none"
        /\ \A x \in Nodes \ {n} : loop'[x] = loop[x] /\ lastSync'[x] = lastSync[x]
    BY <1>8 DEF Crash, TypeOK
  <2>2. UNCHANGED <<config, stale, overtaken>>
    BY <1>8 DEF Crash, historyVars
  <2>3. ASSUME NEW x \in Editors PROVE Newest(x)' /\ Honest(x)'
    <3>1. x \in Nodes /\ Newest(x) /\ Honest(x)
      BY EditorsAssumption, AgreeParts
    <3>2. CASE x = n
      BY <2>1, <2>2, <3>1, <3>2, IdleShape DEF Newest, Honest
    <3>3. CASE x # n
      BY <2>1, <2>2, <3>1, <3>3 DEF Newest, Honest
    <3> QED BY <3>2, <3>3
  <2> QED BY <2>3 DEF AgreeInv, NewestInv, HonestStatus, Newest, Honest
<1>9. ASSUME NEW n \in Nodes, NEW m \in wire, Handle(n, m) PROVE AgreeInv'
  <2>1. m \in Requests /\ m.from \in Editors /\ m.from \in Nodes /\ n = Peer[m.from]
    BY <1>9 DEF ShapeInv, SenderInv, TypeOK, Requests, Handle
  <2>2. m.cfg \in Config /\ live[n] \in Config /\ n \notin Editors /\ n # m.from
    BY <2>1, OnePeer DEF Requests, TypeOK
  <2>3. \/ config' = config /\ overtaken' = overtaken
        \/ /\ config' = [config EXCEPT ![n] = Merge(live[n], m.cfg)]
           /\ overtaken' = [overtaken EXCEPT ![n] = ~m.awaited]
    BY <1>9 DEF Handle
  <2>4. UNCHANGED stale
    BY <1>9 DEF Handle
  <2>5. \A x \in Nodes \ {n} : config'[x] = config[x] /\ overtaken'[x] = overtaken[x]
    BY <2>3 DEF TypeOK
  <2>7. \A x \in Nodes \ {m.from} : loop'[x] = loop[x] /\ lastSync'[x] = lastSync[x]
    <3>1. loop' = loop \/ loop' = [loop EXCEPT ![m.from] = Answered(loop[m.from])]
      BY <1>9, <2>1, <2>2 DEF Handle, FromSync, TypeOK
    <3>2. lastSync' = lastSync \/ \E r \in {"ok", "error"} : lastSync' = [lastSync EXCEPT ![m.from] = r]
      BY <1>9 DEF Handle, Record
    <3> QED BY <2>1, <3>1, <3>2 DEF TypeOK
  <2>8. ASSUME NEW x \in Editors, x # m.from PROVE Newest(x)' /\ Honest(x)'
    <3>1. x \in Nodes /\ x # n /\ Peer[x] \in Nodes /\ Peer[x] # n
      BY <2>1, <2>2, <2>8, EditorsAssumption, OnePeer
    <3>2. Newest(x) /\ Honest(x)
      BY AgreeParts
    <3> QED BY <2>4, <2>5, <2>7, <2>8, <3>1, <3>2 DEF Newest, Honest
  <2>9. CASE ~m.awaited
    <3>1. UNCHANGED <<loop, lastSync>>
      BY <1>9, <2>9 DEF Handle, FromSync, TypeOK
    <3>2. \/ config' = config /\ overtaken' = overtaken
          \/ overtaken'[Peer[m.from]]
      BY <2>1, <2>3, <2>9 DEF TypeOK
    <3>3. Newest(m.from) /\ Honest(m.from)
      BY <2>1, AgreeParts
    <3>4. Newest(m.from)' /\ Honest(m.from)'
      BY <2>1, <2>2, <2>4, <2>5, <3>1, <3>2, <3>3 DEF Newest, Honest
    <3> QED BY <2>8, <3>4 DEF AgreeInv, NewestInv, HonestStatus, Newest, Honest
  <2>10. CASE m.awaited
    <3>1. loop'[m.from] = Answered(loop[m.from]) /\ loop[m.from] \in Loops
      BY <1>9, <2>1, <2>2, <2>10 DEF Handle, FromSync, TypeOK
    <3>2. \/ lastSync'[m.from] = "error"
          \/ config' = [config EXCEPT ![n] = Merge(live[n], m.cfg)]
      BY <1>9, <2>1, <2>10 DEF Handle, Record, TypeOK
    <3>3. loop[m.from].st = "waiting" /\ loop[m.from].job = m.cfg
      BY <2>10 DEF ShapeInv, WireInv
    <3>4. Newest(m.from)
      BY <2>1, AgreeParts
    <3>5. Newest(m.from)'
      BY <2>1, <2>2, <2>4, <2>5, <3>1, <3>4, AnsweredShape DEF Newest
    <3>6. Honest(m.from)'
      <4>1. CASE lastSync'[m.from] = "error"
        BY <4>1 DEF Honest
      <4>2. CASE config' = [config EXCEPT ![n] = Merge(live[n], m.cfg)]
        <5>1. config'[Peer[m.from]].shared = m.cfg.shared
          BY <2>1, <2>2, <4>2, ConfigShape DEF TypeOK
        <5>2. loop'[m.from].st = "idle" => loop[m.from].pending = None
          BY <3>1, AnsweredShape
        <5> QED BY <2>1, <2>2, <2>4, <2>5, <3>3, <3>4, <5>1, <5>2 DEF Newest, Honest
      <4> QED BY <3>2, <4>1, <4>2
    <3> QED BY <2>8, <3>5, <3>6 DEF AgreeInv, NewestInv, HonestStatus, Newest, Honest
  <2> QED BY <2>1, <2>9, <2>10 DEF Requests
<1> QED
  BY <1>1, <1>2, <1>3, <1>4, <1>5, <1>6, <1>7, <1>8, <1>9 DEF Next
-----------------------------------------------------------------------------
(* Every configuration a node has, runs or goes back to carries the same   *)
(* tie-breaker, whatever is applied, merged, rolled back or lost.          *)
LEMMA TieStep ==
  ASSUME TypeOK, TieInv, [Next]_vars
  PROVE  TieInv' /\ \A x \in Nodes : live'[x].ha.primary = live[x].ha.primary
<1>1. CASE UNCHANGED vars
  BY <1>1 DEF vars, TieInv
<1>2. ASSUME NEW n \in Nodes, NEW c \in Config, Swap(n, c), c.ha.primary = live[n].ha.primary
      PROVE  TieInv' /\ \A x \in Nodes : live'[x].ha.primary = live[x].ha.primary
  BY <1>2, NoneAssumption DEF Swap, TypeOK, TieInv
<1>3. ASSUME NEW n \in Nodes, Edit(n) \/ SetHA(n)
      PROVE  TieInv' /\ \A x \in Nodes : live'[x].ha.primary = live[x].ha.primary
  <2>1. live[n] \in Config
    BY DEF TypeOK
  <2>2. CASE Edit(n)
    BY <1>2, <2>1, <2>2, EditShape DEF Edit
  <2>3. CASE SetHA(n)
    BY <1>2, <2>1, <2>3, ToggleShape DEF SetHA
  <2> QED BY <1>3, <2>2, <2>3
<1>4. ASSUME NEW n \in Nodes, Commit(n) \/ RollBack(n)
      PROVE  TieInv' /\ \A x \in Nodes : live'[x].ha.primary = live[x].ha.primary
  <2>1. CASE Commit(n)
    BY <1>4, <2>1 DEF Commit, TypeOK, TieInv
  <2>2. CASE RollBack(n)
    <3>1. old[n] # None /\ old' = [old EXCEPT ![n] = None] /\ config' = config
      BY <2>2 DEF RollBack
    <3>2. live' = live \/ live' = [live EXCEPT ![n] = old[n]]
      BY <2>2 DEF RollBack
    <3>3. \A x \in Nodes : live'[x].ha.primary = live[x].ha.primary
      BY <3>1, <3>2 DEF TypeOK, TieInv
    <3> QED BY <3>1, <3>3 DEF TypeOK, TieInv
  <2> QED BY <1>4, <2>1, <2>2
<1>5. ASSUME NEW n \in Nodes, SyncRead(n) \/ SyncPush(n) \/ Send(n) \/ Timeout(n)
                              \/ TickStart(n) \/ TickEnd(n) \/ Boot(n)
      PROVE  TieInv' /\ \A x \in Nodes : live'[x].ha.primary = live[x].ha.primary
  <2>1. UNCHANGED cfgVars
    BY <1>5 DEF SyncRead, SyncPush, Send, Timeout, TickStart, TickEnd, Boot
  <2> QED BY <2>1 DEF cfgVars, TieInv
<1>6. ASSUME NEW n \in Nodes, Crash(n)
      PROVE  TieInv' /\ \A x \in Nodes : live'[x].ha.primary = live[x].ha.primary
  BY <1>6 DEF Crash, TypeOK, TieInv
<1>7. ASSUME NEW n \in Nodes, NEW m \in wire, Handle(n, m)
      PROVE  TieInv' /\ \A x \in Nodes : live'[x].ha.primary = live[x].ha.primary
  <2> DEFINE c == Merge(live[n], m.cfg)
  <2>1. c.ha = live[n].ha
    BY ConfigShape DEF TypeOK, Requests
  <2>2. /\ config' = config \/ config' = [config EXCEPT ![n] = c]
        /\ live' = live \/ live' = [live EXCEPT ![n] = c]
        /\ old' = old /\ old[n] = None
    BY <1>7 DEF Handle
  <2> HIDE DEF c
  <2>3. \A x \in Nodes : /\ config'[x].ha.primary = config[x].ha.primary
                         /\ live'[x].ha.primary = live[x].ha.primary
    BY <2>1, <2>2 DEF TypeOK, TieInv
  <2> QED BY <2>2, <2>3 DEF TieInv
<1> QED BY <1>1, <1>3, <1>4, <1>5, <1>6, <1>7 DEF Next
-----------------------------------------------------------------------------
(* Two booted nodes with opposite tie-breakers satisfy the invariant.      *)
LEMMA InitialInvariant ==
  ASSUME Init PROVE IInv
<1>1. \A n \in Nodes : loop[n] = Idle /\ lastSync[n] = "none" /\ snap[n] = None /\ old[n] = None
  BY DEF Init
<1>2. TypeOK
  BY IdleShape DEF Init, TypeOK
<1>3. WireInv /\ SenderInv
  BY DEF Init, WireInv, SenderInv
<1>4. LoopInv /\ IdleInv
  BY <1>1, IdleShape DEF LoopInv, IdleInv
<1>5. NewestInv /\ HonestStatus
  BY <1>1, IdleShape, EditorsAssumption DEF NewestInv, HonestStatus
<1>6. OnePrimary /\ TieInv
  BY <1>1 DEF Init, OnePrimary, TieInv
<1> QED BY <1>2, <1>3, <1>4, <1>5, <1>6 DEF IInv

(* The inductive invariant of the pair: what the loops, the requests on    *)
(* the wire and the two configurations have to do with each other, for     *)
(* every set of pairs and every bound.                                     *)
THEOREM PairInvariant == Spec => []IInv
<1>1. Init => IInv
  BY InitialInvariant
<1>2. IInv /\ [Next]_vars => IInv'
  <2> SUFFICES ASSUME IInv, [Next]_vars PROVE IInv'
    OBVIOUS
  <2>1. TypeOK' /\ ShapeInv' /\ AgreeInv' /\ TieInv'
    BY TypeStep, ShapeStep, AgreeStep, TieStep DEF IInv, ShapeInv, AgreeInv
  <2>2. OnePrimary'
    BY TieStep, PeerAssumption DEF IInv, OnePrimary
  <2> QED BY <2>1, <2>2 DEF IInv, ShapeInv, AgreeInv
<1> QED BY <1>1, <1>2, PTL DEF Spec

(* LastSync does not lie (handleHAPeerConfig, runSyncLoop, pushConfig).    *)
THEOREM StatusIsHonest == Spec => []HonestStatus
<1>1. IInv => HonestStatus
  BY DEF IInv
<1> QED BY <1>1, PairInvariant, PTL

(* Syncing never disturbs the tie-breaker (mergePeerConfig).               *)
THEOREM TieBreakerKept == Spec => []OnePrimary
<1>1. IInv => OnePrimary
  BY DEF IInv
<1> QED BY <1>1, PairInvariant, PTL

(* A configuration taken from the peer is not pushed back.                 *)
THEOREM NeverEchoes == Spec => []NoEcho
<1>1. IInv => NoEcho
  BY DEF IInv, IdleInv, NoEcho
<1> QED BY <1>1, PairInvariant, PTL

(* Nothing comes late: no push of a configuration read before the lock, no *)
(* request outlives its client's wait or its client.                       *)
Timely == Faults \cap {"manual", "late", "crash"} = {}

(* Then every request is awaited and every push is of what is committed.   *)
TimelyInv ==
  /\ \A n \in Nodes : snap[n] = None /\ stale[n] = FALSE /\ overtaken[n] = FALSE
  /\ \A m \in wire : m.awaited

(* Every step keeps it so.                                                 *)
LEMMA TimelyStep ==
  ASSUME Timely, TypeOK, TimelyInv, [Next]_vars
  PROVE  TimelyInv'
<1>1. /\ stale \in [Nodes -> BOOLEAN] /\ overtaken \in [Nodes -> BOOLEAN]
      /\ snap \in [Nodes -> Config \cup {None}]
      /\ "manual" \notin Faults /\ "late" \notin Faults /\ "crash" \notin Faults
  BY DEF TypeOK, Timely
<1>2. ASSUME NEW n \in Nodes, Edit(n) \/ SetHA(n) \/ RollBack(n) \/ Commit(n) PROVE TimelyInv'
  <2>1. /\ wire' = wire /\ snap' = snap /\ overtaken' = overtaken
        /\ stale' = stale \/ stale' = [stale EXCEPT ![n] = FALSE]
    BY <1>2 DEF Edit, SetHA, Swap, RollBack, Commit, historyVars
  <2> QED BY <1>1, <2>1 DEF TimelyInv
<1>3. ASSUME NEW n \in Nodes, SyncRead(n) \/ SyncPush(n) \/ Crash(n) PROVE FALSE
  BY <1>1, <1>3 DEF SyncRead, SyncPush, Crash, Fault, TimelyInv
<1>4. ASSUME NEW n \in Nodes, Send(n) PROVE TimelyInv'
  <2>1. /\ UNCHANGED <<snap, stale, overtaken>>
        /\ wire' = wire \cup {[from |-> n, cfg |-> loop[n].job, awaited |-> TRUE]}
    BY <1>4 DEF Send, historyVars
  <2> QED BY <2>1 DEF TimelyInv
<1>5. ASSUME NEW n \in Nodes, NEW m \in wire, Handle(n, m) PROVE TimelyInv'
  <2>1. m.awaited
    BY DEF TimelyInv
  <2>2. /\ UNCHANGED <<snap, stale>> /\ wire' = wire \ {m}
        /\ overtaken' = overtaken \/ overtaken' = [overtaken EXCEPT ![n] = ~m.awaited]
    BY <1>5 DEF Handle
  <2> QED BY <1>1, <2>1, <2>2 DEF TimelyInv
<1>6. ASSUME NEW n \in Nodes, Timeout(n) PROVE TimelyInv'
  <2>1. UNCHANGED <<snap, stale, overtaken>> /\ wire' \subseteq wire
    BY <1>1, <1>6 DEF Timeout, Fault, historyVars
  <2> QED BY <2>1 DEF TimelyInv
<1>7. ASSUME NEW n \in Nodes, TickStart(n) \/ TickEnd(n) \/ Boot(n) PROVE TimelyInv'
  <2>1. UNCHANGED <<snap, stale, overtaken, wire>>
    BY <1>7 DEF TickStart, TickEnd, Boot, historyVars
  <2> QED BY <2>1 DEF TimelyInv
<1>8. CASE UNCHANGED vars
  BY <1>8 DEF vars, TimelyInv
<1> QED BY <1>2, <1>3, <1>4, <1>5, <1>6, <1>7, <1>8 DEF Next

(* pushConfig's comment holds when nothing comes late: whatever is lost,   *)
(* refused or rolled back, a peer that was synced has the newest committed configuration. *)
THEOREM ConvergesWhenTimely == ASSUME Timely PROVE Spec => []PeerConverges
<1>1. Init => TimelyInv
  BY DEF Init, TimelyInv
<1>2. IInv /\ TimelyInv /\ [Next]_vars => TimelyInv'
  BY TimelyStep DEF IInv
<1>3. IInv /\ TimelyInv => PeerConverges
  <2> SUFFICES ASSUME IInv, TimelyInv, NEW n \in Editors,
                      loop[n].st = "idle", lastSync[n] = "ok", config[n].ha.on
               PROVE  config[Peer[n]].shared = config[n].shared
    BY DEF PeerConverges
  <2>1. n \in Nodes /\ Peer[n] \in Nodes
    BY EditorsAssumption, PeerAssumption
  <2>2. ~stale[n] /\ ~overtaken[Peer[n]]
    BY <2>1 DEF TimelyInv
  <2> QED BY <2>2 DEF IInv, HonestStatus
<1> QED BY <1>1, <1>2, <1>3, PairInvariant, PTL DEF Spec
=============================================================================
