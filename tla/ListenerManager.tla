-------------------------- MODULE ListenerManager --------------------------
(***************************************************************************)
(* The data-plane sockets of one process (listeners.go): the listener      *)
(* manager that opens and closes them when a configuration is applied, the *)
(* goroutines that serve and close them, and the one-second timers that    *)
(* retry a bind.  applyEx (ControlPlane) calls reconcile first and swaps   *)
(* the runtime later, possibly after a rollback; timers and goroutines run *)
(* in between.                                                             *)
(*                                                                         *)
(* A key of the manager is a public TCP address or the path of the Unix    *)
(* socket that serves an address owned by the TLS frontend.  A bind of a   *)
(* TCP address fails while any socket holds it; a bind of a path replaces  *)
(* what is there, and every close unlinks the path, whoever owns it.       *)
(***************************************************************************)
EXTENDS Integers, FiniteSets, Functions

CONSTANTS Tcp,         \* public addresses
          Internal,    \* function: address -> its Unix socket key
          None,        \* no listener, no configuration
          Listeners,   \* identities of *managedListener values
          Configs,     \* listenerSet of the configurations that are applied
          MaxFaults,   \* bound: foreign binds and failing Serve calls
          MaxApplies   \* bound: applied configurations

Unix == Range(Internal)
Keys == Tcp \cup Unix

ASSUME KeysAssumption == /\ Internal \in [Tcp -> Unix] /\ Tcp \cap Unix = {}
                         /\ None \notin Keys \cup Listeners
(* An address is served by the process or left to the TLS frontend.         *)
ASSUME ConfigsAssumption ==
  /\ Configs \subseteq [Keys -> {"off", "plain", "tls"}] /\ None \notin Configs
  /\ \A c \in Configs, k \in Tcp : c[k] = "off" \/ c[Internal[k]] = "off"
ASSUME BoundsAssumption == MaxFaults \in Nat /\ MaxApplies \in Nat

VARIABLES
  rt,        \* listenerSet(s.rt.Load().cfg)
  target,    \* the configuration reconciled but not swapped in yet, or None
  live,      \* m.live: key -> listener
  sock,      \* listener -> its key, protocol and state
  path,      \* Unix key -> listener whose socket the path leads to
  pending,   \* retry timers: <<key, protocol>>
  foreign,   \* addresses held by another process
  down,      \* shutdown has run
  strayed,   \* history: how the manager lost track of the configuration
  clobbered, \* history: paths rebound while their old listener was closing
  faults, applies

vars == <<rt, target, live, sock, path, pending, foreign, down, strayed,
          clobbered, faults, applies>>

Free == [key |-> None, mode |-> "off", st |-> "free"]
Sockets == [key : Keys \cup {None}, mode : {"off", "plain", "tls"},
            st : {"free", "up", "closing", "unlinking"}]

Unused == {l \in Listeners : sock[l].st = "free"}

(* The sockets of a TCP address: bound until the listener is closed.       *)
Bound(k) == {l \in Listeners : sock[l].key = k /\ sock[l].st \in {"up", "closing"}}

(* Mutated form: a free address is refused.                                *)
AlwaysBlocked(k) == k \in Tcp

(* prepare fails with EADDRINUSE.                                          *)
Blocked(k) == k \in Tcp /\ (k \in foreign \/ Bound(k) # {})

On(c) == {k \in Keys : c[k] # "off"}
Lit == {k \in Keys : live[k] # None}

(* Public addresses whose TLS the configuration leaves to the frontend.    *)
FrontendOwned(c) == {k \in Tcp : c[Internal[k]] # "off"}


(* prepare and serveBound for the keys of f, in the protocol c gives them. *)
Serving(f, c, s) == [l \in Listeners |->
   IF l \in Range(f) THEN LET k == CHOOSE k \in DOMAIN f : f[k] = l
                          IN  [key |-> k, mode |-> c[k], st |-> "up"]
                     ELSE s[l]]

(* startAll: one bind attempt for each desired key, a timer where it fails.*)
Init ==
  /\ rt \in Configs /\ target = None
  /\ foreign \in SUBSET Tcp
  /\ \E f \in Injection(On(rt) \ foreign, Listeners) :
       /\ live = [k \in Keys |-> IF k \in DOMAIN f THEN f[k] ELSE None]
       /\ sock = Serving(f, rt, [l \in Listeners |-> Free])
       /\ path = [u \in Unix |-> IF u \in DOMAIN f THEN f[u] ELSE None]
  /\ pending = {<<k, rt[k]>> : k \in On(rt) \cap foreign}
  /\ down = FALSE /\ strayed = FALSE /\ clobbered = {}
  /\ faults = 0 /\ applies = 0

-----------------------------------------------------------------------------
(* listenerManager.reconcile, under m.mu.                                  *)

(* Mutated form: every kept listener is reopened.                          *)
ReopenAll(c) == On(c) \cap Lit

Fresh(c) == On(c) \ Lit
Flipped(c) == {k \in On(c) \cap Lit : sock[live[k]].mode # c[k]}
Removed(c) == Lit \ On(c)

(* A removed listener is closed by a goroutine; one that hands its address *)
(* to the frontend is closed before reconcile returns.                     *)
Close(c, s) == [l \in Listeners |->
   IF s[l].st = "up" /\ s[l].key \in Removed(c) /\ live[s[l].key] = l
   THEN IF s[l].key \in FrontendOwned(c) THEN Free ELSE [s[l] EXCEPT !.st = "closing"]
   ELSE s[l]]

Repath(f) == [u \in Unix |-> IF u \in DOMAIN f THEN f[u] ELSE path[u]]

ReconcileOK(c) ==
  /\ \A k \in Fresh(c) : ~Blocked(k)
  /\ \E f \in Injection(Fresh(c) \cup Flipped(c), Unused) :
       /\ live' = [k \in Keys |-> IF k \in DOMAIN f THEN f[k]
                                  ELSE IF k \in On(c) THEN live[k] ELSE None]
       /\ sock' = Serving(f, c, Close(c, [l \in Listeners |->
                     IF \E k \in Flipped(c) : live[k] = l THEN Free ELSE sock[l]]))
       /\ path' = Repath(f)
  /\ clobbered' = clobbered \cup {u \in Unix \cap Fresh(c) :
                     \E l \in Listeners : sock[l].key = u /\ sock[l].st # "free"}
  /\ UNCHANGED <<foreign, faults>>

(* A new address is taken: what was prepared is closed again.              *)
ReconcileBlocked(c) ==
  /\ \E k \in Fresh(c) : Blocked(k)
  /\ UNCHANGED <<live, sock, path, clobbered, foreign, faults>>

(* restoreOldLocked: what does not fit the old configuration is closed, and *)
(* what it lacks is started; a bind that fails is only reported.  f gives   *)
(* the started keys their listeners, lost is the address just taken.        *)
RestoreOld(keep, lost) ==
  LET closed == {live[j] : j \in Lit \ keep}
      start == {j \in On(rt) \ keep :
                  /\ j \notin foreign \cup {lost}
                  /\ j \in Tcp => \A l \in Listeners : sock[l].key = j => l \in closed}
  IN \E f \in Injection(start, Unused \cup closed) :
       /\ live' = [j \in Keys |-> IF j \in start THEN f[j]
                                  ELSE IF j \in keep THEN live[j] ELSE None]
       /\ sock' = Serving(f, rt, [l \in Listeners |-> IF l \in closed THEN Free ELSE sock[l]])
       /\ path' = [u \in Unix |-> IF u \in start THEN f[u]
                                  ELSE IF u \in Lit \ keep THEN None ELSE path[u]]
       /\ clobbered' = clobbered \cup {u \in Unix \cap start :
                          \E l \in Listeners \ closed : sock[l].key = u}

(* The address of a protocol flip is taken between its close and its bind, *)
(* after some other flips: the old listeners come back, except that one.   *)
ReconcileFlipLost(c) ==
  /\ \A k \in Fresh(c) : ~Blocked(k)
  /\ faults < MaxFaults /\ faults' = faults + 1
  /\ \E k \in Flipped(c) \cap Tcp :
       /\ foreign' = foreign \cup {k}
       /\ \E others \in SUBSET (Flipped(c) \ {k}) :
            RestoreOld({j \in Lit \ (others \cup {k}) : sock[live[j]].mode = rt[j]}, k)

ReconcileFails(c) == ReconcileBlocked(c) \/ ReconcileFlipLost(c)

-----------------------------------------------------------------------------
(* applyEx, as far as the listeners see it.                                *)

Apply ==
  /\ ~down /\ target = None /\ applies < MaxApplies
  /\ applies' = applies + 1
  /\ \E c \in Configs \ {rt} :
       \/ ReconcileOK(c) /\ target' = c /\ strayed' = FALSE
       \/ /\ ReconcileFails(c) /\ target' = None
          /\ strayed' = (strayed \/ \E k \in On(rt) : live[k] # None /\ live'[k] = None)
  /\ UNCHANGED <<rt, pending, down>>

Swap ==
  /\ target # None
  /\ rt' = target /\ target' = None
  /\ UNCHANGED <<live, sock, path, pending, foreign, down, strayed, clobbered, faults, applies>>

(* A later step of applyEx failed: reconcile(oldCfg), whose error is only  *)
(* logged.                                                                 *)
Rollback ==
  /\ target # None /\ target' = None
  /\ \/ ReconcileOK(rt) /\ strayed' = FALSE
     \/ ReconcileFails(rt) /\ strayed' = TRUE
  /\ UNCHANGED <<rt, pending, down, applies>>

-----------------------------------------------------------------------------
(* Goroutines and timers.                                                  *)

(* Mutated form: the timer does not ask whether the address is desired.    *)
AlwaysWanted(k, mode) == TRUE

Wanted(k, mode) == rt[k] = mode

(* retry: it looks at the runtime's configuration, which during an apply   *)
(* is the old one.                                                         *)
Retry(k, mode) ==
  /\ <<k, mode>> \in pending
  /\ IF live[k] = None /\ Wanted(k, mode)
       THEN IF Blocked(k)
              THEN UNCHANGED <<live, sock, path, pending, clobbered>>
              ELSE /\ \E l \in Unused :
                        /\ live' = [live EXCEPT ![k] = l]
                        /\ sock' = [sock EXCEPT ![l] = [key |-> k, mode |-> mode, st |-> "up"]]
                        /\ path' = IF k \in Unix THEN [path EXCEPT ![k] = l] ELSE path
                   /\ pending' = pending \ {<<k, mode>>}
                   /\ clobbered' = IF k \in Unix /\ \E l \in Listeners : sock[l].key = k
                                     THEN clobbered \cup {k} ELSE clobbered
       ELSE /\ pending' = pending \ {<<k, mode>>}
            /\ UNCHANGED <<live, sock, path, clobbered>>
  /\ strayed' = (strayed \/ (/\ target # None /\ target[k] # rt[k]
                            /\ live[k] = None /\ pending' # pending))
  /\ UNCHANGED <<rt, target, foreign, down, faults, applies>>

(* Serve returns an error: listenerFailed, then the deferred close.        *)
ServeFails(l) ==
  /\ sock[l].st = "up" /\ faults < MaxFaults /\ faults' = faults + 1
  /\ LET k == sock[l].key
     IN /\ live' = IF live[k] = l THEN [live EXCEPT ![k] = None] ELSE live
        /\ pending' = pending \cup {<<k, sock[l].mode>>}
        /\ path' = IF k \in Unix THEN [path EXCEPT ![k] = None] ELSE path
  /\ sock' = [sock EXCEPT ![l] = Free]
  /\ UNCHANGED <<rt, target, foreign, down, strayed, clobbered, applies>>

(* gracefulClose: Shutdown closes the socket, which unlinks its path.      *)
CloseSocket(l) ==
  /\ sock[l].st = "closing"
  /\ IF sock[l].key \in Unix
       THEN /\ path' = [path EXCEPT ![sock[l].key] = None]
            /\ sock' = [sock EXCEPT ![l].st = "unlinking"]
       ELSE sock' = [sock EXCEPT ![l] = Free] /\ UNCHANGED path
  /\ UNCHANGED <<rt, target, live, pending, foreign, down, strayed, clobbered, faults, applies>>

(* serveBound's deferred os.Remove of the path.                            *)
RemovePath(l) ==
  /\ sock[l].st = "unlinking"
  /\ path' = [path EXCEPT ![sock[l].key] = None]
  /\ sock' = [sock EXCEPT ![l] = Free]
  /\ UNCHANGED <<rt, target, live, pending, foreign, down, strayed, clobbered, faults, applies>>

(* shutdown: every listener is closed; the timers are not.                 *)
Shutdown ==
  /\ ~down /\ target = None /\ down' = TRUE
  /\ live' = [k \in Keys |-> None]
  /\ sock' = [l \in Listeners |-> Free]
  /\ path' = [k \in Unix |-> None]
  /\ UNCHANGED <<rt, target, pending, foreign, strayed, clobbered, faults, applies>>

(* Another process takes or gives up an address.                           *)
ForeignBind(k) ==
  /\ faults < MaxFaults /\ faults' = faults + 1
  /\ k \notin foreign /\ Bound(k) = {}
  /\ foreign' = foreign \cup {k}
  /\ UNCHANGED <<rt, target, live, sock, path, pending, down, strayed, clobbered, applies>>

ForeignRelease(k) ==
  /\ k \in foreign /\ foreign' = foreign \ {k}
  /\ UNCHANGED <<rt, target, live, sock, path, pending, down, strayed, clobbered, faults, applies>>
-----------------------------------------------------------------------------
Next ==
  \/ Apply \/ Swap \/ Rollback \/ Shutdown
  \/ \E k \in Keys, mode \in {"plain", "tls"} : Retry(k, mode)
  \/ \E l \in Listeners : ServeFails(l) \/ CloseSocket(l) \/ RemovePath(l)
  \/ \E k \in Tcp : ForeignBind(k) \/ ForeignRelease(k)

Spec == Init /\ [][Next]_vars

(* Timers fire, closing goroutines run, and applyEx either swaps or rolls  *)
(* back.                                                                   *)
FairSpec == /\ Spec
            /\ WF_vars(Swap \/ Rollback)
            /\ \A k \in Keys, mode \in {"plain", "tls"} : WF_vars(Retry(k, mode))
            /\ \A l \in Listeners : WF_vars(CloseSocket(l) \/ RemovePath(l))

-----------------------------------------------------------------------------
(* Properties.                                                             *)

TypeOK ==
  /\ rt \in Configs /\ target \in Configs \cup {None}
  /\ live \in [Keys -> Listeners \cup {None}]
  /\ sock \in [Listeners -> Sockets]
  /\ path \in [Unix -> Listeners \cup {None}]
  /\ pending \subseteq Keys \X {"plain", "tls"}
  /\ foreign \subseteq Tcp /\ clobbered \subseteq Unix
  /\ down \in BOOLEAN /\ strayed \in BOOLEAN
  /\ faults \in 0..MaxFaults /\ applies \in 0..MaxApplies

(* m.live tells the truth: an entry is a listener that serves its key, no  *)
(* listener serves unrecorded, and no address has two sockets or a socket  *)
(* beside another process.                                                 *)
LiveIsTrue ==
  /\ TypeOK
  /\ \A k \in Lit : sock[live[k]].st = "up" /\ sock[live[k]].key = k
  /\ \A l \in Listeners : sock[l].st = "up" => live[sock[l].key] = l
  /\ \A k \in Tcp : Cardinality(Bound(k)) <= 1 /\ (k \in foreign => Bound(k) = {})

(* Between applies every desired address is served, in its protocol, or    *)
(* has a timer that will retry it: startAll, a failing Serve and every     *)
(* outcome of an apply keep this, except a protocol flip or rollback that  *)
(* lost its address and a timer that fired between reconcile and the swap. *)
DesiredIsServed ==
  ~down /\ target = None /\ ~strayed =>
    \A k \in On(rt) : \/ live[k] # None /\ sock[live[k]].mode = rt[k]
                      \/ <<k, rt[k]>> \in pending

(* Between applies nothing listens that the configuration does not want.   *)
NothingElseServed ==
  ~down /\ target = None /\ ~strayed => Lit \subseteq On(rt)

(* The window of an apply: the old configuration still routes requests,    *)
(* and an address the new one keeps is still served; by the same socket,   *)
(* unless the new configuration changes its protocol.                      *)
KeptAcrossApply ==
  [][target = None /\ target' # None =>
       \A k \in On(target') :
         live[k] # None => /\ live'[k] # None
                           /\ sock[live[k]].mode = target'[k] => live'[k] = live[k]]_vars

(* The frontend can reach the Unix socket of every internal listener,      *)
(* unless it was bound while the listener that had the path before was     *)
(* still being closed.                                                     *)
PathReachable ==
  \A u \in Unix \ clobbered : live[u] # None => path[u] = live[u]

(* An apply that leaves a public address to the frontend has closed its    *)
(* socket before the frontend is told to bind it.                          *)
HandoffReleased ==
  [][target = None /\ target' # None =>
       \A k \in FrontendOwned(target') : live[k] # None => sock'[live[k]].st = "free"]_vars

(* The configuration the sockets are for.                                  *)
Current == IF target = None THEN rt ELSE target

(* What keeps the sockets in order, also within the window of an apply:    *)
(* each is in a state its key allows, a path that nobody clobbers has one  *)
(* socket, what is served has the protocol of the configuration they are   *)
(* for, and what is not served of it waits for a timer.                    *)
SocketsInv ==
  /\ \A l \in Listeners : /\ sock[l].st = "free" <=> sock[l].key = None
                          /\ sock[l].st = "up" => sock[l].mode # "off"
                          /\ sock[l].st = "unlinking" => sock[l].key \in Unix
  /\ \A k \in Lit : sock[live[k]].st = "up" /\ sock[live[k]].key = k
  /\ \A l \in Listeners : sock[l].st = "up" => live[sock[l].key] = l
  /\ \A k \in Tcp : \A l, m \in Bound(k) : l = m
  /\ \A k \in foreign : Bound(k) = {}
  /\ \A u \in Unix \ clobbered : live[u] # None =>
       /\ path[u] = live[u]
       /\ \A l \in Listeners : (sock[l].key = u) => (l = live[u])

TrackedInv ==
  /\ down => target = None
  /\ ~down /\ ~strayed =>
       /\ \A k \in Lit : sock[live[k]].mode = Current[k]
       /\ \A k \in On(Current) : live[k] # None \/ <<k, Current[k]>> \in pending

ManagerIInv == TypeOK /\ SocketsInv /\ TrackedInv

(* The sockets are those of the runtime: recorded truly, all that are      *)
(* desired, no others, and reachable.                                      *)
ListenersMatchRuntime == LiveIsTrue /\ DesiredIsServed /\ NothingElseServed /\ PathReachable

(* What an apply does to its sockets before the runtime is swapped.        *)
ApplyWindow == KeptAcrossApply /\ HandoffReleased

(* A timer for an address that stays free and desired ends in a bind.      *)
RetryEnds ==
  \A k \in Keys : (\E mode \in {"plain", "tls"} : <<k, mode>> \in pending)
                    ~> \/ live[k] # None \/ k \in foreign
                       \/ \A mode \in {"plain", "tls"} : <<k, mode>> \notin pending

(* "Bind failures are retried while the socket remains desired."           *)
RetriedWhileDesired ==
  ~down /\ target = None =>
    \A k \in On(rt) : live[k] # None \/ \E mode \in {"plain", "tls"} : <<k, mode>> \in pending
=============================================================================
