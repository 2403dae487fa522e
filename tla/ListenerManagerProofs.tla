------------------------ MODULE ListenerManagerProofs ------------------------
(* Proofs about ListenerManager, for any addresses, configurations and     *)
(* number of listeners, and any interleaving of applies, goroutines and    *)
(* timers.                                                                 *)
EXTENDS ListenerManager, FiniteSetTheorems, TLAPS

Modes == {"off", "plain", "tls"}

(* The keys of the manager.                                                *)
LEMMA KeyFacts ==
  /\ None \notin Keys /\ None \notin Listeners /\ None \notin Configs
  /\ Keys = Tcp \cup Unix /\ Tcp \cap Unix = {}
  /\ \A k \in Tcp : k \in Keys /\ Internal[k] \in Unix
  /\ \A c \in Configs : c \in [Keys -> Modes]
  /\ \A c \in Configs : \A k \in FrontendOwned(c) : k \notin On(c)
<1>1. \A c \in Configs : \A k \in FrontendOwned(c) : k \notin On(c)
  BY ConfigsAssumption DEF FrontendOwned, On
<1> QED BY <1>1, KeysAssumption, ConfigsAssumption DEF Keys, Modes

(* The types of the sockets.                                               *)
SockTypes ==
  /\ live \in [Keys -> Listeners \cup {None}] /\ sock \in [Listeners -> Sockets]
  /\ path \in [Unix -> Listeners \cup {None}]
  /\ foreign \subseteq Tcp /\ clobbered \subseteq Unix

(* Listeners of their own for some keys.                                   *)
LEMMA ServingFacts ==
  ASSUME NEW D \in SUBSET Keys, NEW L \in SUBSET Listeners, NEW f \in Injection(D, L),
         NEW c \in [Keys -> Modes], NEW s \in [Listeners -> Sockets]
  PROVE  /\ DOMAIN f = D /\ f \in [D -> L]
         /\ \A j, k \in D : f[j] = f[k] => j = k
         /\ \A k \in D : Serving(f, c, s)[f[k]] = [key |-> k, mode |-> c[k], st |-> "up"]
         /\ \A l \in Listeners : (\A k \in D : f[k] # l) => Serving(f, c, s)[l] = s[l]
         /\ Serving(f, c, s) \in [Listeners -> Sockets]
<1> DEFINE up(k) == [key |-> k, mode |-> c[k], st |-> "up"]
<1>1. DOMAIN f = D /\ f \in [D -> L] /\ \A j, k \in D : f[j] = f[k] => j = k
  BY DEF Injection, IsInjective
<1>2. \A l : l \in Range(f) <=> \E k \in D : f[k] = l
  BY <1>1 DEF Range
<1>3. ASSUME NEW k \in D
      PROVE  Serving(f, c, s)[f[k]] = up(k)
  <2>1. f[k] \in Listeners /\ f[k] \in Range(f)
    BY <1>1, <1>2
  <2>2. (CHOOSE j \in DOMAIN f : f[j] = f[k]) = k
    BY <1>1
  <2> QED BY <2>1, <2>2 DEF Serving
<1>4. ASSUME NEW l \in Listeners, \A k \in D : f[k] # l
      PROVE  Serving(f, c, s)[l] = s[l]
  BY <1>2, <1>4 DEF Serving
<1>5. \A k \in D : up(k) \in Sockets
  BY DEF Sockets, Modes
<1>6. \A l \in Listeners : Serving(f, c, s)[l] \in Sockets
  BY <1>3, <1>4, <1>5
<1>7. Serving(f, c, s) = [l \in Listeners |-> Serving(f, c, s)[l]]
  BY DEF Serving
<1> QED BY <1>1, <1>3, <1>4, <1>6, <1>7

(* Where a key is recorded, it is the key of a listener that serves it,    *)
(* and of no other key.                                                    *)
LEMMA LitFacts ==
  ASSUME SockTypes, SocketsInv
  PROVE  /\ \A k \in Keys : k \in Lit <=> live[k] # None
         /\ \A k \in Lit : /\ k \in Keys /\ live[k] \in Listeners
                           /\ sock[live[k]].st = "up" /\ sock[live[k]].key = k
         /\ \A l \in Listeners : sock[l].st = "up" => sock[l].key \in Lit /\ live[sock[l].key] = l
         /\ \A l \in Listeners : sock[l].st # "free" => sock[l].key \in Keys
         /\ \A l \in Listeners : sock[l].key = None => sock[l].st = "free"
<1>1. \A l \in Listeners : sock[l] \in Sockets
  BY DEF SockTypes
<1>2. \A l \in Listeners : sock[l].key \in Keys \cup {None}
  BY <1>1 DEF Sockets
<1>3. \A l \in Listeners : sock[l].st # "free" => sock[l].key \in Keys
  BY <1>2 DEF SocketsInv
<1>4. \A k \in Lit : k \in Keys /\ live[k] \in Listeners
  BY DEF Lit, SockTypes
<1>5. \A l \in Listeners : sock[l].st = "up" => sock[l].key \in Lit /\ live[sock[l].key] = l
  BY <1>3, KeyFacts DEF SocketsInv, Lit
<1> QED BY <1>3, <1>4, <1>5 DEF SocketsInv, Lit

(* What becomes of a socket that serves, when a configuration is           *)
(* reconciled.                                                             *)
Reconciled(c, k, q, r) ==
  /\ k \in Flipped(c) => r = Free
  /\ k \in Removed(c) => \/ r = Free
                         \/ k \notin FrontendOwned(c) /\ r = [q EXCEPT !.st = "closing"]
  /\ k \in FrontendOwned(c) => r = Free
  /\ k \in On(c) \ Flipped(c) => r = q

(* A successful reconciliation, socket by socket.                          *)
LEMMA ReconcileSockets ==
  ASSUME SockTypes, SocketsInv, NEW c \in Configs,
         NEW f \in Injection(Fresh(c) \cup Flipped(c), Unused),
         sock' = Serving(f, c, Close(c, [l \in Listeners |->
                    IF \E k \in Flipped(c) : live[k] = l THEN Free ELSE sock[l]]))
  PROVE  /\ DOMAIN f = Fresh(c) \cup Flipped(c)
         /\ \A k \in DOMAIN f : /\ f[k] \in Unused
                                /\ sock'[f[k]] = [key |-> k, mode |-> c[k], st |-> "up"]
         /\ \A j, k \in DOMAIN f : f[j] = f[k] => j = k
         /\ \A l \in Listeners : sock[l].st = "up" => Reconciled(c, sock[l].key, sock[l], sock'[l])
         /\ \A l \in Listeners : sock[l].st # "up" /\ (\A k \in DOMAIN f : f[k] # l)
                                 => sock'[l] = sock[l]
         /\ sock' \in [Listeners -> Sockets]
<1> DEFINE D == Fresh(c) \cup Flipped(c)
           s0 == [l \in Listeners |-> IF \E k \in Flipped(c) : live[k] = l THEN Free ELSE sock[l]]
           s1 == Close(c, s0)
<1>1. D \subseteq Keys /\ Unused \subseteq Listeners /\ c \in [Keys -> Modes]
      /\ Free \in Sockets /\ Free.st = "free"
  BY KeyFacts DEF Fresh, Flipped, On, Unused, Free, Sockets, Lit
<1>2. \A l \in Listeners : sock[l] \in Sockets
  BY DEF SockTypes
<1>3. s0 \in [Listeners -> Sockets]
  BY <1>1, <1>2
<1>4. ASSUME NEW l \in Listeners
      PROVE  s1[l] = IF s0[l].st = "up" /\ s0[l].key \in Removed(c) /\ live[s0[l].key] = l
                     THEN IF s0[l].key \in FrontendOwned(c) THEN Free
                          ELSE [s0[l] EXCEPT !.st = "closing"]
                     ELSE s0[l]
  BY DEF Close
<1>5. ASSUME NEW q \in Sockets
      PROVE  [q EXCEPT !.st = "closing"] \in Sockets
  BY DEF Sockets
<1>6. s1 = [l \in Listeners |-> s1[l]]
  BY DEF Close
<1>7. \A l \in Listeners : s1[l] \in Sockets
  <2> HIDE DEF s0, s1
  <2> QED BY <1>1, <1>3, <1>4, <1>5
<1>8. s1 \in [Listeners -> Sockets]
  <2> HIDE DEF s1
  <2> QED BY <1>6, <1>7
<1>9. sock' = Serving(f, c, s1)
  OBVIOUS
<1>10. \A l \in Listeners : s0[l] = IF \E k \in Flipped(c) : live[k] = l THEN Free ELSE sock[l]
  OBVIOUS
<1>11. \A k \in Flipped(c) : sock[live[k]].st = "up" /\ sock[live[k]].key = k
  BY LitFacts DEF Flipped
<1> HIDE DEF s0, s1, D
<1>12. /\ DOMAIN f = D /\ f \in [D -> Unused]
       /\ \A j, k \in D : f[j] = f[k] => j = k
       /\ \A k \in D : sock'[f[k]] = [key |-> k, mode |-> c[k], st |-> "up"]
       /\ \A l \in Listeners : (\A k \in D : f[k] # l) => sock'[l] = s1[l]
       /\ sock' \in [Listeners -> Sockets]
  <2>1. f \in Injection(D, Unused)
    BY DEF D
  <2>2. D \in SUBSET Keys /\ Unused \in SUBSET Listeners
    BY <1>1
  <2> DEFINE t == Serving(f, c, s1)
  <2>3. /\ DOMAIN f = D /\ f \in [D -> Unused]
        /\ \A j, k \in D : f[j] = f[k] => j = k
        /\ \A k \in D : t[f[k]] = [key |-> k, mode |-> c[k], st |-> "up"]
        /\ \A l \in Listeners : (\A k \in D : f[k] # l) => t[l] = s1[l]
        /\ t \in [Listeners -> Sockets]
    BY <1>1, <1>8, <2>1, <2>2, ServingFacts
  <2> HIDE DEF t
  <2>4. sock' = t
    BY <1>9 DEF t
  <2> QED BY <2>3, <2>4
<1>13. \A k \in D : f[k] \in Unused /\ sock[f[k]].st = "free"
  BY <1>12 DEF Unused
<1>14. ASSUME NEW l \in Listeners, sock[l].st = "up"
       PROVE  Reconciled(c, sock[l].key, sock[l], sock'[l])
  <2>1. sock'[l] = s1[l]
    BY <1>12, <1>13, <1>14
  <2>2. sock[l].key \in Lit /\ live[sock[l].key] = l
    BY <1>14, LitFacts
  <2>3. CASE sock[l].key \in Flipped(c)
    <3>1. s1[l] = Free
      BY <1>1, <1>4, <1>10, <2>2, <2>3
    <3>2. sock[l].key \notin Removed(c)
      BY <2>3 DEF Flipped, Removed
    <3>3. sock[l].key \notin On(c) \ Flipped(c)
      BY <2>3
    <3> QED BY <2>1, <3>1, <3>2, <3>3 DEF Reconciled
  <2>4. CASE sock[l].key \notin Flipped(c)
    <3>1. s0[l] = sock[l]
      BY <1>10, <1>11, <2>4
    <3>3. sock[l].key \in Removed(c) <=> sock[l].key \notin On(c)
      BY <2>2 DEF Removed
    <3>4. sock[l].key \in FrontendOwned(c) => sock[l].key \notin On(c)
      BY KeyFacts
    <3>5. s1[l] = IF sock[l].key \in Removed(c)
                  THEN IF sock[l].key \in FrontendOwned(c) THEN Free
                       ELSE [sock[l] EXCEPT !.st = "closing"]
                  ELSE sock[l]
      BY <1>4, <1>14, <2>2, <3>1
    <3>6. CASE sock[l].key \in Removed(c)
      BY <2>1, <2>4, <3>3, <3>5, <3>6 DEF Reconciled
    <3>7. CASE sock[l].key \notin Removed(c)
      BY <2>1, <2>4, <3>3, <3>4, <3>5, <3>7 DEF Reconciled
    <3> QED BY <3>6, <3>7
  <2> QED BY <2>3, <2>4
<1>15. ASSUME NEW l \in Listeners, sock[l].st # "up", \A k \in D : f[k] # l
       PROVE  sock'[l] = sock[l]
  <2>1. s0[l] = sock[l]
    BY <1>10, <1>11, <1>15
  <2> QED BY <1>4, <1>12, <1>15, <2>1
<1> QED BY <1>12, <1>13, <1>14, <1>15 DEF D

(* A reconciled configuration has all its sockets, in its protocols, and   *)
(* no others; whatever still closes does not get in the way.               *)
LEMMA ReconcileKeeps ==
  ASSUME SockTypes, SocketsInv, NEW c \in Configs, ReconcileOK(c)
  PROVE  /\ SockTypes' /\ SocketsInv' /\ Lit' = On(c)
         /\ \A k \in On(c) : live'[k] # None /\ sock'[live'[k]].mode = c[k]
         /\ \A k \in Keys : live[k] # None /\ k \in On(c) /\ sock[live[k]].mode = c[k]
                            => live'[k] = live[k]
         /\ \A k \in FrontendOwned(c) : live[k] # None => sock'[live[k]] = Free
<1>1. PICK f \in Injection(Fresh(c) \cup Flipped(c), Unused) :
       /\ live' = [k \in Keys |-> IF k \in DOMAIN f THEN f[k]
                                  ELSE IF k \in On(c) THEN live[k] ELSE None]
       /\ sock' = Serving(f, c, Close(c, [l \in Listeners |->
                     IF \E k \in Flipped(c) : live[k] = l THEN Free ELSE sock[l]]))
       /\ path' = Repath(f)
  BY DEF ReconcileOK
<1>2. /\ \A k \in Fresh(c) : ~Blocked(k)
      /\ clobbered' = clobbered \cup {u \in Unix \cap Fresh(c) :
                         \E l \in Listeners : sock[l].key = u /\ sock[l].st # "free"}
      /\ foreign' = foreign
  BY DEF ReconcileOK
<1> DEFINE D == DOMAIN f
<1>3. /\ D = Fresh(c) \cup Flipped(c)
      /\ \A k \in D : /\ f[k] \in Unused
                      /\ sock'[f[k]] = [key |-> k, mode |-> c[k], st |-> "up"]
      /\ \A j, k \in D : f[j] = f[k] => j = k
      /\ \A l \in Listeners : sock[l].st = "up" => Reconciled(c, sock[l].key, sock[l], sock'[l])
      /\ \A l \in Listeners : sock[l].st # "up" /\ (\A k \in D : f[k] # l) => sock'[l] = sock[l]
      /\ sock' \in [Listeners -> Sockets]
  BY <1>1, ReconcileSockets
<1>4. /\ \A k \in On(c) : k \in Keys /\ c[k] # "off"
      /\ \A k \in D : k \in Keys /\ k \in On(c)
      /\ \A k \in On(c) \ D : k \in Lit /\ k \notin Flipped(c) /\ sock[live[k]].mode = c[k]
      /\ \A k \in Flipped(c) : k \in Lit /\ sock[live[k]].mode # c[k]
      /\ \A k \in Fresh(c) : k \notin Lit
      /\ \A k : k \in Removed(c) <=> k \in Lit /\ k \notin On(c)
  BY <1>3 DEF On, Fresh, Flipped, Removed
<1>5. /\ \A k \in D : live'[k] = f[k] /\ f[k] \in Listeners /\ sock[f[k]].st = "free"
      /\ \A k \in On(c) \ D : live'[k] = live[k]
      /\ \A k \in Keys \ On(c) : live'[k] = None
  <2>1. \A k \in Keys : live'[k] = IF k \in D THEN f[k]
                                   ELSE IF k \in On(c) THEN live[k] ELSE None
    BY <1>1
  <2> QED BY <1>3, <1>4, <2>1 DEF Unused
<1>6. /\ \A k \in Lit : /\ k \in Keys /\ live[k] \in Listeners
                        /\ sock[live[k]].st = "up" /\ sock[live[k]].key = k
      /\ \A l \in Listeners : sock[l].st = "up" => sock[l].key \in Lit /\ live[sock[l].key] = l
      /\ \A l \in Listeners : sock[l].st # "free" => sock[l].key \in Keys
      /\ \A l \in Listeners : sock[l].key = None => sock[l].st = "free"
      /\ \A k \in Keys : k \in Lit <=> live[k] # None
  BY LitFacts
<1>7. Free.key = None /\ Free.st = "free"
  BY DEF Free
<1>8. \A l \in Listeners : [sock[l] EXCEPT !.st = "closing"].key = sock[l].key
                           /\ [sock[l] EXCEPT !.st = "closing"].st = "closing"
  BY DEF SockTypes, Sockets
<1>22. \A k \in D : /\ sock'[f[k]].key = k /\ sock'[f[k]].mode = c[k]
                    /\ sock'[f[k]].st = "up"
  <2> SUFFICES ASSUME NEW k \in D
               PROVE  /\ sock'[f[k]].key = k /\ sock'[f[k]].mode = c[k]
                      /\ sock'[f[k]].st = "up"
    OBVIOUS
  <2>1. sock'[f[k]] = [key |-> k, mode |-> c[k], st |-> "up"]
    BY <1>3
  <2> QED BY <2>1
(* A listener is one of the new ones, or was closed, or is as before.      *)
<1>9. ASSUME NEW l \in Listeners
      PROVE  \/ \E k \in D : l = f[k]
             \/ sock'[l] = Free
             \/ /\ sock[l].st = "up" /\ sock[l].key \in Removed(c)
                /\ sock[l].key \notin FrontendOwned(c)
                /\ sock'[l] = [sock[l] EXCEPT !.st = "closing"]
             \/ /\ sock'[l] = sock[l] /\ (sock[l].st = "up" => sock[l].key \in On(c) \ D)
  <2>1. CASE sock[l].st = "up"
    <3>1. Reconciled(c, sock[l].key, sock[l], sock'[l]) /\ sock[l].key \in Lit
      BY <1>3, <1>6, <2>1
    <3> QED BY <1>3, <1>4, <2>1, <3>1 DEF Reconciled
  <2>2. CASE sock[l].st # "up"
    BY <1>3, <2>2
  <2> QED BY <2>1, <2>2
<1> HIDE DEF D
<1>10. SockTypes'
  <2>1. live' \in [Keys -> Listeners \cup {None}]
    <3>1. \A k \in Keys : live'[k] \in Listeners \cup {None}
      BY <1>5, <1>4, <1>6
    <3>2. live' = [k \in Keys |-> live'[k]]
      BY <1>1
    <3> QED BY <3>1, <3>2
  <2>2. path' \in [Unix -> Listeners \cup {None}]
    BY <1>1, <1>5 DEF Repath, SockTypes, D
  <2> QED BY <1>2, <1>3, <2>1, <2>2 DEF SockTypes
<1>11. Lit' = On(c) /\ \A k \in On(c) : live'[k] # None
  <2>1. \A k \in On(c) : live'[k] # None
    BY <1>4, <1>5, <1>6, KeyFacts
  <2> QED BY <1>4, <1>5, <2>1 DEF Lit
<1>12. \A k \in On(c) \ D : sock'[live[k]] = sock[live[k]]
  BY <1>3, <1>4, <1>6 DEF Reconciled
<1>13. \A k \in On(c) : /\ sock'[live'[k]].mode = c[k]
                        /\ sock'[live'[k]].st = "up" /\ sock'[live'[k]].key = k
  BY <1>4, <1>5, <1>6, <1>12, <1>22
<1>14. \A l \in Listeners : /\ sock'[l].st = "free" <=> sock'[l].key = None
                            /\ sock'[l].st = "up" => sock'[l].mode # "off"
                            /\ sock'[l].st = "unlinking" => sock'[l].key \in Unix
  <2> SUFFICES ASSUME NEW l \in Listeners
               PROVE  /\ sock'[l].st = "free" <=> sock'[l].key = None
                      /\ sock'[l].st = "up" => sock'[l].mode # "off"
                      /\ sock'[l].st = "unlinking" => sock'[l].key \in Unix
    OBVIOUS
  <2>1. CASE \E k \in D : l = f[k]
    BY <1>4, <1>22, <2>1, KeyFacts
  <2>2. CASE sock'[l] = Free
    BY <1>7, <2>2
  <2>3. CASE sock[l].st = "up" /\ sock'[l] = [sock[l] EXCEPT !.st = "closing"]
    BY <1>6, <1>8, <2>3
  <2>4. CASE sock'[l] = sock[l]
    BY <2>4 DEF SocketsInv
  <2> QED BY <1>9, <2>1, <2>2, <2>3, <2>4
<1>15. \A l \in Listeners : sock'[l].st = "up" => live'[sock'[l].key] = l
  <2> SUFFICES ASSUME NEW l \in Listeners, sock'[l].st = "up"
               PROVE  live'[sock'[l].key] = l
    OBVIOUS
  <2>1. CASE \E k \in D : l = f[k]
    BY <1>5, <1>22, <2>1
  <2>2. CASE sock'[l] = sock[l] /\ (sock[l].st = "up" => sock[l].key \in On(c) \ D)
    BY <1>5, <1>6, <2>2
  <2> QED BY <1>7, <1>8, <1>9, <2>1, <2>2
(* The sockets of a key after the step, traced back.                       *)
<1>16. ASSUME NEW l \in Listeners, sock'[l].st # "free"
       PROVE  \/ sock'[l].key \in D /\ l = f[sock'[l].key]
              \/ /\ sock'[l].key = sock[l].key /\ sock[l].st # "free"
                 /\ sock'[l].st \in {"up", "closing"} => sock[l].st \in {"up", "closing"}
                 /\ sock[l].st = "up" => sock[l].key \notin D
  <2>1. CASE \E k \in D : l = f[k]
    BY <1>22, <2>1
  <2>2. CASE sock'[l] = Free
    BY <1>7, <1>16, <2>2
  <2>3. CASE /\ sock[l].st = "up" /\ sock[l].key \in Removed(c)
             /\ sock'[l] = [sock[l] EXCEPT !.st = "closing"]
    BY <1>4, <1>8, <2>3
  <2>4. CASE sock'[l] = sock[l] /\ (sock[l].st = "up" => sock[l].key \in On(c) \ D)
    BY <1>16, <2>4
  <2> QED BY <1>9, <2>1, <2>2, <2>3, <2>4
<1>17. ASSUME NEW k \in Tcp
       PROVE  /\ \A l, m \in Bound(k)' : l = m
              /\ k \in foreign => Bound(k)' = {}
  <2>1. \A l : l \in Bound(k)' <=> /\ l \in Listeners /\ sock'[l].key = k
                                   /\ sock'[l].st \in {"up", "closing"}
    BY DEF Bound
  <2>2. \A l : l \in Bound(k) <=> /\ l \in Listeners /\ sock[l].key = k
                                  /\ sock[l].st \in {"up", "closing"}
    BY DEF Bound
  <2>3. /\ \A l, m \in Bound(k) : l = m
        /\ k \in foreign => Bound(k) = {}
    BY DEF SocketsInv
  <2>4. CASE k \in Fresh(c)
    <3>1. k \notin foreign /\ Bound(k) = {}
      BY <1>2, <2>4 DEF Blocked
    <3>2. \A l \in Bound(k)' : l = f[k]
      BY <1>16, <2>1, <2>2, <3>1
    <3> QED BY <3>1, <3>2
  <2>5. CASE k \in Flipped(c)
    <3>1. k \in Lit /\ live[k] \in Bound(k)
      BY <1>4, <1>6, <2>2, <2>5
    <3>2. \A l \in Bound(k) : l = live[k] /\ sock[l].st = "up"
      BY <1>6, <2>3, <3>1
    <3>3. \A l \in Bound(k)' : l = f[k]
      BY <1>3, <1>16, <2>1, <2>2, <2>5, <3>2
    <3> QED BY <2>3, <3>1, <3>3
  <2>6. CASE k \notin D
    <3>1. \A l \in Bound(k)' : l \in Bound(k)
      BY <1>16, <2>1, <2>2, <2>6
    <3> QED BY <2>3, <3>1
  <2> QED BY <1>3, <2>4, <2>5, <2>6
<1>18. ASSUME NEW u \in Unix \ clobbered', live'[u] # None
       PROVE  /\ path'[u] = live'[u]
              /\ \A l \in Listeners : (sock'[l].key = u) => (l = live'[u])
  <2>1. u \in On(c) /\ u \in Keys /\ u \notin clobbered
    BY <1>2, <1>5, <1>18, KeyFacts
  <2>2. \A l \in Listeners : sock'[l].key = u => sock'[l].st # "free"
    BY <1>14, <2>1, KeyFacts
  <2>3. path'[u] = IF u \in D THEN f[u] ELSE path[u]
    BY <1>1, <1>18 DEF Repath, D
  <2>4. CASE u \in Fresh(c)
    <3>1. \A l \in Listeners : sock[l].key = u => sock[l].st = "free"
      BY <1>2, <1>18, <2>4
    <3>2. u \in D /\ live'[u] = f[u]
      BY <1>3, <1>5, <2>4
    <3> QED BY <1>16, <2>2, <2>3, <3>1, <3>2
  <2>5. CASE u \in Flipped(c)
    <3>1. u \in Lit /\ \A l \in Listeners : (sock[l].key = u) => (l = live[u])
      BY <1>4, <1>6, <1>18, <2>1, <2>5 DEF SocketsInv
    <3>2. u \in D /\ live'[u] = f[u] /\ sock[live[u]].st = "up"
      BY <1>3, <1>5, <1>6, <2>5, <3>1
    <3> QED BY <1>16, <2>2, <2>3, <3>1, <3>2
  <2>6. CASE u \notin D
    <3>1. u \in Lit /\ live'[u] = live[u]
      BY <1>4, <1>5, <2>1, <2>6
    <3>2. /\ path[u] = live[u]
          /\ \A l \in Listeners : (sock[l].key = u) => (l = live[u])
      BY <1>6, <1>18, <2>1, <3>1 DEF SocketsInv
    <3> QED BY <1>16, <2>2, <2>3, <2>6, <3>1, <3>2
  <2> QED BY <1>3, <2>4, <2>5, <2>6
<1>19. SocketsInv'
  <2>1. foreign \subseteq Tcp
    BY DEF SockTypes
  <2>2. \A k \in Lit' : sock'[live'[k]].st = "up" /\ sock'[live'[k]].key = k
    BY <1>11, <1>13
  <2> QED BY <1>2, <1>14, <1>15, <1>17, <1>18, <2>1, <2>2 DEF SocketsInv
<1>20. \A k \in Keys : live[k] # None /\ k \in On(c) /\ sock[live[k]].mode = c[k]
                       => live'[k] = live[k]
  BY <1>3, <1>4, <1>5, <1>6
<1>21. \A k \in FrontendOwned(c) : live[k] # None => sock'[live[k]] = Free
  <2> SUFFICES ASSUME NEW k \in FrontendOwned(c), live[k] # None PROVE sock'[live[k]] = Free
    OBVIOUS
  <2>1. k \in Keys
    BY KeyFacts DEF FrontendOwned
  <2>2. live[k] \in Listeners /\ sock[live[k]].st = "up" /\ sock[live[k]].key = k
    BY <1>6, <2>1
  <2> QED BY <1>3, <2>2 DEF Reconciled
<1> QED BY <1>10, <1>11, <1>13, <1>19, <1>20, <1>21

(* What restoring the old configuration leaves: the sockets that were kept *)
(* and those that could be started again.                                  *)
LEMMA RestoreKeeps ==
  ASSUME SockTypes, SocketsInv, rt \in Configs, NEW keep \in SUBSET Lit,
         NEW lost \in Tcp, lost \in Lit \ keep,
         RestoreOld(keep, lost), foreign' = foreign \cup {lost}
  PROVE  /\ SockTypes' /\ SocketsInv'
         /\ \A k \in Keys : live'[k] # None =>
              \/ k \in keep /\ live'[k] = live[k] /\ sock'[live[k]] = sock[live[k]]
              \/ k \in On(rt) /\ sock'[live'[k]].mode = rt[k]
<1> DEFINE closed == {live[j] : j \in Lit \ keep}
           start == {j \in On(rt) \ keep :
                       /\ j \notin foreign \cup {lost}
                       /\ j \in Tcp => \A l \in Listeners : sock[l].key = j => l \in closed}
           s0 == [l \in Listeners |-> IF l \in closed THEN Free ELSE sock[l]]
<1>1. PICK f \in Injection(start, Unused \cup closed) :
        /\ live' = [j \in Keys |-> IF j \in start THEN f[j]
                                   ELSE IF j \in keep THEN live[j] ELSE None]
        /\ sock' = Serving(f, rt, s0)
        /\ path' = [u \in Unix |-> IF u \in start THEN f[u]
                                   ELSE IF u \in Lit \ keep THEN None ELSE path[u]]
        /\ clobbered' = clobbered \cup {u \in Unix \cap start :
                           \E l \in Listeners \ closed : sock[l].key = u}
  BY DEF RestoreOld
<1>2. /\ \A k \in Lit : /\ k \in Keys /\ live[k] \in Listeners
                        /\ sock[live[k]].st = "up" /\ sock[live[k]].key = k
      /\ \A l \in Listeners : sock[l].st = "up" => sock[l].key \in Lit /\ live[sock[l].key] = l
      /\ \A l \in Listeners : sock[l].st # "free" => sock[l].key \in Keys
      /\ \A l \in Listeners : sock[l].key = None => sock[l].st = "free"
      /\ \A k \in Keys : k \in Lit <=> live[k] # None
  BY LitFacts
<1>3. \A l \in Listeners : l \in closed <=> sock[l].st = "up" /\ sock[l].key \in Lit \ keep
  BY <1>2
<1>4. closed \subseteq Listeners
  BY <1>2
<1>5. /\ \A k \in start : /\ k \in On(rt) /\ k \in Keys /\ rt[k] # "off"
                          /\ k \notin keep /\ k \notin foreign /\ k # lost
      /\ \A k \in start \cap Tcp : \A l \in Listeners : sock[l].key = k => l \in closed
  BY DEF On
<1>6. Free \in Sockets /\ Free.key = None /\ Free.st = "free"
  BY DEF Free, Sockets
<1>7. s0 \in [Listeners -> Sockets]
  BY <1>6 DEF SockTypes
<1>8. \A l \in Listeners : s0[l] = IF l \in closed THEN Free ELSE sock[l]
  OBVIOUS
<1> HIDE DEF closed, start, s0
<1>9. /\ DOMAIN f = start /\ f \in [start -> Unused \cup closed]
      /\ \A j, k \in start : f[j] = f[k] => j = k
      /\ \A k \in start : sock'[f[k]] = [key |-> k, mode |-> rt[k], st |-> "up"]
      /\ \A l \in Listeners : (\A k \in start : f[k] # l) => sock'[l] = s0[l]
      /\ sock' \in [Listeners -> Sockets]
  <2>1. start \in SUBSET Keys /\ Unused \cup closed \in SUBSET Listeners /\ rt \in [Keys -> Modes]
    BY <1>4, <1>5, KeyFacts DEF Unused
  <2> DEFINE t == Serving(f, rt, s0)
  <2>2. /\ DOMAIN f = start /\ f \in [start -> Unused \cup closed]
        /\ \A j, k \in start : f[j] = f[k] => j = k
        /\ \A k \in start : t[f[k]] = [key |-> k, mode |-> rt[k], st |-> "up"]
        /\ \A l \in Listeners : (\A k \in start : f[k] # l) => t[l] = s0[l]
        /\ t \in [Listeners -> Sockets]
    BY <1>7, <2>1, ServingFacts
  <2> HIDE DEF t
  <2>3. sock' = t
    BY <1>1 DEF t
  <2> QED BY <2>2, <2>3
<1>10. \A k \in start : /\ sock'[f[k]].key = k /\ sock'[f[k]].mode = rt[k]
                        /\ sock'[f[k]].st = "up" /\ f[k] \in Listeners
                        /\ f[k] \in closed \/ sock[f[k]].st = "free"
  <2> SUFFICES ASSUME NEW k \in start
               PROVE  /\ sock'[f[k]].key = k /\ sock'[f[k]].mode = rt[k]
                      /\ sock'[f[k]].st = "up" /\ f[k] \in Listeners
                      /\ f[k] \in closed \/ sock[f[k]].st = "free"
    OBVIOUS
  <2>1. sock'[f[k]] = [key |-> k, mode |-> rt[k], st |-> "up"]
    BY <1>9
  <2>2. f[k] \in Unused \cup closed
    BY <1>9
  <2> QED BY <1>4, <2>1, <2>2 DEF Unused
<1>11. /\ \A k \in start : live'[k] = f[k]
       /\ \A k \in keep : live'[k] = live[k] /\ live[k] \notin closed
       /\ \A k \in Keys : k \notin start /\ k \notin keep => live'[k] = None
  <2>1. \A k \in Keys : live'[k] = IF k \in start THEN f[k]
                                   ELSE IF k \in keep THEN live[k] ELSE None
    BY <1>1
  <2>2. \A k \in keep : k \in Keys /\ k \notin start
    BY <1>2, <1>5
  <2> QED BY <1>2, <1>3, <1>5, <2>1, <2>2
(* A listener is a new one, or was closed, or is as before.                *)
<1>12. ASSUME NEW l \in Listeners
       PROVE  \/ \E k \in start : l = f[k]
              \/ sock'[l] = Free
              \/ /\ l \notin closed /\ sock'[l] = sock[l]
                 /\ sock[l].st = "up" => sock[l].key \in keep
  <2>1. CASE \E k \in start : l = f[k]
    BY <2>1
  <2>2. CASE ~\E k \in start : l = f[k]
    <3>1. sock'[l] = s0[l]
      BY <1>9, <2>2
    <3> QED BY <1>2, <1>3, <1>8, <3>1
  <2> QED BY <2>1, <2>2
<1>13. \A k \in keep : sock'[live[k]] = sock[live[k]]
  <2> SUFFICES ASSUME NEW k \in keep PROVE sock'[live[k]] = sock[live[k]]
    OBVIOUS
  <2>1. live[k] \in Listeners /\ live[k] \notin closed /\ sock[live[k]].st = "up"
    BY <1>2, <1>11
  <2>2. \A j \in start : f[j] # live[k]
    BY <1>10, <2>1
  <2> QED BY <1>8, <1>9, <2>1, <2>2
<1>14. SockTypes'
  <2>1. live' \in [Keys -> Listeners \cup {None}]
    <3>1. \A k \in Keys : live'[k] \in Listeners \cup {None}
      BY <1>2, <1>10, <1>11
    <3>2. live' = [k \in Keys |-> live'[k]]
      BY <1>1
    <3> QED BY <3>1, <3>2
  <2>2. path' \in [Unix -> Listeners \cup {None}]
    <3>1. \A u \in Unix : path'[u] \in Listeners \cup {None}
      BY <1>1, <1>10 DEF SockTypes
    <3>2. path' = [u \in Unix |-> path'[u]]
      BY <1>1
    <3> QED BY <3>1, <3>2
  <2>3. clobbered' \subseteq Unix
    BY <1>1 DEF SockTypes
  <2> QED BY <1>9, <2>1, <2>2, <2>3 DEF SockTypes
<1>15. \A l \in Listeners : /\ sock'[l].st = "free" <=> sock'[l].key = None
                            /\ sock'[l].st = "up" => sock'[l].mode # "off"
                            /\ sock'[l].st = "unlinking" => sock'[l].key \in Unix
  <2> SUFFICES ASSUME NEW l \in Listeners
               PROVE  /\ sock'[l].st = "free" <=> sock'[l].key = None
                      /\ sock'[l].st = "up" => sock'[l].mode # "off"
                      /\ sock'[l].st = "unlinking" => sock'[l].key \in Unix
    OBVIOUS
  <2>1. CASE \E k \in start : l = f[k]
    BY <1>5, <1>10, <2>1, KeyFacts
  <2>2. CASE sock'[l] = Free
    BY <1>6, <2>2
  <2>3. CASE sock'[l] = sock[l]
    BY <2>3 DEF SocketsInv
  <2> QED BY <1>12, <2>1, <2>2, <2>3
<1>16. \A k \in Lit' : sock'[live'[k]].st = "up" /\ sock'[live'[k]].key = k
  <2>1. \A k \in Lit' : k \in start \/ k \in keep
    BY <1>11 DEF Lit
  <2> QED BY <1>2, <1>10, <1>11, <1>13, <2>1
<1>17. \A l \in Listeners : sock'[l].st = "up" => live'[sock'[l].key] = l
  <2> SUFFICES ASSUME NEW l \in Listeners, sock'[l].st = "up"
               PROVE  live'[sock'[l].key] = l
    OBVIOUS
  <2>1. CASE \E k \in start : l = f[k]
    BY <1>10, <1>11, <2>1
  <2>2. CASE sock'[l] = sock[l] /\ (sock[l].st = "up" => sock[l].key \in keep)
    BY <1>2, <1>11, <2>2
  <2> QED BY <1>6, <1>12, <2>1, <2>2
(* The sockets of a key after the step, traced back.                       *)
<1>18. ASSUME NEW l \in Listeners, sock'[l].st # "free"
       PROVE  \/ sock'[l].key \in start /\ l = f[sock'[l].key]
              \/ l \notin closed /\ sock'[l] = sock[l]
  <2>1. CASE \E k \in start : l = f[k]
    BY <1>10, <2>1
  <2> QED BY <1>6, <1>12, <1>18, <2>1
<1>19. ASSUME NEW k \in Tcp
       PROVE  /\ \A l, m \in Bound(k)' : l = m
              /\ k \in foreign' => Bound(k)' = {}
  <2>1. \A l : l \in Bound(k)' <=> /\ l \in Listeners /\ sock'[l].key = k
                                   /\ sock'[l].st \in {"up", "closing"}
    BY DEF Bound
  <2>2. \A l : l \in Bound(k) <=> /\ l \in Listeners /\ sock[l].key = k
                                  /\ sock[l].st \in {"up", "closing"}
    BY DEF Bound
  <2>3. /\ \A l, m \in Bound(k) : l = m
        /\ k \in foreign => Bound(k) = {}
    BY DEF SocketsInv
  <2>4. CASE k \in start
    <3>1. k \notin foreign'
      BY <1>5, <2>4
    <3>2. \A l \in Bound(k)' : l = f[k]
      BY <1>5, <1>18, <2>1, <2>4
    <3> QED BY <3>1, <3>2
  <2>5. CASE k \notin start
    <3>1. \A l \in Bound(k)' : l \in Bound(k) /\ l \notin closed
      BY <1>18, <2>1, <2>2, <2>5
    <3>2. CASE k = lost
      <4>1. live[k] \in Bound(k) /\ live[k] \in closed
        BY <1>2, <1>3, <2>2, <3>2
      <4>2. Bound(k)' = {}
        BY <2>3, <3>1, <4>1
      <4> QED BY <4>2
    <3>3. CASE k # lost
      BY <2>3, <3>1, <3>3
    <3> QED BY <3>2, <3>3
  <2> QED BY <2>4, <2>5
<1>20. ASSUME NEW u \in Unix \ clobbered', live'[u] # None
       PROVE  /\ path'[u] = live'[u]
              /\ \A l \in Listeners : (sock'[l].key = u) => (l = live'[u])
  <2>1. u \in Keys /\ u \notin clobbered
    BY <1>1, <1>20, KeyFacts
  <2>2. \A l \in Listeners : sock'[l].key = u => sock'[l].st # "free"
    BY <1>15, <2>1, KeyFacts
  <2>3. path'[u] = IF u \in start THEN f[u] ELSE IF u \in Lit \ keep THEN None ELSE path[u]
    BY <1>1, <1>20
  <2>4. CASE u \in start
    <3>1. \A l \in Listeners \ closed : sock[l].key # u
      BY <1>1, <1>20, <2>4
    <3>2. ASSUME NEW l \in Listeners, sock'[l].key = u PROVE l = f[u]
      BY <1>18, <2>2, <3>1, <3>2
    <3> QED BY <1>11, <2>3, <2>4, <3>2
  <2>5. CASE u \notin start
    <3>1. u \in keep /\ live'[u] = live[u] /\ u \in Lit
      BY <1>11, <1>20, <2>1, <2>5
    <3>2. /\ path[u] = live[u]
          /\ \A l \in Listeners : (sock[l].key = u) => (l = live[u])
      BY <1>2, <1>20, <2>1, <3>1 DEF SocketsInv
    <3>3. ASSUME NEW l \in Listeners, sock'[l].key = u PROVE l = live[u]
      BY <1>18, <2>2, <2>5, <3>2, <3>3
    <3> QED BY <2>3, <2>5, <3>1, <3>2, <3>3
  <2> QED BY <2>4, <2>5
<1>21. SocketsInv'
  <2>1. foreign' \subseteq Tcp
    BY <1>14 DEF SockTypes
  <2> QED BY <1>15, <1>16, <1>17, <1>19, <1>20, <2>1 DEF SocketsInv
<1>22. \A k \in Keys : live'[k] # None =>
              \/ k \in keep /\ live'[k] = live[k] /\ sock'[live[k]] = sock[live[k]]
              \/ k \in On(rt) /\ sock'[live'[k]].mode = rt[k]
  BY <1>5, <1>10, <1>11, <1>13
<1> QED BY <1>14, <1>21, <1>22

(* A failed reconciliation leaves the sockets in order: all as they were,  *)
(* or only such as the old configuration wants.                            *)
LEMMA FailureKeeps ==
  ASSUME SockTypes, SocketsInv, rt \in Configs, NEW c \in Configs, ReconcileFails(c)
  PROVE  /\ SockTypes' /\ SocketsInv'
         /\ \/ UNCHANGED <<live, sock>>
            \/ \A k \in Keys : live'[k] # None => k \in On(rt) /\ sock'[live'[k]].mode = rt[k]
<1>1. CASE ReconcileBlocked(c)
  BY <1>1 DEF ReconcileBlocked, SockTypes, SocketsInv, Lit, Bound
<1>2. CASE ReconcileFlipLost(c)
  <2>1. PICK k \in Flipped(c) \cap Tcp :
          /\ foreign' = foreign \cup {k}
          /\ \E others \in SUBSET (Flipped(c) \ {k}) :
               RestoreOld({j \in Lit \ (others \cup {k}) : sock[live[j]].mode = rt[j]}, k)
    BY <1>2 DEF ReconcileFlipLost
  <2>2. PICK others \in SUBSET (Flipped(c) \ {k}) :
          RestoreOld({j \in Lit \ (others \cup {k}) : sock[live[j]].mode = rt[j]}, k)
    BY <2>1
  <2> DEFINE keep == {j \in Lit \ (others \cup {k}) : sock[live[j]].mode = rt[j]}
  <2>3. keep \in SUBSET Lit /\ k \in Tcp /\ k \in Lit \ keep
    BY DEF Flipped
  <2>4. \A j \in keep : j \in On(rt) /\ sock[live[j]].mode = rt[j]
    <3>1. \A j \in keep : j \in Keys /\ sock[live[j]].mode # "off" /\ sock[live[j]].mode = rt[j]
      BY LitFacts DEF SocketsInv
    <3> QED BY <3>1 DEF On
  <2> HIDE DEF keep
  <2>5. /\ SockTypes' /\ SocketsInv'
        /\ \A j \in Keys : live'[j] # None =>
             \/ j \in keep /\ live'[j] = live[j] /\ sock'[live[j]] = sock[live[j]]
             \/ j \in On(rt) /\ sock'[live'[j]].mode = rt[j]
    <3>1. RestoreOld(keep, k)
      BY <2>2 DEF keep
    <3> QED BY <2>1, <2>3, <3>1, RestoreKeeps
  <2> QED BY <2>4, <2>5
<1> QED BY <1>1, <1>2 DEF ReconcileFails

(* A step that leaves the sockets alone.                                   *)
LEMMA SameSockets ==
  ASSUME SockTypes, SocketsInv, UNCHANGED <<live, sock, path, clobbered, foreign>>
  PROVE  SockTypes' /\ SocketsInv'
  BY DEF SockTypes, SocketsInv, Lit, Bound

(* A timer that binds.                                                     *)
LEMMA BindKeeps ==
  ASSUME SockTypes, SocketsInv, NEW k \in Keys, NEW mode \in {"plain", "tls"},
         NEW l \in Unused, live[k] = None, ~Blocked(k),
         live' = [live EXCEPT ![k] = l],
         sock' = [sock EXCEPT ![l] = [key |-> k, mode |-> mode, st |-> "up"]],
         path' = IF k \in Unix THEN [path EXCEPT ![k] = l] ELSE path,
         clobbered' = IF k \in Unix /\ \E m \in Listeners : sock[m].key = k
                        THEN clobbered \cup {k} ELSE clobbered,
         foreign' = foreign
  PROVE  SockTypes' /\ SocketsInv'
<1> DEFINE new == [key |-> k, mode |-> mode, st |-> "up"]
<1>1. l \in Listeners /\ sock[l].st = "free" /\ sock[l].key = None /\ l # None
  BY KeyFacts DEF Unused, SocketsInv
<1>2. /\ \A j \in Lit : /\ j \in Keys /\ live[j] \in Listeners
                        /\ sock[live[j]].st = "up" /\ sock[live[j]].key = j
      /\ \A m \in Listeners : sock[m].st = "up" => sock[m].key \in Lit /\ live[sock[m].key] = m
      /\ \A j \in Keys : j \in Lit <=> live[j] # None
  BY LitFacts
<1>3. new \in Sockets /\ new.key = k /\ new.mode = mode /\ new.st = "up"
  BY DEF Sockets
<1>4. sock' = [sock EXCEPT ![l] = new]
  OBVIOUS
<1> HIDE DEF new
<1>5. sock'[l] = new /\ (\A m \in Listeners : m # l => sock'[m] = sock[m])
      /\ sock' \in [Listeners -> Sockets]
  BY <1>1, <1>3, <1>4 DEF SockTypes
<1>6. live'[k] = l /\ (\A j \in Keys : j # k => live'[j] = live[j])
      /\ live' \in [Keys -> Listeners \cup {None}]
  BY <1>1 DEF SockTypes
<1>7. SockTypes'
  <2>1. path' \in [Unix -> Listeners \cup {None}] /\ clobbered' \subseteq Unix
    BY <1>1 DEF SockTypes
  <2> QED BY <1>5, <1>6, <2>1 DEF SockTypes
<1>8. \A j \in Lit' : sock'[live'[j]].st = "up" /\ sock'[live'[j]].key = j
  <2>1. \A j \in Lit' : j \in Keys /\ (j = k \/ j \in Lit)
    BY <1>2, <1>6 DEF Lit
  <2> QED BY <1>1, <1>2, <1>3, <1>5, <1>6, <2>1
<1>9. \A m \in Listeners : sock'[m].st = "up" => live'[sock'[m].key] = m
  BY <1>2, <1>3, <1>5, <1>6
<1>10. \A m \in Listeners : /\ sock'[m].st = "free" <=> sock'[m].key = None
                            /\ sock'[m].st = "up" => sock'[m].mode # "off"
                            /\ sock'[m].st = "unlinking" => sock'[m].key \in Unix
  BY <1>3, <1>5, KeyFacts DEF SocketsInv
<1>11. ASSUME NEW j \in Tcp
       PROVE  /\ \A m, n \in Bound(j)' : m = n
              /\ j \in foreign => Bound(j)' = {}
  <2>1. \A m : m \in Bound(j)' <=> /\ m \in Listeners /\ sock'[m].key = j
                                   /\ sock'[m].st \in {"up", "closing"}
    BY DEF Bound
  <2>2. \A m : m \in Bound(j) <=> /\ m \in Listeners /\ sock[m].key = j
                                  /\ sock[m].st \in {"up", "closing"}
    BY DEF Bound
  <2>3. (\A m, n \in Bound(j) : m = n) /\ (j \in foreign => Bound(j) = {})
    BY DEF SocketsInv
  <2>4. CASE j = k
    <3>1. Bound(j) = {} /\ j \notin foreign
      BY <2>4 DEF Blocked
    <3> QED BY <1>5, <2>1, <2>2, <3>1
  <2>5. CASE j # k
    <3>1. l \notin Bound(j) /\ l \notin Bound(j)'
      BY <1>1, <1>3, <1>5, <2>1, <2>2, <2>5
    <3>2. ASSUME NEW m, m # l PROVE m \in Bound(j)' <=> m \in Bound(j)
      <4>1. m \in Listeners => sock'[m] = sock[m]
        BY <1>5, <3>2
      <4> QED BY <2>1, <2>2, <4>1
    <3>3. \A m : m \in Bound(j)' <=> m \in Bound(j)
      BY <3>1, <3>2
    <3>4. (\A m, n \in Bound(j)' : m = n) /\ (Bound(j) = {} => Bound(j)' = {})
      BY <2>3, <3>3
    <3> QED BY <2>3, <3>4
  <2> QED BY <2>4, <2>5
<1>12. ASSUME NEW u \in Unix \ clobbered', live'[u] # None
       PROVE  /\ path'[u] = live'[u]
              /\ \A m \in Listeners : (sock'[m].key = u) => (m = live'[u])
  <2>1. u \in Keys /\ u \notin clobbered
    BY <1>12, KeyFacts
  <2>2. CASE u = k
    <3>1. path'[u] = l
      BY <1>12, <2>2 DEF SockTypes
    <3>2. \A m \in Listeners : sock[m].key # k
      BY <1>12, <2>2
    <3> QED BY <1>5, <1>6, <2>2, <3>1, <3>2
  <2>3. CASE u # k
    <3>1. path'[u] = path[u] /\ live'[u] = live[u]
      BY <1>6, <1>12, <2>1, <2>3 DEF SockTypes
    <3>2. path[u] = live[u] /\ \A m \in Listeners : (sock[m].key = u) => (m = live[u])
      BY <1>12, <2>1, <3>1 DEF SocketsInv
    <3> QED BY <1>3, <1>5, <2>3, <3>1, <3>2
  <2> QED BY <2>2, <2>3
<1>13. foreign \subseteq Tcp
  BY DEF SockTypes
<1> QED BY <1>7, <1>8, <1>9, <1>10, <1>11, <1>12, <1>13 DEF SocketsInv

(* A listener that is closed, in one step or with its path still to be     *)
(* removed.                                                                *)
LEMMA ClosingKeeps ==
  ASSUME SockTypes, SocketsInv, NEW l \in Listeners, NEW r \in Sockets,
         sock[l].st # "free",
         \/ r = Free
         \/ r.st = "unlinking" /\ r.key = sock[l].key /\ r.key \in Unix,
         sock' = [sock EXCEPT ![l] = r],
         live' = IF live[sock[l].key] = l THEN [live EXCEPT ![sock[l].key] = None] ELSE live,
         path' = IF sock[l].key \in Unix THEN [path EXCEPT ![sock[l].key] = None] ELSE path,
         foreign' = foreign, clobbered' = clobbered
  PROVE  SockTypes' /\ SocketsInv'
<1> DEFINE key == sock[l].key
<1>1. /\ \A j \in Lit : /\ j \in Keys /\ live[j] \in Listeners
                        /\ sock[live[j]].st = "up" /\ sock[live[j]].key = j
      /\ \A m \in Listeners : sock[m].st = "up" => sock[m].key \in Lit /\ live[sock[m].key] = m
      /\ \A m \in Listeners : sock[m].st # "free" => sock[m].key \in Keys
      /\ \A j \in Keys : j \in Lit <=> live[j] # None
  BY LitFacts
<1>2. key \in Keys /\ l # None
  BY <1>1, KeyFacts
<1>3. /\ sock'[l] = r /\ (\A m \in Listeners : m # l => sock'[m] = sock[m])
      /\ sock' \in [Listeners -> Sockets]
  BY DEF SockTypes
<1>4. /\ r.st # "up" /\ r.st # "closing" /\ (r.st = "free" <=> r.key = None)
      /\ (r.st = "unlinking" => r.key \in Unix) /\ (r.key = key \/ r.key = None)
  BY KeyFacts DEF Free
<1>5. /\ \A j \in Keys : live'[j] = IF j = key /\ live[j] = l THEN None ELSE live[j]
      /\ live' \in [Keys -> Listeners \cup {None}]
  <2>1. CASE live[key] = l
    BY <1>2, <2>1 DEF SockTypes
  <2>2. CASE live[key] # l
    BY <2>2 DEF SockTypes
  <2> QED BY <2>1, <2>2
<1>6. \A j \in Keys : live'[j] # None => live'[j] = live[j] /\ live[j] # l /\ j \in Lit
  <2>1. \A j \in Keys : live[j] = l => j = key
    BY <1>1, <1>2
  <2> QED BY <1>1, <1>5, <2>1
<1>7. SockTypes'
  <2>1. path' \in [Unix -> Listeners \cup {None}]
    BY DEF SockTypes
  <2> QED BY <1>3, <1>5, <2>1 DEF SockTypes
<1>8. \A j \in Lit' : sock'[live'[j]].st = "up" /\ sock'[live'[j]].key = j
  BY <1>1, <1>3, <1>6 DEF Lit
<1>9. \A m \in Listeners : sock'[m].st = "up" => live'[sock'[m].key] = m
  BY <1>1, <1>3, <1>4, <1>5
<1>10. \A m \in Listeners : /\ sock'[m].st = "free" <=> sock'[m].key = None
                            /\ sock'[m].st = "up" => sock'[m].mode # "off"
                            /\ sock'[m].st = "unlinking" => sock'[m].key \in Unix
  BY <1>3, <1>4 DEF SocketsInv
<1>11. \A j \in Tcp : Bound(j)' \subseteq Bound(j)
  BY <1>3, <1>4 DEF Bound
<1>12. ASSUME NEW u \in Unix \ clobbered', live'[u] # None
       PROVE  /\ path'[u] = live'[u]
              /\ \A m \in Listeners : (sock'[m].key = u) => (m = live'[u])
  <2>1. u \in Keys /\ u \notin clobbered /\ u # None
    BY <1>12, KeyFacts
  <2>2. live'[u] = live[u] /\ live[u] # l
    BY <1>6, <1>12, <2>1
  <2>3. path[u] = live[u] /\ \A m \in Listeners : (sock[m].key = u) => (m = live[u])
    BY <1>12, <2>1, <2>2 DEF SocketsInv
  <2>4. u # key
    BY <2>2, <2>3
  <2>5. path'[u] = path[u]
    BY <1>12, <2>4 DEF SockTypes
  <2> QED BY <1>3, <1>4, <2>1, <2>2, <2>3, <2>4, <2>5
<1>13. foreign \subseteq Tcp
  BY DEF SockTypes
<1>14. /\ \A k \in Tcp : \A m, n \in Bound(k)' : m = n
       /\ \A k \in foreign : Bound(k)' = {}
  BY <1>11, <1>13 DEF SocketsInv
<1> QED BY <1>7, <1>8, <1>9, <1>10, <1>12, <1>14 DEF SocketsInv

(* What else the manager keeps.                                            *)
OtherTypes ==
  /\ rt \in Configs /\ target \in Configs \cup {None}
  /\ pending \subseteq Keys \X {"plain", "tls"}
  /\ down \in BOOLEAN /\ strayed \in BOOLEAN
  /\ faults \in 0..MaxFaults /\ applies \in 0..MaxApplies

LEMMA TypesSplit == TypeOK <=> SockTypes /\ OtherTypes
  BY DEF TypeOK, SockTypes, OtherTypes

(* A step that keeps the configurations, what is recorded of the sockets   *)
(* that serve and the timers keeps track of what is served.                *)
LEMMA SameTracked ==
  ASSUME TrackedInv, UNCHANGED <<rt, target, live, down, strayed, pending>>,
         \A k \in Lit : sock'[live[k]] = sock[live[k]]
  PROVE  TrackedInv'
<1>1. Lit' = Lit /\ Current' = Current /\ \A c : On(c)' = On(c)
  BY DEF Lit, Current, On
<1> QED BY <1>1 DEF TrackedInv

(* applyEx reconciles the sockets with a new configuration.                *)
LEMMA ApplyKeeps ==
  ASSUME ManagerIInv, Apply
  PROVE  ManagerIInv'
<1>1. SockTypes /\ SocketsInv /\ OtherTypes /\ TrackedInv /\ target = None /\ Current = rt
  BY TypesSplit DEF ManagerIInv, Apply, Current
<1>2. UNCHANGED <<rt, pending, down>> /\ applies < MaxApplies /\ applies' = applies + 1 /\ ~down
  BY DEF Apply
<1>3. PICK c \in Configs \ {rt} :
         \/ ReconcileOK(c) /\ target' = c /\ strayed' = FALSE
         \/ /\ ReconcileFails(c) /\ target' = None
            /\ strayed' = (strayed \/ \E k \in On(rt) : live[k] # None /\ live'[k] = None)
  BY DEF Apply
<1>4. faults' \in 0..MaxFaults /\ applies' \in 0..MaxApplies
  <2>1. faults' = faults \/ (faults < MaxFaults /\ faults' = faults + 1)
    BY <1>3 DEF ReconcileOK, ReconcileFails, ReconcileBlocked, ReconcileFlipLost
  <2> QED BY <1>1, <1>2, <2>1, BoundsAssumption DEF OtherTypes
<1>5. OtherTypes'
  <2>1. target' \in Configs \cup {None} /\ strayed' \in BOOLEAN
    BY <1>3
  <2> QED BY <1>1, <1>2, <1>4, <2>1 DEF OtherTypes
<1>6. CASE ReconcileOK(c) /\ target' = c /\ strayed' = FALSE
  <2>1. /\ SockTypes' /\ SocketsInv' /\ Lit' = On(c)
        /\ \A k \in On(c) : live'[k] # None /\ sock'[live'[k]].mode = c[k]
    BY <1>1, <1>3, <1>6, ReconcileKeeps
  <2>2. Current' = c /\ down' = FALSE
    BY <1>1, <1>2, <1>3, <1>6, KeyFacts DEF Current, OtherTypes
  <2>3. TrackedInv'
    BY <2>1, <2>2 DEF TrackedInv
  <2> QED BY <1>5, <2>1, <2>3, TypesSplit, PTL DEF ManagerIInv
<1>7. CASE /\ ReconcileFails(c) /\ target' = None
           /\ strayed' = (strayed \/ \E k \in On(rt) : live[k] # None /\ live'[k] = None)
  <2>1. /\ SockTypes' /\ SocketsInv'
        /\ \/ UNCHANGED <<live, sock>>
           \/ \A k \in Keys : live'[k] # None => k \in On(rt) /\ sock'[live'[k]].mode = rt[k]
    BY <1>1, <1>3, <1>7, FailureKeeps DEF OtherTypes
  <2>2. Current' = rt /\ Lit' = {k \in Keys : live'[k] # None}
    BY <1>2, <1>7 DEF Current, Lit
  <2>3. ASSUME ~down', ~strayed'
        PROVE  /\ \A k \in Lit' : sock'[live'[k]].mode = rt[k]
               /\ \A k \in On(rt) : live'[k] # None \/ <<k, rt[k]>> \in pending
    <3>1. /\ \A k \in Lit : sock[live[k]].mode = rt[k]
          /\ \A k \in On(rt) : live[k] # None \/ <<k, rt[k]>> \in pending
      BY <1>1, <1>2, <1>7, <2>3 DEF TrackedInv
    <3>2. \A k \in On(rt) : live'[k] # None \/ <<k, rt[k]>> \in pending
      BY <1>7, <2>3, <3>1
    <3>3. \A k \in Lit' : sock'[live'[k]].mode = rt[k]
      BY <2>1, <2>2, <3>1 DEF Lit
    <3> QED BY <3>2, <3>3
  <2>4. TrackedInv'
    BY <1>2, <1>7, <2>2, <2>3 DEF TrackedInv
  <2> QED BY <1>5, <2>1, <2>4, TypesSplit, PTL DEF ManagerIInv
<1> QED BY <1>3, <1>6, <1>7

(* A later step of applyEx failed.                                         *)
LEMMA RollbackKeeps ==
  ASSUME ManagerIInv, Rollback
  PROVE  ManagerIInv'
<1>1. SockTypes /\ SocketsInv /\ OtherTypes /\ TrackedInv /\ target # None
  BY TypesSplit DEF ManagerIInv, Rollback
<1>2. UNCHANGED <<rt, pending, down, applies>> /\ target' = None /\ ~down
  BY <1>1 DEF Rollback, TrackedInv
<1>3. rt \in Configs /\ Current' = rt
  BY <1>1, <1>2 DEF OtherTypes, Current
<1>4. faults' \in 0..MaxFaults
  <2>1. faults' = faults \/ (faults < MaxFaults /\ faults' = faults + 1)
    BY DEF Rollback, ReconcileOK, ReconcileFails, ReconcileBlocked, ReconcileFlipLost
  <2> QED BY <1>1, <2>1, BoundsAssumption DEF OtherTypes
<1>5. OtherTypes'
  <2>1. strayed' \in BOOLEAN
    BY DEF Rollback
  <2> QED BY <1>1, <1>2, <1>4, <2>1 DEF OtherTypes
<1>6. CASE ReconcileOK(rt) /\ strayed' = FALSE
  <2>1. /\ SockTypes' /\ SocketsInv' /\ Lit' = On(rt)
        /\ \A k \in On(rt) : live'[k] # None /\ sock'[live'[k]].mode = rt[k]
    BY <1>1, <1>3, <1>6, ReconcileKeeps
  <2>2. TrackedInv'
    BY <1>2, <1>3, <2>1 DEF TrackedInv
  <2> QED BY <1>5, <2>1, <2>2, TypesSplit, PTL DEF ManagerIInv
<1>7. CASE ReconcileFails(rt) /\ strayed' = TRUE
  <2>1. SockTypes' /\ SocketsInv'
    BY <1>1, <1>3, <1>7, FailureKeeps
  <2>2. TrackedInv'
    BY <1>2, <1>7 DEF TrackedInv
  <2> QED BY <1>5, <2>1, <2>2, TypesSplit, PTL DEF ManagerIInv
<1> QED BY <1>6, <1>7 DEF Rollback

(* The runtime is swapped.                                                 *)
LEMMA SwapKeeps ==
  ASSUME ManagerIInv, Swap
  PROVE  ManagerIInv'
<1>1. SockTypes /\ SocketsInv /\ OtherTypes /\ TrackedInv
  BY TypesSplit DEF ManagerIInv
<1>2. /\ target # None /\ rt' = target /\ target' = None
      /\ UNCHANGED <<live, sock, path, pending, foreign, down, strayed, clobbered, faults, applies>>
  BY DEF Swap
<1>3. SockTypes' /\ SocketsInv'
  BY <1>1, <1>2, SameSockets
<1>4. OtherTypes'
  BY <1>1, <1>2 DEF OtherTypes
<1>5. Current' = Current /\ Lit' = Lit
  BY <1>2 DEF Current, Lit
<1>6. TrackedInv'
  BY <1>1, <1>2, <1>5 DEF TrackedInv
<1> QED BY <1>3, <1>4, <1>6, TypesSplit, PTL DEF ManagerIInv

(* A retry timer fires.                                                    *)
LEMMA RetryKeeps ==
  ASSUME ManagerIInv, NEW k \in Keys, NEW mode \in {"plain", "tls"}, Retry(k, mode)
  PROVE  ManagerIInv'
<1>1. SockTypes /\ SocketsInv /\ OtherTypes /\ TrackedInv
  BY TypesSplit DEF ManagerIInv
<1>2. /\ <<k, mode>> \in pending
      /\ UNCHANGED <<rt, target, foreign, down, faults, applies>>
      /\ strayed' = (strayed \/ (/\ target # None /\ target[k] # rt[k]
                                 /\ live[k] = None /\ pending' # pending))
  BY DEF Retry
<1>3. pending' = pending \/ pending' = pending \ {<<k, mode>>}
  BY DEF Retry
<1>4. OtherTypes'
  <2>1. pending' \subseteq Keys \X {"plain", "tls"} /\ strayed' \in BOOLEAN
    BY <1>1, <1>2, <1>3 DEF OtherTypes
  <2> QED BY <1>1, <1>2, <2>1 DEF OtherTypes
<1>5. Current' = Current /\ down' = down /\ (~strayed' => ~strayed)
  BY <1>2 DEF Current
<1>6. ASSUME ~strayed', pending' # pending, live[k] = None
      PROVE  Current[k] = rt[k]
  BY <1>2, <1>6 DEF Current
<1>7. CASE live[k] = None /\ Wanted(k, mode) /\ ~Blocked(k)
  <2>1. PICK l \in Unused :
          /\ live' = [live EXCEPT ![k] = l]
          /\ sock' = [sock EXCEPT ![l] = [key |-> k, mode |-> mode, st |-> "up"]]
          /\ path' = IF k \in Unix THEN [path EXCEPT ![k] = l] ELSE path
    BY <1>7 DEF Retry
  <2>2. /\ pending' = pending \ {<<k, mode>>}
        /\ clobbered' = IF k \in Unix /\ \E m \in Listeners : sock[m].key = k
                          THEN clobbered \cup {k} ELSE clobbered
    BY <1>7 DEF Retry
  <2>3. SockTypes' /\ SocketsInv'
    BY <1>1, <1>2, <1>7, <2>1, <2>2, BindKeeps
  <2>4. l \in Listeners /\ l # None /\ sock[l].st = "free"
    BY KeyFacts DEF Unused
  <2>5. live'[k] = l /\ \A j \in Keys : j # k => live'[j] = live[j]
    BY <1>1, <2>1 DEF SockTypes
  <2>6. sock'[l].mode = mode /\ \A m \in Listeners : m # l => sock'[m] = sock[m]
    BY <1>1, <2>1, <2>4 DEF SockTypes
  <2>7. rt[k] = mode /\ pending' # pending
    BY <1>2, <1>7, <2>2 DEF Wanted
  <2>8. ASSUME ~down', ~strayed'
        PROVE  /\ \A j \in Lit' : sock'[live'[j]].mode = Current[j]
               /\ \A j \in On(Current) : live'[j] # None \/ <<j, Current[j]>> \in pending'
    <3>1. /\ \A j \in Lit : sock[live[j]].mode = Current[j]
          /\ \A j \in On(Current) : live[j] # None \/ <<j, Current[j]>> \in pending
      BY <1>1, <1>5, <2>8 DEF TrackedInv
    <3>2. Current[k] = mode
      BY <1>6, <1>7, <2>7, <2>8
    <3>3. \A j \in Lit' : j = k \/ (j # k /\ j \in Lit /\ live'[j] = live[j])
      BY <2>5 DEF Lit
    <3>4. \A j \in Lit : live[j] # l /\ live[j] \in Listeners
      BY <1>1, <2>4, LitFacts
    <3>5. \A j \in Lit' : sock'[live'[j]].mode = Current[j]
      BY <2>5, <2>6, <3>1, <3>2, <3>3, <3>4
    <3>6. \A j \in On(Current) : live'[j] # None \/ <<j, Current[j]>> \in pending'
      BY <2>2, <2>4, <2>5, <3>1 DEF On
    <3> QED BY <3>5, <3>6
  <2>9. TrackedInv'
    BY <1>1, <1>2, <1>5, <2>8 DEF TrackedInv, On
  <2> QED BY <1>4, <2>3, <2>9, TypesSplit, PTL DEF ManagerIInv
<1>8. CASE ~(live[k] = None /\ Wanted(k, mode) /\ ~Blocked(k))
  <2>1. UNCHANGED <<live, sock, path, clobbered>>
    BY <1>8 DEF Retry
  <2>2. SockTypes' /\ SocketsInv'
    BY <1>1, <1>2, <2>1, SameSockets
  <2>3. pending' # pending => live[k] # None \/ rt[k] # mode
    BY <1>8 DEF Retry, Wanted
  <2>4. ASSUME ~down', ~strayed'
        PROVE  /\ \A j \in Lit : sock[live[j]].mode = Current[j]
               /\ \A j \in On(Current) : live[j] # None \/ <<j, Current[j]>> \in pending'
    <3>1. /\ \A j \in Lit : sock[live[j]].mode = Current[j]
          /\ \A j \in On(Current) : live[j] # None \/ <<j, Current[j]>> \in pending
      BY <1>1, <1>5, <2>4 DEF TrackedInv
    <3>2. live[k] # None \/ pending' = pending \/ Current[k] # mode
      BY <1>6, <2>3, <2>4
    <3> QED BY <1>3, <3>1, <3>2
  <2>5. TrackedInv'
    BY <1>1, <1>2, <1>5, <2>1, <2>4 DEF TrackedInv, Lit, On
  <2> QED BY <1>4, <2>2, <2>5, TypesSplit, PTL DEF ManagerIInv
<1> QED BY <1>7, <1>8

(* Serve fails on a listener.                                              *)
LEMMA ServeFailsKeeps ==
  ASSUME ManagerIInv, NEW l \in Listeners, ServeFails(l)
  PROVE  ManagerIInv'
<1> DEFINE k == sock[l].key
<1>1. SockTypes /\ SocketsInv /\ OtherTypes /\ TrackedInv
  BY TypesSplit DEF ManagerIInv
<1>2. /\ sock[l].st = "up" /\ faults < MaxFaults /\ faults' = faults + 1
      /\ live' = IF live[k] = l THEN [live EXCEPT ![k] = None] ELSE live
      /\ pending' = pending \cup {<<k, sock[l].mode>>}
      /\ path' = IF k \in Unix THEN [path EXCEPT ![k] = None] ELSE path
      /\ sock' = [sock EXCEPT ![l] = Free]
      /\ UNCHANGED <<rt, target, foreign, down, strayed, clobbered, applies>>
  BY DEF ServeFails
<1>3. Free \in Sockets
  BY DEF Free, Sockets
<1>4. SockTypes' /\ SocketsInv'
  BY <1>1, <1>2, <1>3, ClosingKeeps
<1>5. k \in Lit /\ k \in Keys /\ live[k] = l /\ sock[l].mode \in {"plain", "tls"}
  BY <1>1, <1>2, LitFacts DEF SockTypes, Sockets, SocketsInv
<1>6. OtherTypes'
  <2>1. faults' \in 0..MaxFaults
    BY <1>1, <1>2, BoundsAssumption DEF OtherTypes
  <2> QED BY <1>1, <1>2, <1>5, <2>1 DEF OtherTypes
<1>7. Current' = Current
  BY <1>2 DEF Current
<1>8. live'[k] = None /\ \A j \in Keys : j # k => live'[j] = live[j]
  BY <1>1, <1>2, <1>5 DEF SockTypes
<1>9. ASSUME ~down', ~strayed'
      PROVE  /\ \A j \in Lit' : sock'[live'[j]].mode = Current[j]
             /\ \A j \in On(Current) : live'[j] # None \/ <<j, Current[j]>> \in pending'
  <2>1. /\ \A j \in Lit : sock[live[j]].mode = Current[j]
        /\ \A j \in On(Current) : live[j] # None \/ <<j, Current[j]>> \in pending
    BY <1>1, <1>2, <1>9 DEF TrackedInv
  <2>2. \A j \in Lit' : j # k /\ j \in Lit /\ live'[j] = live[j]
    BY <1>8 DEF Lit
  <2>3. \A j \in Lit : live[j] \in Listeners /\ (live[j] = l => j = k)
    BY <1>1, LitFacts
  <2>4. \A j \in Lit' : sock'[live'[j]].mode = Current[j]
    BY <1>1, <1>2, <2>1, <2>2, <2>3 DEF SockTypes
  <2>5. <<k, Current[k]>> \in pending'
    BY <1>2, <1>5, <2>1
  <2>6. \A j \in On(Current) : live'[j] # None \/ <<j, Current[j]>> \in pending'
    BY <1>2, <1>8, <2>1, <2>5 DEF On
  <2> QED BY <2>4, <2>6
<1>10. TrackedInv'
  BY <1>1, <1>2, <1>7, <1>9 DEF TrackedInv, On
<1> QED BY <1>4, <1>6, <1>10, TypesSplit, PTL DEF ManagerIInv

(* A goroutine closes the socket of a removed listener, then removes its   *)
(* path.                                                                   *)
LEMMA CloseKeeps ==
  ASSUME ManagerIInv, NEW l \in Listeners, CloseSocket(l) \/ RemovePath(l)
  PROVE  ManagerIInv'
<1>1. SockTypes /\ SocketsInv /\ OtherTypes /\ TrackedInv
  BY TypesSplit DEF ManagerIInv
<1>2. /\ sock[l].st # "free" /\ sock[l].st # "up"
      /\ UNCHANGED <<rt, target, live, pending, foreign, down, strayed, clobbered, faults, applies>>
  BY DEF CloseSocket, RemovePath
<1>3. Free \in Sockets
  BY DEF Free, Sockets
<1>4. live[sock[l].key] # l
  <2>1. sock[l].key \in Keys
    BY <1>1, <1>2, LitFacts
  <2> QED BY <1>1, <1>2, <2>1, KeyFacts, LitFacts
<1>5. /\ [sock[l] EXCEPT !.st = "unlinking"] \in Sockets
      /\ [sock[l] EXCEPT !.st = "unlinking"].st = "unlinking"
      /\ [sock[l] EXCEPT !.st = "unlinking"].key = sock[l].key
  BY <1>1 DEF SockTypes, Sockets
<1>6. PICK r \in Sockets :
        /\ r = Free \/ (r.st = "unlinking" /\ r.key = sock[l].key /\ r.key \in Unix)
        /\ sock' = [sock EXCEPT ![l] = r]
        /\ path' = IF sock[l].key \in Unix THEN [path EXCEPT ![sock[l].key] = None] ELSE path
  <2>1. CASE CloseSocket(l) /\ sock[l].key \in Unix
    <3>1. sock' = [sock EXCEPT ![l] = [sock[l] EXCEPT !.st = "unlinking"]]
      BY <2>1 DEF CloseSocket
    <3>2. path' = [path EXCEPT ![sock[l].key] = None]
      BY <2>1 DEF CloseSocket
    <3> QED BY <1>5, <2>1, <3>1, <3>2
  <2>2. CASE CloseSocket(l) /\ sock[l].key \notin Unix
    BY <1>3, <2>2 DEF CloseSocket
  <2>3. CASE RemovePath(l)
    <3>1. sock[l].key \in Unix
      BY <1>1, <2>3 DEF RemovePath, SocketsInv
    <3> QED BY <1>3, <2>3, <3>1 DEF RemovePath
  <2> QED BY <2>1, <2>2, <2>3
<1>7. SockTypes' /\ SocketsInv'
  <2>1. live' = IF live[sock[l].key] = l THEN [live EXCEPT ![sock[l].key] = None] ELSE live
    BY <1>2, <1>4
  <2> QED BY <1>1, <1>2, <1>6, <2>1, ClosingKeeps
<1>8. OtherTypes'
  BY <1>1, <1>2 DEF OtherTypes
<1>9. TrackedInv'
  <2>1. \A k \in Lit : live[k] \in Listeners /\ live[k] # l
    BY <1>1, <1>2, LitFacts
  <2>2. \A k \in Lit : sock'[live[k]] = sock[live[k]]
    BY <1>1, <1>6, <2>1 DEF SockTypes
  <2> QED BY <1>1, <1>2, <2>2, SameTracked
<1> QED BY <1>7, <1>8, <1>9, TypesSplit, PTL DEF ManagerIInv

(* The process shuts down.                                                 *)
LEMMA ShutdownKeeps ==
  ASSUME ManagerIInv, Shutdown
  PROVE  ManagerIInv'
<1>1. SockTypes /\ SocketsInv /\ OtherTypes /\ TrackedInv
  BY TypesSplit DEF ManagerIInv
<1>2. /\ target = None /\ down' = TRUE
      /\ live' = [k \in Keys |-> None]
      /\ sock' = [l \in Listeners |-> Free]
      /\ path' = [k \in Unix |-> None]
      /\ UNCHANGED <<rt, target, pending, foreign, strayed, clobbered, faults, applies>>
  BY DEF Shutdown
<1>3. Free \in Sockets /\ Free.st = "free" /\ Free.key = None
  BY DEF Free, Sockets
<1>4. \A l \in Listeners : sock'[l].st = "free" /\ sock'[l].key = None
  BY <1>2, <1>3
<1>5. Lit' = {} /\ \A k : Bound(k)' = {}
  <2>1. \A k \in Keys : live'[k] = None
    BY <1>2
  <2> QED BY <1>4, <2>1 DEF Lit, Bound
<1>6. SockTypes'
  BY <1>1, <1>2, <1>3 DEF SockTypes
<1>7. SocketsInv'
  <2>1. \A u \in Unix : live'[u] = None
    BY <1>2, KeyFacts
  <2> QED BY <1>4, <1>5, <2>1 DEF SocketsInv
<1>8. OtherTypes' /\ TrackedInv'
  BY <1>1, <1>2 DEF OtherTypes, TrackedInv
<1> QED BY <1>6, <1>7, <1>8, TypesSplit, PTL DEF ManagerIInv

(* Another process takes an address or gives one up.                       *)
LEMMA ForeignKeeps ==
  ASSUME ManagerIInv, NEW k \in Tcp, ForeignBind(k) \/ ForeignRelease(k)
  PROVE  ManagerIInv'
<1>1. SockTypes /\ SocketsInv /\ OtherTypes /\ TrackedInv
  BY TypesSplit DEF ManagerIInv
<1>2. UNCHANGED <<rt, target, live, sock, path, pending, down, strayed, clobbered, applies>>
  BY DEF ForeignBind, ForeignRelease
<1>3. /\ foreign' \subseteq Tcp
      /\ \A j \in foreign' : j \in foreign \/ (j = k /\ Bound(k) = {})
  BY <1>1 DEF ForeignBind, ForeignRelease, SockTypes
<1>4. SockTypes'
  BY <1>1, <1>2, <1>3 DEF SockTypes
<1>5. SocketsInv'
  <2>1. Lit' = Lit /\ \A j : Bound(j)' = Bound(j)
    BY <1>2 DEF Lit, Bound
  <2>2. \A j \in foreign' : Bound(j) = {}
    BY <1>1, <1>3 DEF SocketsInv
  <2> QED BY <1>1, <1>2, <2>1, <2>2 DEF SocketsInv
<1>6. OtherTypes'
  <2>1. faults' = faults \/ (faults < MaxFaults /\ faults' = faults + 1)
    BY DEF ForeignBind, ForeignRelease
  <2>2. faults' \in 0..MaxFaults
    BY <1>1, <2>1, BoundsAssumption DEF OtherTypes
  <2> QED BY <1>1, <1>2, <2>2 DEF OtherTypes
<1>7. TrackedInv'
  BY <1>1, <1>2, SameTracked
<1> QED BY <1>4, <1>5, <1>6, <1>7, TypesSplit, PTL DEF ManagerIInv

(* startAll.                                                               *)
LEMMA ManagerStarts ==
  ASSUME Init
  PROVE  ManagerIInv
<1>1. /\ rt \in Configs /\ target = None /\ foreign \in SUBSET Tcp
      /\ pending = {<<k, rt[k]>> : k \in On(rt) \cap foreign}
      /\ down = FALSE /\ strayed = FALSE /\ clobbered = {} /\ faults = 0 /\ applies = 0
  BY DEF Init
<1> DEFINE s0 == [l \in Listeners |-> Free]
           D == On(rt) \ foreign
<1>2. PICK f \in Injection(D, Listeners) :
       /\ live = [k \in Keys |-> IF k \in DOMAIN f THEN f[k] ELSE None]
       /\ sock = Serving(f, rt, s0)
       /\ path = [u \in Unix |-> IF u \in DOMAIN f THEN f[u] ELSE None]
  BY DEF Init
<1>3. Free \in Sockets /\ Free.st = "free" /\ Free.key = None
  BY DEF Free, Sockets
<1>4. s0 \in [Listeners -> Sockets] /\ \A l \in Listeners : s0[l] = Free
  BY <1>3
<1> HIDE DEF s0
<1>5. /\ DOMAIN f = D /\ f \in [D -> Listeners]
      /\ \A j, k \in D : f[j] = f[k] => j = k
      /\ \A k \in D : sock[f[k]] = [key |-> k, mode |-> rt[k], st |-> "up"]
      /\ \A l \in Listeners : (\A k \in D : f[k] # l) => sock[l] = s0[l]
      /\ sock \in [Listeners -> Sockets]
  <2>1. D \in SUBSET Keys /\ rt \in [Keys -> Modes] /\ Listeners \in SUBSET Listeners
    BY <1>1, KeyFacts DEF On
  <2> DEFINE t == Serving(f, rt, s0)
  <2>2. /\ DOMAIN f = D /\ f \in [D -> Listeners]
        /\ \A j, k \in D : f[j] = f[k] => j = k
        /\ \A k \in D : t[f[k]] = [key |-> k, mode |-> rt[k], st |-> "up"]
        /\ \A l \in Listeners : (\A k \in D : f[k] # l) => t[l] = s0[l]
        /\ t \in [Listeners -> Sockets]
    BY <1>4, <2>1, ServingFacts
  <2> HIDE DEF t
  <2>3. sock = t
    BY <1>2 DEF t
  <2> QED BY <2>2, <2>3
<1>6. \A k \in D : /\ k \in Keys /\ rt[k] # "off" /\ k \notin foreign
                   /\ live[k] = f[k] /\ f[k] \in Listeners
                   /\ sock[f[k]].key = k /\ sock[f[k]].mode = rt[k] /\ sock[f[k]].st = "up"
  <2> SUFFICES ASSUME NEW k \in D
               PROVE  /\ k \in Keys /\ rt[k] # "off" /\ k \notin foreign
                      /\ live[k] = f[k] /\ f[k] \in Listeners
                      /\ sock[f[k]].key = k /\ sock[f[k]].mode = rt[k] /\ sock[f[k]].st = "up"
    OBVIOUS
  <2>1. sock[f[k]] = [key |-> k, mode |-> rt[k], st |-> "up"]
    BY <1>5
  <2> QED BY <1>2, <1>5, <2>1 DEF On
<1>7. \A l \in Listeners : (\E k \in D : l = f[k]) \/ sock[l] = Free
  BY <1>4, <1>5
<1> HIDE DEF D
<1>8. \A k \in Keys : k \in Lit <=> k \in D
  <2>1. \A k \in Keys : k \notin D => live[k] = None
    BY <1>2, <1>5
  <2> QED BY <1>6, <2>1, KeyFacts DEF Lit
<1>9. SockTypes
  BY <1>1, <1>2, <1>5 DEF SockTypes
<1>10. \A l \in Listeners : /\ sock[l].st = "free" <=> sock[l].key = None
                            /\ sock[l].st = "up" => sock[l].mode # "off"
                            /\ sock[l].st = "unlinking" => sock[l].key \in Unix
                            /\ sock[l].key # None => sock[l].key \in D /\ l = f[sock[l].key]
  <2> SUFFICES ASSUME NEW l \in Listeners
               PROVE  /\ sock[l].st = "free" <=> sock[l].key = None
                      /\ sock[l].st = "up" => sock[l].mode # "off"
                      /\ sock[l].st = "unlinking" => sock[l].key \in Unix
                      /\ sock[l].key # None => sock[l].key \in D /\ l = f[sock[l].key]
    OBVIOUS
  <2>1. CASE \E k \in D : l = f[k]
    BY <1>6, <2>1, KeyFacts
  <2>2. CASE sock[l] = Free
    BY <1>3, <2>2
  <2> QED BY <1>7, <2>1, <2>2
<1>11. \A k \in Keys : \A l \in Listeners : sock[l].key = k => k \in D /\ l = f[k]
  BY <1>10, KeyFacts
<1>12. SocketsInv
  <2>1. \A k \in Lit : sock[live[k]].st = "up" /\ sock[live[k]].key = k
    BY <1>6, <1>8 DEF Lit
  <2>2. \A l \in Listeners : sock[l].st = "up" => live[sock[l].key] = l
    BY <1>6, <1>10
  <2>3. /\ \A k \in Tcp : \A l, m \in Bound(k) : l = m
        /\ \A k \in foreign : Bound(k) = {}
    BY <1>1, <1>6, <1>11, KeyFacts DEF Bound
  <2>4. \A u \in Unix \ clobbered : live[u] # None =>
          /\ path[u] = live[u]
          /\ \A l \in Listeners : (sock[l].key = u) => (l = live[u])
    BY <1>2, <1>5, <1>6, <1>8, <1>11, KeyFacts DEF Lit
  <2> QED BY <1>10, <2>1, <2>2, <2>3, <2>4 DEF SocketsInv
<1>13. OtherTypes
  <2>1. pending \subseteq Keys \X {"plain", "tls"}
    BY <1>1, KeyFacts DEF On, Modes
  <2>2. faults \in 0..MaxFaults /\ applies \in 0..MaxApplies
    BY <1>1, BoundsAssumption
  <2>3. down \in BOOLEAN /\ strayed \in BOOLEAN
    BY <1>1
  <2> QED BY <1>1, <2>1, <2>2, <2>3 DEF OtherTypes
<1>14. TrackedInv
  <2>1. Current = rt
    BY <1>1 DEF Current
  <2>2. \A k \in Lit : sock[live[k]].mode = rt[k]
    BY <1>6, <1>8 DEF Lit
  <2>3. \A k \in On(rt) : live[k] # None \/ <<k, rt[k]>> \in pending
    BY <1>1, <1>6, KeyFacts DEF D
  <2> QED BY <1>1, <2>1, <2>2, <2>3 DEF TrackedInv
<1> QED BY <1>9, <1>12, <1>13, <1>14, TypesSplit DEF ManagerIInv

(* Every step of the process, of its goroutines and timers, and of the     *)
(* other processes keeps the invariant.                                    *)
LEMMA StepKeeps ==
  ASSUME ManagerIInv, [Next]_vars
  PROVE  ManagerIInv'
<1>1. CASE Next
  BY <1>1, ApplyKeeps, SwapKeeps, RollbackKeeps, ShutdownKeeps, RetryKeeps,
     ServeFailsKeeps, CloseKeeps, ForeignKeeps DEF Next
<1>2. CASE UNCHANGED vars
  <2>1. SockTypes /\ SocketsInv /\ OtherTypes /\ TrackedInv
    BY TypesSplit DEF ManagerIInv
  <2>2. SockTypes' /\ SocketsInv' /\ OtherTypes' /\ TrackedInv'
    BY <1>2, <2>1, SameSockets, SameTracked DEF vars, OtherTypes
  <2> QED BY <2>2, TypesSplit, PTL DEF ManagerIInv
<1> QED BY <1>1, <1>2

(* Whatever the applies, goroutines, timers and other processes do, and in *)
(* whatever order, the manager's records are those of its sockets, a path  *)
(* that nobody clobbered leads to the one socket that has it, and what is  *)
(* desired and not served waits for a timer, also within the window of an  *)
(* apply.                                                                  *)
THEOREM ManagerInvariant == Spec => []ManagerIInv
<1>1. Init => ManagerIInv
  BY ManagerStarts
<1>2. ManagerIInv /\ [Next]_vars => ManagerIInv'
  BY StepKeeps
<1> QED BY <1>1, <1>2, PTL DEF Spec

(* The sockets are those of the runtime: m.live is true, no address has    *)
(* two sockets or one beside another process, between applies exactly the  *)
(* desired addresses are served or wait for a timer, and the frontend      *)
(* reaches every internal listener.                                        *)
THEOREM SocketsAlwaysMatch == Spec => []ListenersMatchRuntime
<1>1. ManagerIInv => ListenersMatchRuntime
  <2> SUFFICES ASSUME ManagerIInv PROVE ListenersMatchRuntime
    OBVIOUS
  <2>1. SockTypes /\ SocketsInv /\ OtherTypes /\ TrackedInv
    BY TypesSplit DEF ManagerIInv
  <2>2. \A k \in Tcp : Cardinality(Bound(k)) <= 1
    <3> SUFFICES ASSUME NEW k \in Tcp PROVE Cardinality(Bound(k)) <= 1
      OBVIOUS
    <3>1. CASE Bound(k) = {}
      <4>1. Cardinality(Bound(k)) = 0
        BY <3>1, FS_EmptySet
      <4> QED BY <4>1
    <3>2. CASE Bound(k) # {}
      <4>1. PICK l : l \in Bound(k)
        BY <3>2
      <4>2. Bound(k) = {l}
        BY <2>1, <4>1 DEF SocketsInv
      <4>3. Cardinality(Bound(k)) = 1
        BY <4>2, FS_Singleton
      <4> QED BY <4>3
    <3> QED BY <3>1, <3>2
  <2>3. LiveIsTrue
    BY <2>1, <2>2 DEF LiveIsTrue, SocketsInv, ManagerIInv
  <2>4. ~down /\ target = None /\ ~strayed =>
          /\ \A k \in Lit : sock[live[k]].mode = rt[k]
          /\ \A k \in On(rt) : live[k] # None \/ <<k, rt[k]>> \in pending
    BY <2>1 DEF TrackedInv, Current
  <2>5. DesiredIsServed
    BY <2>4 DEF DesiredIsServed, Lit, On
  <2>6. NothingElseServed
    BY <2>1, <2>4, LitFacts DEF NothingElseServed, On, SocketsInv
  <2>7. PathReachable
    BY <2>1 DEF PathReachable, SocketsInv
  <2> QED BY <2>3, <2>5, <2>6, <2>7 DEF ListenersMatchRuntime
<1> QED BY <1>1, ManagerInvariant, PTL

(* Between reconcile and the swap of the runtime an address that the new   *)
(* configuration keeps is served throughout, by the same socket unless its *)
(* protocol changes, and one that moves to the TLS frontend is closed.     *)
THEOREM ApplyWindowAlways == Spec => ApplyWindow
<1> DEFINE Kept == target = None /\ target' # None =>
              \A k \in On(target') :
                live[k] # None => /\ live'[k] # None
                                  /\ sock[live[k]].mode = target'[k] => live'[k] = live[k]
           Handed == target = None /\ target' # None =>
              \A k \in FrontendOwned(target') : live[k] # None => sock'[live[k]].st = "free"
<1>1. ManagerIInv /\ [Next]_vars => Kept /\ Handed
  <2> SUFFICES ASSUME ManagerIInv, [Next]_vars, target = None, target' # None
               PROVE  /\ \A k \in On(target') :
                           live[k] # None =>
                             /\ live'[k] # None
                             /\ sock[live[k]].mode = target'[k] => live'[k] = live[k]
                      /\ \A k \in FrontendOwned(target') :
                           live[k] # None => sock'[live[k]].st = "free"
    OBVIOUS
  <2>1. Apply
    BY DEF Next, vars, Swap, Rollback, Shutdown, Retry, ServeFails, CloseSocket, RemovePath,
           ForeignBind, ForeignRelease
  <2>2. PICK c \in Configs \ {rt} : ReconcileOK(c) /\ target' = c
    BY <2>1 DEF Apply
  <2>3. SockTypes /\ SocketsInv
    BY TypesSplit DEF ManagerIInv
  <2>4. /\ \A k \in On(c) : live'[k] # None /\ sock'[live'[k]].mode = c[k]
        /\ \A k \in Keys : live[k] # None /\ k \in On(c) /\ sock[live[k]].mode = c[k]
                           => live'[k] = live[k]
        /\ \A k \in FrontendOwned(c) : live[k] # None => sock'[live[k]] = Free
    BY <2>2, <2>3, ReconcileKeeps
  <2>5. Free.st = "free"
    BY DEF Free
  <2> QED BY <2>2, <2>4, <2>5 DEF On
<1>2. ManagerIInv /\ [Next]_vars => [Kept]_vars /\ [Handed]_vars
  BY <1>1
<1> QED BY <1>2, ManagerInvariant, PTL DEF Spec, ApplyWindow, KeptAcrossApply, HandoffReleased

(* Every apply gets through to its swap, and no timer fires between its    *)
(* reconcile and the swap.                                                 *)
AppliesSucceed ==
  [][/\ applies' # applies => target' # None
     /\ target # None => pending \subseteq pending' /\ (target' = None => rt' # rt)]_vars

(* The comment of the manager, that bind failures are retried while the    *)
(* socket remains desired, holds of any number of reconfigurations that    *)
(* succeed: restoreOldLocked and a retry during the window are the only    *)
(* ways to lose an address.                                                *)
THEOREM RetriedIfAppliesSucceed == Spec /\ AppliesSucceed => []RetriedWhileDesired
<1> DEFINE Smooth == /\ applies' # applies => target' # None
                     /\ target # None => pending \subseteq pending' /\ (target' = None => rt' # rt)
<1>1. Init => ~strayed
  BY DEF Init
<1>2. ManagerIInv /\ ~strayed /\ [Next]_vars /\ [Smooth]_vars => ~strayed'
  <2> SUFFICES ASSUME ManagerIInv, ~strayed, [Next]_vars, [Smooth]_vars PROVE ~strayed'
    OBVIOUS
  <2>1. CASE UNCHANGED vars
    BY <2>1 DEF vars
  <2> SUFFICES ASSUME Next, Smooth PROVE ~strayed'
    BY <2>1
  <2>2. CASE Apply
    <3>1. applies' # applies
      BY <2>2 DEF Apply, ManagerIInv, TypeOK
    <3>2. target' # None
      BY <3>1
    <3> QED BY <2>2, <3>2 DEF Apply
  <2>3. ASSUME NEW k \in Keys, NEW mode \in {"plain", "tls"}, Retry(k, mode) PROVE ~strayed'
    <3>1. pending' \subseteq pending
      BY <2>3 DEF Retry
    <3>2. target # None => pending' = pending
      BY <3>1
    <3> QED BY <2>3, <3>2 DEF Retry
  <2>4. CASE Swap
    BY <2>4 DEF Swap
  <2>5. CASE Rollback
    BY <2>5 DEF Rollback
  <2>6. CASE Shutdown
    BY <2>6 DEF Shutdown
  <2>7. ASSUME NEW l \in Listeners, ServeFails(l) \/ CloseSocket(l) \/ RemovePath(l) PROVE ~strayed'
    BY <2>7 DEF ServeFails, CloseSocket, RemovePath
  <2>8. ASSUME NEW k \in Tcp, ForeignBind(k) \/ ForeignRelease(k) PROVE ~strayed'
    BY <2>8 DEF ForeignBind, ForeignRelease
  <2> QED BY <2>2, <2>3, <2>4, <2>5, <2>6, <2>7, <2>8 DEF Next
<1>3. ~strayed /\ DesiredIsServed /\ ManagerIInv => RetriedWhileDesired
  <2> SUFFICES ASSUME ~strayed, DesiredIsServed, ManagerIInv, ~down, target = None, NEW k \in On(rt)
               PROVE  live[k] # None \/ \E mode \in {"plain", "tls"} : <<k, mode>> \in pending
    BY DEF RetriedWhileDesired
  <2>1. live[k] # None \/ <<k, rt[k]>> \in pending
    BY DEF DesiredIsServed
  <2>2. <<k, rt[k]>> \in pending => rt[k] \in {"plain", "tls"}
    BY DEF ManagerIInv, TypeOK
  <2> QED BY <2>1, <2>2
<1>4. ListenersMatchRuntime => DesiredIsServed
  BY DEF ListenersMatchRuntime
<1> QED BY <1>1, <1>2, <1>3, <1>4, SocketsAlwaysMatch, ManagerInvariant, PTL DEF Spec, AppliesSucceed
=============================================================================
