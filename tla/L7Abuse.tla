------------------------------- MODULE L7Abuse -------------------------------
(***************************************************************************)
(* One shard of the application-layer limiter (l7_abuse.go): a token       *)
(* bucket and a concurrency count for each client, in a bounded table from *)
(* which idle entries are pruned, and one overflow bucket that clients     *)
(* without an entry share when the table is full.  The shard lock makes an *)
(* admission atomic; a release takes the lock of the entry only.           *)
(*                                                                         *)
(* TLS handshakes have shards of their own, with the same buckets but no   *)
(* concurrency count.  Tokens are counted in units of 1/Window, so that a  *)
(* tick refills Capacity units and an admission costs Window.              *)
(***************************************************************************)
EXTENDS Integers, FiniteSets, Functions

CONSTANTS Clients,         \* client keys of the shard
          MaxEntries,      \* l7AbuseMaxEntriesPerShard
          Capacity, Window, TTL, MaxConcurrent,
          MaxTime, MaxArrivals   \* bounds

ASSUME AbuseAssumption == /\ MaxEntries \in Nat /\ Capacity \in Nat \ {0}
                          /\ Window \in Nat \ {0} /\ TTL \in Nat /\ TTL >= 2 * Window
                          /\ MaxConcurrent \in Nat \ {0}

Kinds == {"http", "tls"}
Full == Capacity * Window

VARIABLES
  now,
  table,     \* kind -> client -> its entry
  overflow,  \* kind -> the shared entry
  own,       \* client -> its requests that hold its entry
  sharing,   \* requests that hold the overflow entry
  ideal,     \* history: kind -> client -> a bucket that is never evicted
  arrivals

abuseVars == <<now, table, overflow, own, sharing, ideal, arrivals>>

(* An entry; last is the time of its last refill (-1: zero), seen of its   *)
(* last use.                                                               *)
Entry(t) == [tokens |-> Full, last |-> t, seen |-> t, active |-> 0]

AbuseInit ==
  /\ now = 0
  /\ table = [k \in Kinds |-> [c \in {} |-> Entry(0)]]
  /\ overflow = [k \in Kinds |-> Entry(-1)]
  /\ own = [c \in Clients |-> 0] /\ sharing = 0
  /\ ideal = [k \in Kinds |-> [c \in Clients |-> [tokens |-> Full, last |-> 0]]]
  /\ arrivals = 0

-----------------------------------------------------------------------------
(* Mutated form: requests in flight do not pin their entry.                *)
Unseen(e) == e.seen < now - TTL

Idle(e) == e.active = 0 /\ e.seen < now - TTL

(* pruneShardLocked.                                                       *)
Pruned(t) == Restrict(t, {c \in DOMAIN t : ~Idle(t[c])})

(* evictOldestIdleLocked, after a prune: one entry, by the same test.      *)
Evicted(t) ==
  LET idle == {c \in DOMAIN t : Idle(t[c])}
  IN IF idle = {} THEN t
     ELSE LET oldest == CHOOSE c \in idle : \A d \in idle : t[c].seen <= t[d].seen
          IN Restrict(t, DOMAIN t \ {oldest})

(* Room for a client without an entry.                                     *)
Cleared(t) == LET p == IF Cardinality(DOMAIN t) >= MaxEntries THEN Pruned(t) ELSE t
              IN IF Cardinality(DOMAIN p) >= MaxEntries THEN Evicted(p) ELSE p

Lesser(a, b) == IF a < b THEN a ELSE b

(* Continuous refill up to the capacity.                                   *)
Refilled(b) == IF b.last = -1 THEN [b EXCEPT !.tokens = Full, !.last = now]
               ELSE [b EXCEPT !.tokens = Lesser(Full, @ + (now - b.last) * Capacity),
                              !.last = now]

Busy(k, e) == k = "http" /\ e.active >= MaxConcurrent

(* The entry after an arrival, and whether it admitted it.                 *)
Admits(k, e) == ~Busy(k, e) /\ Refilled(e).tokens >= Window
Used(k, e) ==
  LET seen == [e EXCEPT !.seen = now]
  IN IF Busy(k, e) THEN seen
     ELSE IF ~Admits(k, e) THEN Refilled(seen)
     ELSE [Refilled(seen) EXCEPT !.tokens = @ - Window,
                                 !.active = @ + IF k = "http" THEN 1 ELSE 0]

Ideal(k, c) == LET b == Refilled(ideal[k][c])
               IN [ideal EXCEPT ![k][c] = [b EXCEPT !.tokens = @ - Window]]

(* allowAt and allowTLSHandshakeAt: every 256th operation prunes first.    *)
Arrive(k, c) ==
  /\ arrivals < MaxArrivals /\ arrivals' = arrivals + 1
  /\ \E t0 \in {table[k], Pruned(table[k])} :
     LET t == IF c \in DOMAIN t0 THEN t0 ELSE Cleared(t0)
         shared == c \notin DOMAIN t /\ Cardinality(DOMAIN t) >= MaxEntries
         e == IF shared THEN overflow[k] ELSE IF c \in DOMAIN t THEN t[c] ELSE Entry(now)
     IN /\ table' = [table EXCEPT ![k] =
             IF shared THEN t
             ELSE [d \in DOMAIN t \cup {c} |-> IF d = c THEN Used(k, e) ELSE t[d]]]
        /\ overflow' = IF shared THEN [overflow EXCEPT ![k] = Used(k, e)] ELSE overflow
        /\ IF Admits(k, e) /\ k = "http"
             THEN IF shared THEN sharing' = sharing + 1 /\ UNCHANGED own
                            ELSE own' = [own EXCEPT ![c] = @ + 1] /\ UNCHANGED sharing
             ELSE UNCHANGED <<own, sharing>>
        /\ ideal' = IF Admits(k, e) /\ ~shared THEN Ideal(k, c) ELSE ideal
  /\ UNCHANGED now

(* releaseState, deferred by the handler, so also after a panic.           *)
Less(e) == [e EXCEPT !.active = IF @ > 0 THEN @ - 1 ELSE @]

Release(c) ==
  /\ own[c] > 0 /\ own' = [own EXCEPT ![c] = @ - 1]
  /\ table' = [table EXCEPT !["http"] =
                 [d \in DOMAIN @ |-> IF d = c THEN Less(@[d]) ELSE @[d]]]
  /\ UNCHANGED <<now, overflow, sharing, ideal, arrivals>>

ReleaseShared ==
  /\ sharing > 0 /\ sharing' = sharing - 1
  /\ overflow' = [overflow EXCEPT !["http"] = Less(@)]
  /\ UNCHANGED <<now, table, own, ideal, arrivals>>

Tick == /\ now < MaxTime /\ now' = now + 1
        /\ UNCHANGED <<table, overflow, own, sharing, ideal, arrivals>>

AbuseNext == \/ Tick
             \/ \E k \in Kinds, c \in Clients : Arrive(k, c)
             \/ \E c \in Clients : Release(c)
             \/ ReleaseShared

AbuseSpec == AbuseInit /\ [][AbuseNext]_abuseVars
-----------------------------------------------------------------------------
(* Properties.                                                             *)

(* Whoever is admitted holds an entry that stays in the table until he     *)
(* leaves: no client has more requests in flight than the limit, nor have  *)
(* the clients of the overflow entry together, and the counts are exact,   *)
(* so they return to zero.                                                 *)
ConcurrencyLimit ==
  /\ \A c \in Clients :
       /\ own[c] > 0 => c \in DOMAIN table["http"]
       /\ c \in DOMAIN table["http"] => table["http"][c].active = own[c]
       /\ own[c] <= MaxConcurrent
  /\ overflow["http"].active = sharing /\ sharing <= MaxConcurrent

(* Pruning and evicting entries gives no client tokens that a bucket kept  *)
(* for ever would not have, and the table stays within its bound.          *)
EvictionInvisible ==
  \A k \in Kinds :
    /\ Cardinality(DOMAIN table[k]) <= MaxEntries
    /\ \A c \in DOMAIN table[k] :
         Refilled(table[k][c]).tokens <= Refilled(ideal[k][c]).tokens

(* The limits hold whatever the table forgets.                             *)
LimitsHold == ConcurrencyLimit /\ EvictionInvisible

(* Types: a table gives entries to finitely many clients.                  *)
Entries == [tokens : Int, last : Int, seen : Int, active : Nat]

AbuseTypeOK ==
  /\ now \in Nat /\ own \in [Clients -> Nat] /\ sharing \in Nat
  /\ table = [k \in Kinds |-> table[k]]
  /\ \A k \in Kinds : /\ DOMAIN table[k] \subseteq Clients
                      /\ IsFiniteSet(DOMAIN table[k])
                      /\ table[k] \in [DOMAIN table[k] -> Entries]
  /\ overflow \in [Kinds -> Entries]
  /\ ideal \in [Kinds -> [Clients -> [tokens : Int, last : Nat]]]

(* What keeps the limits: a client was last admitted no later than its     *)
(* entry was last used, and a client without an entry has not been         *)
(* admitted for so long that its bucket would be full again.               *)
AbuseIInv ==
  /\ AbuseTypeOK /\ LimitsHold
  /\ \A k \in Kinds, c \in Clients :
       LET b == ideal[k][c]
       IN /\ b.tokens >= 0 /\ b.last <= now
          /\ c \in DOMAIN table[k] => /\ table[k][c].last \in 0..now
                                     /\ b.last <= table[k][c].seen
          /\ c \notin DOMAIN table[k] => Refilled(b).tokens = Full
=============================================================================
