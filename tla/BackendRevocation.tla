-------------------------- MODULE BackendRevocation --------------------------
(***************************************************************************)
(* Revocation lists of a pool's backends (pki.go, pki_url.go).  Every      *)
(* build of the runtime reads the file, the cache that earlier builds left *)
(* on disk, and then the URLs; buildRuntime asks for no refresher, so a    *)
(* list changes only with the next apply or start.                         *)
(*                                                                         *)
(* One issuer, whose lists are numbered; list n revokes the certificates   *)
(* up to n.  A list is <<source, number>>.                                 *)
(***************************************************************************)
EXTENDS Integers, FiniteSets

CONSTANTS CRLURLs, CRLFile,  \* sources
          PoolTLS,           \* backend TLS settings: [mode, file, urls]
          Stopped,           \* no runtime, no build
          MaxList            \* bound: lists issued

ASSUME RevocationAssumption ==
  /\ CRLFile \notin CRLURLs /\ MaxList \in Nat
  /\ PoolTLS \subseteq [mode : {"soft", "hard"}, file : BOOLEAN, urls : SUBSET CRLURLs]

Sources == CRLURLs \cup {CRLFile}

VARIABLES
  posted,    \* the list each source offers
  lapsed,    \* lists up to this number are past their nextUpdate
  crlCache,  \* the list cached for each URL, 0 for none
  poolTLS,   \* the settings in config.json
  crlSnapshot,  \* settings and lists of the live runtime, or Stopped
  loading,   \* the build under way, or Stopped
  enforced   \* history: the newest list of each source that was ever live

crlVars == <<posted, lapsed, crlCache, poolTLS, crlSnapshot, loading, enforced>>

RevocationInit ==
  /\ posted = [s \in Sources |-> 1] /\ lapsed = 0 /\ crlCache = [u \in CRLURLs |-> 0]
  /\ poolTLS \in PoolTLS /\ crlSnapshot = Stopped /\ loading = Stopped /\ enforced = [s \in Sources |-> 0]

Current(n) == n > lapsed

(* loadCRLStore and prepareCRLStore: an unusable file ends the build, an   *)
(* unusable cache entry is passed over.                                    *)
FileLists(c) == IF c.file THEN {<<CRLFile, posted[CRLFile]>>} ELSE {}
CachedLists(c) == {<<u, crlCache[u]>> : u \in {u \in c.urls : Current(crlCache[u])}}

BeginLoad(c) ==
  /\ loading = Stopped /\ (crlSnapshot = Stopped => c = poolTLS)
  /\ c.file => Current(posted[CRLFile])
  /\ loading' = [cfg |-> c, lists |-> FileLists(c) \cup CachedLists(c), fetched |-> {}, cached |-> {},
                 step |-> IF c.urls = {} THEN "built" ELSE "refresh"]
  /\ UNCHANGED <<posted, lapsed, crlCache, poolTLS, crlSnapshot, enforced>>

(* refresh: the file once more, then every URL ...                         *)
Fetched == {l[1] : l \in loading.fetched}

FetchCRLURL(u) ==
  /\ loading # Stopped /\ loading.step = "refresh" /\ u \in loading.cfg.urls \ Fetched /\ Current(posted[u])
  /\ Fetched = {} /\ loading.cfg.file => Current(posted[CRLFile])
  /\ loading' = [loading EXCEPT !.fetched = @ \cup {<<u, posted[u]>>} \cup (IF @ = {} THEN FileLists(loading.cfg) ELSE {})]
  /\ UNCHANGED <<posted, lapsed, crlCache, poolTLS, crlSnapshot, enforced>>

(* ... then the cache, in any order, and only then the snapshot.           *)
WriteCRLCache(u) ==
  /\ loading # Stopped /\ loading.step = "refresh" /\ loading.cfg.urls \subseteq Fetched /\ u \in loading.cfg.urls \ loading.cached
  /\ crlCache' = [crlCache EXCEPT ![u] = (CHOOSE l \in loading.fetched : l[1] = u)[2]]
  /\ loading' = [loading EXCEPT !.cached = @ \cup {u}]
  /\ UNCHANGED <<posted, lapsed, poolTLS, crlSnapshot, enforced>>

(* Mutated form: what was fetched is used before it is cached.             *)
AllFetched == loading.cfg.urls \subseteq Fetched

AllCached == loading.cfg.urls = loading.cached

RefreshEnds ==
  /\ loading # Stopped /\ loading.step = "refresh" /\ AllCached
  /\ loading' = [loading EXCEPT !.step = "built", !.lists = loading.fetched]
  /\ UNCHANGED <<posted, lapsed, crlCache, poolTLS, crlSnapshot, enforced>>

(* Any failing step leaves the lists as they were, which ends a build only *)
(* in hard mode, and only if there are none.                               *)
RefreshFails ==
  /\ loading # Stopped /\ loading.step = "refresh"
  /\ loading' = IF loading.cfg.mode = "hard" /\ loading.lists = {} THEN Stopped ELSE [loading EXCEPT !.step = "built"]
  /\ UNCHANGED <<posted, lapsed, crlCache, poolTLS, crlSnapshot, enforced>>

NewestOf(lists, s) == {l[2] : l \in {l \in lists : l[1] = s}}

(* The rest of the apply: the runtime is swapped or dropped.               *)
GoesLive ==
  /\ loading # Stopped /\ loading.step = "built"
  /\ crlSnapshot' = [cfg |-> loading.cfg, lists |-> loading.lists] /\ poolTLS' = loading.cfg
  /\ enforced' = [s \in Sources |-> CHOOSE n \in {enforced[s]} \cup NewestOf(loading.lists, s) : \A m \in {enforced[s]} \cup NewestOf(loading.lists, s) : n >= m]
  /\ loading' = Stopped
  /\ UNCHANGED <<posted, lapsed, crlCache>>

BuildDropped == /\ loading # Stopped /\ loading.step = "built" /\ loading' = Stopped
                /\ UNCHANGED <<posted, lapsed, crlCache, poolTLS, crlSnapshot, enforced>>

CrashLosesLists == /\ <<crlSnapshot, loading>> # <<Stopped, Stopped>> /\ crlSnapshot' = Stopped /\ loading' = Stopped
                   /\ UNCHANGED <<posted, lapsed, crlCache, poolTLS, enforced>>

(* Sources go forward; time passes, whether or not they do.                *)
Issue(s) == /\ posted[s] < MaxList /\ posted' = [posted EXCEPT ![s] = @ + 1]
            /\ UNCHANGED <<lapsed, crlCache, poolTLS, crlSnapshot, loading, enforced>>
ListLapses == /\ lapsed < MaxList - 1 /\ lapsed' = lapsed + 1
              /\ UNCHANGED <<posted, crlCache, poolTLS, crlSnapshot, loading, enforced>>

RevocationNext ==
  \/ \E c \in PoolTLS : BeginLoad(c)
  \/ \E u \in CRLURLs : FetchCRLURL(u) \/ WriteCRLCache(u)
  \/ RefreshEnds \/ RefreshFails \/ GoesLive \/ BuildDropped \/ CrashLosesLists
  \/ \E s \in Sources : Issue(s)
  \/ ListLapses

RevocationSpec == RevocationInit /\ [][RevocationNext]_crlVars

-----------------------------------------------------------------------------
(* verify, for a certificate of the issuer: without sources in soft mode   *)
(* there is no check; a list that lapsed refuses all its certificates.     *)
Verified(c) ==
  \/ crlSnapshot.cfg.mode = "soft" /\ ~crlSnapshot.cfg.file /\ crlSnapshot.cfg.urls = {}
  \/ /\ \A l \in crlSnapshot.lists : Current(l[2]) /\ c > l[2]
     /\ crlSnapshot.cfg.mode = "hard" => crlSnapshot.lists # {}

(* What has been revoked stays revoked.  A certificate that is accepted is *)
(* on no current list of a configured source that any runtime has used     *)
(* before, through applies, failed refreshes and restarts; in hard mode a  *)
(* current list says so.                                                   *)
RevocationStands ==
  crlSnapshot # Stopped => \A c \in 1..MaxList : Verified(c) =>
    /\ \A s \in Sources : s \in crlSnapshot.cfg.urls \/ (s = CRLFile /\ crlSnapshot.cfg.file) =>
         (Current(enforced[s]) => c > enforced[s])
    /\ crlSnapshot.cfg.mode = "hard" => \E l \in crlSnapshot.lists : Current(l[2])

(* Why: for every configured source, a build holds a list at least as new  *)
(* as any that was live, or that one has lapsed.                           *)
Lists == SUBSET (Sources \X Nat)
Build == [cfg : PoolTLS, lists : Lists, fetched : Lists, cached : SUBSET CRLURLs,
          step : {"refresh", "built"}]
OnePerSource(lists) == \A l, m \in lists : l[1] = m[1] => l = m
CRLSources(c) == c.urls \cup (IF c.file THEN {CRLFile} ELSE {})
Covers(c, lists) ==
  \A s \in CRLSources(c) : Current(enforced[s]) => \E l \in lists : l[1] = s /\ l[2] >= enforced[s]

(* A cache is never behind what was live nor ahead of its source.          *)
SourcesInv ==
  /\ posted \in [Sources -> Nat] /\ crlCache \in [CRLURLs -> Nat] /\ enforced \in [Sources -> Nat]
  /\ lapsed \in Nat /\ poolTLS \in PoolTLS
  /\ \A s \in Sources : enforced[s] <= posted[s]
  /\ \A u \in CRLURLs : enforced[u] <= crlCache[u] /\ crlCache[u] <= posted[u]

FetchInv(b) ==
  /\ OnePerSource(b.fetched)
  /\ \A l \in b.fetched :
       /\ l[1] \in CRLSources(b.cfg)
       /\ enforced[l[1]] <= l[2] /\ l[2] <= posted[l[1]]
       /\ l[1] \in CRLURLs => crlCache[l[1]] <= l[2]
       /\ l[1] \in b.cached => crlCache[l[1]] = l[2]
  /\ \A u \in b.cached : \E l \in b.fetched : l[1] = u
  /\ b.fetched # {} /\ b.cfg.file => \E l \in b.fetched : l[1] = CRLFile
  /\ b.step = "refresh" => b.cfg.urls # {}

ListsInv(b) ==
  /\ OnePerSource(b.lists) /\ Covers(b.cfg, b.lists)
  /\ \A l \in b.lists : l[2] <= posted[l[1]] /\ (l[1] \in CRLURLs => l[2] <= crlCache[l[1]])

(* The inductive invariant.                                                *)
RevocationInv ==
  /\ SourcesInv
  /\ loading # Stopped => loading \in Build /\ FetchInv(loading) /\ ListsInv(loading)
  /\ crlSnapshot # Stopped => /\ crlSnapshot \in [cfg : PoolTLS, lists : Lists]
                              /\ Covers(crlSnapshot.cfg, crlSnapshot.lists)
=============================================================================
