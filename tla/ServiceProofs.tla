--------------------------- MODULE ServiceProofs ----------------------------
(* Proofs about the services beside the request path: the revocation lists *)
(* of backends, administrators with their sessions, managed addresses, the *)
(* TLS frontend, updates, the AI engine, the dashboard's connector, and    *)
(* notifications.                                                          *)
EXTENDS BackendRevocation, AdminSessions, HostAddresses, FrontendManager, SelfUpdate,
        AIAnalysis, DashboardExport, EventForwarding, FiniteSetTheorems, SequenceTheorems, TLAPS

(***************************************************************************)
(* Revocation lists: for any sources, settings, numbers of lists, failures *)
(* and restarts.                                                           *)
(***************************************************************************)

(* The invariant holds at the start.                                       *)
LEMMA RevocationStart ==
  ASSUME RevocationInit
  PROVE  RevocationInv
<1>1. posted \in [Sources -> Nat] /\ crlCache \in [CRLURLs -> Nat] /\ enforced \in [Sources -> Nat]
  BY DEF RevocationInit, Sources
<1> QED BY <1>1 DEF RevocationInit, RevocationInv, SourcesInv, Sources

(* A list that covers a source goes on doing so as time passes.            *)
LEMMA CoversStays ==
  ASSUME NEW c, NEW lists, Covers(c, lists), lapsed \in Nat, lapsed' \in Nat, lapsed <= lapsed', enforced' = enforced,
         enforced \in [Sources -> Nat], CRLSources(c) \subseteq Sources
  PROVE  Covers(c, lists)'
  BY DEF Covers, Current

(* The sources of a setting are sources.                                   *)
LEMMA SettingSources ==
  ASSUME NEW c \in PoolTLS
  PROVE  CRLSources(c) \subseteq Sources /\ c.urls \subseteq CRLURLs /\ c.file \in BOOLEAN
  BY RevocationAssumption DEF CRLSources, Sources

-----------------------------------------------------------------------------
(* A build begins with the file and the cached lists that are current.     *)
LEMMA BeginStep ==
  ASSUME RevocationInv, NEW c \in PoolTLS, BeginLoad(c)
  PROVE  RevocationInv'
<1> DEFINE lists == FileLists(c) \cup CachedLists(c)
           s == IF c.urls = {} THEN "built" ELSE "refresh"
<1>1. /\ loading' = [cfg |-> c, lists |-> lists, fetched |-> {}, cached |-> {}, step |-> s]
      /\ UNCHANGED <<posted, lapsed, crlCache, poolTLS, crlSnapshot, enforced>>
  BY DEF BeginLoad
<1>2. SourcesInv /\ c.urls \subseteq CRLURLs /\ CRLFile \notin CRLURLs
  BY SettingSources, RevocationAssumption DEF RevocationInv
<1>3. \A l \in lists : \/ l = <<CRLFile, posted[CRLFile]>> /\ c.file
                       \/ l[1] \in c.urls /\ l = <<l[1], crlCache[l[1]]>>
  BY DEF FileLists, CachedLists
<1>4. lists \in Lists
  BY <1>2, <1>3 DEF Lists, Sources, SourcesInv
<1>5. OnePerSource(lists)
  BY <1>2, <1>3 DEF OnePerSource
<1>6. \A l \in lists : l[2] <= posted[l[1]] /\ (l[1] \in CRLURLs => l[2] <= crlCache[l[1]])
  BY <1>2, <1>3 DEF SourcesInv, Sources
<1>7. Covers(c, lists)
  <2> SUFFICES ASSUME NEW x \in CRLSources(c), Current(enforced[x])
               PROVE  \E l \in lists : l[1] = x /\ l[2] >= enforced[x]
    BY DEF Covers
  <2>1. CASE x \in c.urls
    <3>1. Current(crlCache[x]) /\ crlCache[x] >= enforced[x]
      BY <1>2, <2>1 DEF SourcesInv, Current, Sources
    <3>2. <<x, crlCache[x]>> \in lists
      BY <2>1, <3>1 DEF CachedLists
    <3> QED BY <3>1, <3>2
  <2>2. CASE x = CRLFile /\ c.file
    <3>1. <<x, posted[x]>> \in lists /\ posted[x] >= enforced[x]
      BY <1>2, <2>2 DEF FileLists, SourcesInv, Sources
    <3> QED BY <3>1
  <2> QED BY <2>1, <2>2 DEF CRLSources
<1>8. s \in {"refresh", "built"} /\ (s = "refresh" => c.urls # {})
  OBVIOUS
<1> HIDE DEF lists, s
<1>9. loading' \in Build /\ FetchInv(loading)' /\ ListsInv(loading)'
  <2>1. loading' \in Build
    BY <1>1, <1>4, <1>8 DEF Build, Lists
  <2>2. FetchInv(loading)'
    BY <1>1, <1>8 DEF FetchInv, OnePerSource
  <2>3. ListsInv(loading)'
    BY <1>1, <1>5, <1>6, <1>7 DEF ListsInv, Covers, Current
  <2> QED BY <2>1, <2>2, <2>3
<1> QED BY <1>1, <1>9 DEF RevocationInv, SourcesInv, Covers, Current

(* A fetch brings a list at least as new as the cached one and any that    *)
(* was live; the first brings the file's with it.                          *)
LEMMA FetchStep ==
  ASSUME RevocationInv, NEW u \in CRLURLs, FetchCRLURL(u)
  PROVE  RevocationInv'
<1> DEFINE new == {<<u, posted[u]>>} \cup (IF loading.fetched = {} THEN FileLists(loading.cfg) ELSE {})
<1>1. /\ loading' = [loading EXCEPT !.fetched = @ \cup new]
      /\ UNCHANGED <<posted, lapsed, crlCache, poolTLS, crlSnapshot, enforced>>
      /\ loading # Stopped /\ u \notin Fetched /\ u \in loading.cfg.urls
  BY DEF FetchCRLURL
<1>2. /\ loading \in Build /\ FetchInv(loading) /\ ListsInv(loading) /\ SourcesInv
      /\ CRLFile \notin CRLURLs /\ u \in Sources /\ CRLFile \in Sources
  BY <1>1, RevocationAssumption DEF RevocationInv, Sources
<1>3. /\ \A l \in new : l = <<u, posted[u]>> \/ (l = <<CRLFile, posted[CRLFile]>> /\ loading.fetched = {} /\ loading.cfg.file)
      /\ <<u, posted[u]>> \in new
      /\ loading.fetched = {} /\ loading.cfg.file => <<CRLFile, posted[CRLFile]>> \in new
  BY DEF FileLists
<1> HIDE DEF new
<1>4. new \in Lists
  BY <1>2, <1>3 DEF Lists, SourcesInv
<1>5. /\ loading' \in Build /\ loading'.fetched = loading.fetched \cup new
      /\ loading'.cfg = loading.cfg /\ loading'.lists = loading.lists
      /\ loading'.cached = loading.cached /\ loading'.step = loading.step
  BY <1>1, <1>2, <1>4 DEF Build, Lists
<1>6. \A l \in loading.fetched : l[1] # u
  BY <1>1 DEF Fetched
<1>7. \A l \in loading.cached : l # u /\ \E m \in loading.fetched : m[1] = l
  BY <1>2, <1>6 DEF FetchInv
<1>8. FetchInv(loading)'
  <2>1. OnePerSource(loading'.fetched)
    BY <1>2, <1>3, <1>5, <1>6 DEF FetchInv, OnePerSource
  <2>2. ASSUME NEW l \in new
        PROVE  /\ enforced[l[1]] <= l[2] /\ l[2] <= posted[l[1]]
               /\ l[1] \in CRLURLs => crlCache[l[1]] <= l[2]
               /\ l[1] \notin loading.cached /\ l[1] \in CRLSources(loading.cfg)
    <3>1. l[1] \in CRLSources(loading.cfg)
      BY <1>1, <1>3 DEF CRLSources
    <3> QED BY <1>2, <1>3, <1>7, <3>1 DEF SourcesInv, Build
  <2>3. /\ \A x \in loading'.cached : \E l \in loading'.fetched : l[1] = x
        /\ loading'.cfg.file => \E l \in loading'.fetched : l[1] = CRLFile
        /\ loading'.step = "refresh" => loading'.cfg.urls # {}
    BY <1>2, <1>3, <1>5 DEF FetchInv
  <2>4. \A l \in loading'.fetched :
          /\ l[1] \in CRLSources(loading'.cfg)
          /\ enforced[l[1]] <= l[2] /\ l[2] <= posted[l[1]]
          /\ l[1] \in CRLURLs => crlCache[l[1]] <= l[2]
          /\ l[1] \in loading'.cached => crlCache[l[1]] = l[2]
    BY <1>2, <1>5, <2>2 DEF FetchInv
  <2> QED BY <1>1, <2>1, <2>3, <2>4 DEF FetchInv, OnePerSource
<1>9. ListsInv(loading)'
  BY <1>1, <1>2, <1>5 DEF ListsInv, OnePerSource, Covers, Current
<1> QED BY <1>1, <1>5, <1>8, <1>9 DEF RevocationInv, SourcesInv, Covers, Current

(* The cache goes forward.                                                 *)
LEMMA CacheStep ==
  ASSUME RevocationInv, NEW u \in CRLURLs, WriteCRLCache(u)
  PROVE  RevocationInv'
<1>1. /\ loading # Stopped /\ loading.cfg.urls \subseteq Fetched /\ u \in loading.cfg.urls
      /\ crlCache' = [crlCache EXCEPT ![u] = (CHOOSE l \in loading.fetched : l[1] = u)[2]]
      /\ loading' = [loading EXCEPT !.cached = @ \cup {u}]
      /\ UNCHANGED <<posted, lapsed, poolTLS, crlSnapshot, enforced>>
  BY DEF WriteCRLCache
<1>2. /\ loading \in Build /\ FetchInv(loading) /\ ListsInv(loading) /\ SourcesInv /\ u \in Sources
  BY <1>1 DEF RevocationInv, Sources
<1>3. PICK l \in loading.fetched : l[1] = u /\ crlCache' = [crlCache EXCEPT ![u] = l[2]]
  BY <1>1 DEF Fetched
<1>4. l[2] \in Nat /\ crlCache[u] <= l[2] /\ l[2] <= posted[u] /\ enforced[u] <= l[2]
  BY <1>2, <1>3 DEF FetchInv, Build, Lists
<1>5. /\ loading' \in Build /\ loading'.fetched = loading.fetched /\ loading'.cfg = loading.cfg
      /\ loading'.lists = loading.lists /\ loading'.cached = loading.cached \cup {u} /\ loading'.step = loading.step
  BY <1>1, <1>2 DEF Build
<1>6. crlCache' \in [CRLURLs -> Nat] /\ crlCache'[u] = l[2]
      /\ \A x \in CRLURLs : x # u => crlCache'[x] = crlCache[x]
  BY <1>2, <1>3, <1>4 DEF SourcesInv
<1>7. SourcesInv'
  BY <1>1, <1>2, <1>4, <1>6 DEF SourcesInv
<1>8. FetchInv(loading)'
  <2>1. ASSUME NEW m \in loading.fetched
        PROVE  /\ m[1] \in CRLURLs => crlCache'[m[1]] <= m[2]
               /\ m[1] \in loading.cached \cup {u} => crlCache'[m[1]] = m[2]
    <3>1. CASE m[1] = u
      <4>1. m = l
        BY <1>2, <1>3, <3>1 DEF FetchInv, OnePerSource
      <4> QED BY <1>4, <1>6, <3>1, <4>1
    <3>2. CASE m[1] # u
      BY <1>2, <1>6, <3>2 DEF FetchInv, Build
    <3> QED BY <3>1, <3>2
  <2> QED BY <1>1, <1>2, <1>3, <1>5, <2>1 DEF FetchInv, OnePerSource
<1>9. ListsInv(loading)'
  <2>1. ASSUME NEW m \in loading.lists, m[1] \in CRLURLs PROVE m[2] <= crlCache'[m[1]]
    <3>1. m[2] \in Nat /\ m[2] <= crlCache[m[1]] /\ crlCache[m[1]] \in Nat
      BY <1>2, <2>1 DEF ListsInv, Build, Lists, SourcesInv
    <3> QED BY <1>4, <1>6, <2>1, <3>1
  <2> QED BY <1>1, <1>2, <1>5, <2>1 DEF ListsInv, OnePerSource, Covers, Current
<1> QED BY <1>1, <1>5, <1>7, <1>8, <1>9 DEF RevocationInv, Covers, Current

(* A refresh that ends has every source, and every list it fetched is in   *)
(* the cache; one that fails leaves the lists of the beginning.            *)
LEMMA RefreshStep ==
  ASSUME RevocationInv, RefreshEnds \/ RefreshFails
  PROVE  RevocationInv'
<1>1. /\ loading # Stopped /\ UNCHANGED <<posted, lapsed, crlCache, poolTLS, crlSnapshot, enforced>>
      /\ \/ loading' = Stopped
         \/ loading' = [loading EXCEPT !.step = "built"]
         \/ /\ loading' = [loading EXCEPT !.step = "built", !.lists = loading.fetched]
            /\ loading.step = "refresh" /\ loading.cfg.urls = loading.cached
  BY DEF RefreshEnds, RefreshFails, AllCached
<1>2. loading \in Build /\ FetchInv(loading) /\ ListsInv(loading) /\ SourcesInv
  BY <1>1 DEF RevocationInv
<1>3. UNCHANGED <<posted, lapsed, crlCache, poolTLS, crlSnapshot, enforced>> /\ SourcesInv'
      /\ (crlSnapshot' # Stopped => crlSnapshot' \in [cfg : PoolTLS, lists : Lists]
                                    /\ Covers(crlSnapshot.cfg, crlSnapshot.lists)')
  BY <1>1 DEF RevocationInv, SourcesInv, Covers, Current
<1>4. CASE loading' = Stopped
  BY <1>3, <1>4 DEF RevocationInv
<1>5. CASE loading' = [loading EXCEPT !.step = "built"]
  <2>1. /\ loading' \in Build /\ loading'.fetched = loading.fetched /\ loading'.cfg = loading.cfg
        /\ loading'.lists = loading.lists /\ loading'.cached = loading.cached /\ loading'.step = "built"
    BY <1>2, <1>5 DEF Build
  <2>2. FetchInv(loading)' /\ ListsInv(loading)'
    BY <1>2, <1>3, <2>1 DEF FetchInv, ListsInv, OnePerSource, Covers, Current
  <2> QED BY <1>3, <2>1, <2>2 DEF RevocationInv
<1>6. CASE /\ loading' = [loading EXCEPT !.step = "built", !.lists = loading.fetched]
           /\ loading.step = "refresh" /\ loading.cfg.urls = loading.cached
  <2>1. /\ loading' \in Build /\ loading'.fetched = loading.fetched /\ loading'.cfg = loading.cfg
        /\ loading'.lists = loading.fetched /\ loading'.cached = loading.cached /\ loading'.step = "built"
    BY <1>2, <1>6 DEF Build
  <2>2. Covers(loading.cfg, loading.fetched)
    <3> SUFFICES ASSUME NEW x \in CRLSources(loading.cfg)
                 PROVE  \E l \in loading.fetched : l[1] = x /\ l[2] >= enforced[x]
      BY DEF Covers
    <3>1. \E l \in loading.fetched : l[1] = x
      <4>1. CASE x \in loading.cfg.urls
        BY <1>2, <1>6, <4>1 DEF FetchInv
      <4>2. CASE loading.cfg.file /\ x = CRLFile
        BY <1>2, <1>6, <4>2 DEF FetchInv
      <4> QED BY <4>1, <4>2 DEF CRLSources
    <3>2. PICK l \in loading.fetched : l[1] = x
      BY <3>1
    <3>3. l[2] \in Nat /\ x \in Sources /\ enforced[x] \in Nat
      BY <1>2, <3>2 DEF Build, Lists, SourcesInv
    <3> QED BY <1>2, <3>2, <3>3 DEF FetchInv
  <2>3. ASSUME NEW l \in loading.fetched, l[1] \in CRLURLs PROVE l[2] <= crlCache[l[1]]
    <3>1. l[1] \in loading.cached
      BY <1>2, <1>6, <2>3, RevocationAssumption DEF FetchInv, CRLSources
    <3>2. l[2] \in Nat
      BY <1>2 DEF Build, Lists
    <3> QED BY <1>2, <3>1, <3>2 DEF FetchInv
  <2>4. FetchInv(loading)'
    BY <1>2, <1>3, <2>1 DEF FetchInv, OnePerSource
  <2>5. ListsInv(loading)'
    BY <1>2, <1>3, <2>1, <2>2, <2>3 DEF FetchInv, ListsInv, OnePerSource, Covers, Current
  <2> QED BY <1>3, <2>1, <2>4, <2>5 DEF RevocationInv
<1> QED BY <1>1, <1>4, <1>5, <1>6

-----------------------------------------------------------------------------
(* A build goes live: what is newest now is one of its lists, or was live  *)
(* before and is covered by them.                                          *)
LEMMA LiveStep ==
  ASSUME RevocationInv, GoesLive
  PROVE  RevocationInv'
<1> DEFINE Candidates(x) == {enforced[x]} \cup NewestOf(loading.lists, x)
           Newest(x) == CHOOSE n \in Candidates(x) : \A m \in Candidates(x) : n >= m
<1>1. /\ loading # Stopped /\ loading' = Stopped /\ UNCHANGED <<posted, lapsed, crlCache>>
      /\ crlSnapshot' = [cfg |-> loading.cfg, lists |-> loading.lists] /\ poolTLS' = loading.cfg
      /\ enforced' = [x \in Sources |-> Newest(x)]
  BY DEF GoesLive
<1>2. loading \in Build /\ ListsInv(loading) /\ SourcesInv /\ loading.cfg \in PoolTLS
  BY <1>1 DEF RevocationInv, Build
<1>3. ASSUME NEW x \in Sources
      PROVE  /\ Newest(x) \in Nat /\ Newest(x) >= enforced[x] /\ Newest(x) <= posted[x]
             /\ x \in CRLURLs => Newest(x) <= crlCache[x]
             /\ Newest(x) = enforced[x] \/ \E l \in loading.lists : l[1] = x /\ l[2] = Newest(x)
  <2>1. \A n \in NewestOf(loading.lists, x) : \E l \in loading.lists : l[1] = x /\ l[2] = n
    BY DEF NewestOf
  <2>2. \A n \in Candidates(x) : n \in Nat /\ n <= posted[x] /\ (x \in CRLURLs => n <= crlCache[x])
    BY <1>2, <1>3, <2>1 DEF ListsInv, Build, Lists, SourcesInv
  <2>3. \A m, n \in NewestOf(loading.lists, x) : m = n
    BY <1>2, <2>1 DEF ListsInv, OnePerSource
  <2>4. \E n \in Candidates(x) : \A m \in Candidates(x) : n >= m
    <3>1. CASE \A m \in NewestOf(loading.lists, x) : enforced[x] >= m
      <4>1. \A m \in Candidates(x) : enforced[x] >= m
        BY <1>2, <1>3, <3>1 DEF SourcesInv
      <4> QED BY <4>1
    <3>2. ASSUME NEW n \in NewestOf(loading.lists, x), ~(enforced[x] >= n)
          PROVE  \E k \in Candidates(x) : \A m \in Candidates(x) : k >= m
      <4>1. n \in Candidates(x) /\ n \in Nat /\ enforced[x] \in Nat
        BY <2>2
      <4>2. n >= enforced[x] /\ \A m \in NewestOf(loading.lists, x) : m = n
        BY <2>3, <3>2, <4>1
      <4>3. ASSUME NEW m \in Candidates(x) PROVE n >= m
        <5>1. m = enforced[x] \/ m = n
          BY <4>2
        <5> HIDE DEF Candidates
        <5> QED BY <4>1, <4>2, <5>1
      <4> QED BY <4>1, <4>3
    <3> QED BY <3>1, <3>2
  <2>5. Newest(x) \in Candidates(x) /\ \A m \in Candidates(x) : Newest(x) >= m
    BY <2>4
  <2> HIDE DEF Newest
  <2> QED BY <2>1, <2>2, <2>5
<1> HIDE DEF Newest
<1>4. SourcesInv'
  <2>1. enforced' \in [Sources -> Nat] /\ \A x \in Sources : enforced'[x] = Newest(x)
    BY <1>1, <1>3
  <2>2. CRLURLs \subseteq Sources
    BY DEF Sources
  <2> QED BY <1>1, <1>2, <1>3, <2>1, <2>2 DEF SourcesInv
<1>5. ASSUME NEW x \in CRLSources(loading.cfg), Newest(x) > lapsed
      PROVE  \E l \in loading.lists : l[1] = x /\ l[2] >= Newest(x)
  <2>1. x \in Sources
    BY <1>2, SettingSources
  <2>2. CASE Newest(x) = enforced[x]
    BY <1>2, <1>5, <2>2 DEF ListsInv, Covers, Current
  <2>3. CASE \E l \in loading.lists : l[1] = x /\ l[2] = Newest(x)
    BY <1>3, <2>1, <2>3
  <2> QED BY <1>3, <2>1, <2>2, <2>3
<1>6. Covers(crlSnapshot.cfg, crlSnapshot.lists)'
  <2>1. \A x \in CRLSources(loading.cfg) : enforced'[x] = Newest(x)
    BY <1>1, <1>2, SettingSources
  <2>2. crlSnapshot'.cfg = loading.cfg /\ crlSnapshot'.lists = loading.lists /\ lapsed' = lapsed
    BY <1>1
  <2>3. CRLSources(crlSnapshot.cfg)' = CRLSources(loading.cfg)
    BY <2>2 DEF CRLSources
  <2> QED BY <1>5, <2>1, <2>2, <2>3 DEF Covers, Current
<1>7. crlSnapshot' \in [cfg : PoolTLS, lists : Lists]
  BY <1>1, <1>2 DEF Build
<1> QED BY <1>1, <1>4, <1>6, <1>7 DEF RevocationInv

(* Crashes, dropped builds, new lists and the time.                        *)
LEMMA OutsideSteps ==
  ASSUME RevocationInv,
         BuildDropped \/ CrashLosesLists \/ (\E x \in Sources : Issue(x)) \/ ListLapses \/ UNCHANGED crlVars
  PROVE  RevocationInv'
<1>1. CASE BuildDropped \/ CrashLosesLists
  BY <1>1 DEF BuildDropped, CrashLosesLists, RevocationInv, SourcesInv, Covers, Current
<1>2. ASSUME NEW x \in Sources, Issue(x) PROVE RevocationInv'
  <2>1. /\ posted' = [posted EXCEPT ![x] = @ + 1]
        /\ UNCHANGED <<lapsed, crlCache, poolTLS, crlSnapshot, loading, enforced>>
    BY <1>2 DEF Issue
  <2>2. SourcesInv
    BY DEF RevocationInv
  <2>3. posted' \in [Sources -> Nat] /\ \A y \in Sources : posted[y] <= posted'[y]
    BY <2>1, <2>2 DEF SourcesInv
  <2>4. SourcesInv'
    <3>1. CRLURLs \subseteq Sources
      BY DEF Sources
    <3> QED BY <2>1, <2>2, <2>3, <3>1 DEF SourcesInv
  <2>5. ASSUME loading # Stopped PROVE loading \in Build /\ FetchInv(loading)' /\ ListsInv(loading)'
    <3>1. loading \in Build /\ FetchInv(loading) /\ ListsInv(loading)
      BY <2>5 DEF RevocationInv
    <3>2. \A l \in loading.fetched \cup loading.lists : l[1] \in Sources /\ l[2] \in Nat /\ posted[l[1]] \in Nat /\ posted'[l[1]] \in Nat
      BY <2>2, <2>3, <3>1 DEF Build, Lists, SourcesInv
    <3>3. \A l \in loading.fetched \cup loading.lists : l[2] <= posted[l[1]] => l[2] <= posted'[l[1]]
      BY <2>3, <3>2
    <3>4. FetchInv(loading)'
      BY <2>1, <3>1, <3>3 DEF FetchInv, OnePerSource
    <3>5. ListsInv(loading)'
      BY <2>1, <3>1, <3>3 DEF ListsInv, OnePerSource, Covers, Current
    <3> QED BY <3>1, <3>4, <3>5
  <2> QED BY <2>1, <2>4, <2>5 DEF RevocationInv, Covers, Current
<1>3. CASE ListLapses
  <2>1. lapsed' = lapsed + 1 /\ UNCHANGED <<posted, crlCache, poolTLS, crlSnapshot, loading, enforced>>
    BY <1>3 DEF ListLapses
  <2>2. SourcesInv /\ SourcesInv' /\ lapsed \in Nat /\ lapsed' \in Nat /\ lapsed <= lapsed'
    BY <2>1 DEF RevocationInv, SourcesInv
  <2>3. ASSUME NEW c \in PoolTLS, NEW lists, Covers(c, lists) PROVE Covers(c, lists)'
    BY <2>1, <2>2, <2>3, SettingSources, CoversStays DEF SourcesInv
  <2>4. ASSUME loading # Stopped PROVE loading \in Build /\ FetchInv(loading)' /\ ListsInv(loading)'
    <3>1. loading \in Build /\ FetchInv(loading) /\ ListsInv(loading) /\ loading.cfg \in PoolTLS
      BY <2>4 DEF RevocationInv, Build
    <3>2. Covers(loading.cfg, loading.lists)'
      <4>1. Covers(loading.cfg, loading.lists)
        BY <3>1 DEF ListsInv
      <4> QED BY <2>1, <2>2, <3>1, <4>1, SettingSources, CoversStays DEF SourcesInv
    <3>3. FetchInv(loading)'
      BY <2>1, <3>1 DEF FetchInv, OnePerSource
    <3>4. ListsInv(loading)'
      BY <2>1, <3>1, <3>2 DEF ListsInv, OnePerSource
    <3> QED BY <3>1, <3>3, <3>4
  <2>5. ASSUME crlSnapshot # Stopped PROVE Covers(crlSnapshot.cfg, crlSnapshot.lists)'
    <3>1. Covers(crlSnapshot.cfg, crlSnapshot.lists) /\ crlSnapshot.cfg \in PoolTLS
      BY <2>5 DEF RevocationInv
    <3> QED BY <2>1, <2>2, <3>1, SettingSources, CoversStays DEF SourcesInv
  <2> QED BY <2>1, <2>2, <2>4, <2>5 DEF RevocationInv
<1>4. CASE UNCHANGED crlVars
  BY <1>4 DEF crlVars, RevocationInv, SourcesInv, FetchInv, ListsInv, OnePerSource, Covers, Current
<1> QED BY <1>1, <1>2, <1>3, <1>4

(* The invariant holds always.                                             *)
LEMMA RevocationInvariant == RevocationSpec => []RevocationInv
<1>1. RevocationInit => RevocationInv
  BY RevocationStart
<1>2. RevocationInv /\ [RevocationNext]_crlVars => RevocationInv'
  BY BeginStep, FetchStep, CacheStep, RefreshStep, LiveStep, OutsideSteps DEF RevocationNext
<1> QED BY <1>1, <1>2, PTL DEF RevocationSpec

(* What has been revoked stays revoked: a certificate that is accepted is  *)
(* on no current list of a configured source that any runtime used before, *)
(* for any sources and settings, through applies, failed refreshes and     *)
(* restarts.                                                               *)
THEOREM RevokedStaysRevoked == RevocationSpec => []RevocationStands
<1>1. RevocationInv => RevocationStands
  <2> SUFFICES ASSUME RevocationInv, crlSnapshot # Stopped, NEW c \in 1..MaxList, Verified(c)
               PROVE  /\ \A s \in CRLSources(crlSnapshot.cfg) : Current(enforced[s]) => c > enforced[s]
                      /\ crlSnapshot.cfg.mode = "hard" => \E l \in crlSnapshot.lists : Current(l[2])
    BY DEF RevocationStands, CRLSources
  <2>1. /\ crlSnapshot \in [cfg : PoolTLS, lists : Lists] /\ Covers(crlSnapshot.cfg, crlSnapshot.lists)
        /\ enforced \in [Sources -> Nat] /\ c \in Nat
    BY RevocationAssumption DEF RevocationInv, SourcesInv
  <2>2. ASSUME NEW s \in CRLSources(crlSnapshot.cfg), Current(enforced[s]) PROVE c > enforced[s]
    <3>1. PICK l \in crlSnapshot.lists : l[1] = s /\ l[2] >= enforced[s]
      BY <2>1, <2>2 DEF Covers
    <3>2. c > l[2]
      BY <2>2 DEF Verified, CRLSources
    <3>3. l[2] \in Nat /\ enforced[s] \in Nat
      BY <2>1, <3>1, SettingSources DEF Lists
    <3> QED BY <2>1, <3>1, <3>2, <3>3
  <2>3. crlSnapshot.cfg.mode = "hard" => \E l \in crlSnapshot.lists : Current(l[2])
    BY DEF Verified
  <2> QED BY <2>2, <2>3
<1> QED BY <1>1, RevocationInvariant, PTL

(***************************************************************************)
(* Administrators: for any accounts, hosts, roles, concurrent logins and   *)
(* changes, and any limit of failures.                                     *)
(***************************************************************************)

(* What a change of an account may be; a new password keeps the rest.      *)
LEMMA ChangedFacts ==
  ASSUME NEW acc \in AccountRec \cup {Nil}, NEW new \in Changed(acc)
  PROVE  /\ new \in AccountRec \cup {Nil}
         /\ acc # Nil /\ new # Nil /\ new.pw # acc.pw =>
              new.role = acc.role /\ new.enabled = acc.enabled
<1>0. \A r \in AccountRec : r = [role |-> r.role, enabled |-> r.enabled, pw |-> r.pw]
                            /\ r.role \in Roles /\ r.enabled \in BOOLEAN /\ r.pw \in {1, 2}
  BY DEF AccountRec
<1>1. CASE acc = Nil
  <2>1. PICK r \in Roles : new = [role |-> r, enabled |-> TRUE, pw |-> 1]
    BY <1>1 DEF Changed
  <2>2. [role |-> r, enabled |-> TRUE, pw |-> 1] \in AccountRec
    BY DEF AccountRec
  <2> QED BY <1>1, <2>1, <2>2
<1>2. CASE acc # Nil
  <2>1. acc \in AccountRec /\ acc.pw \in {1, 2}
    BY <1>0, <1>2
  <2>2. ASSUME NEW r \in Roles, NEW e \in BOOLEAN, new = [role |-> r, enabled |-> e, pw |-> acc.pw]
        PROVE  new \in AccountRec /\ new.pw = acc.pw
    BY <2>1, <2>2 DEF AccountRec
  <2>3. ASSUME new = [acc EXCEPT !.pw = 3 - @]
        PROVE  new \in AccountRec /\ new.role = acc.role /\ new.enabled = acc.enabled
    <3>1. 3 - acc.pw \in {1, 2}
      BY <2>1
    <3> QED BY <2>1, <2>3, <3>1 DEF AccountRec
  <2>4. \/ \E r \in Roles, e \in BOOLEAN : new = [role |-> r, enabled |-> e, pw |-> acc.pw]
        \/ new = [acc EXCEPT !.pw = 3 - @]
        \/ new = Nil
    BY <1>2 DEF Changed
  <2>5. CASE \E r \in Roles, e \in BOOLEAN : new = [role |-> r, enabled |-> e, pw |-> acc.pw]
    BY <2>2, <2>5
  <2>6. CASE new = [acc EXCEPT !.pw = 3 - @]
    BY <2>3, <2>6
  <2>7. CASE new = Nil
    BY <2>7
  <2> QED BY <2>4, <2>5, <2>6, <2>7
<1> QED BY <1>1, <1>2

(* The changes and logins under way.                                       *)
LEMMA UnderwayFacts ==
  ASSUME SessionsTypeOK
  PROVE  /\ \A a \in Admins : underway[a] # Nil =>
              /\ underway[a] \in ChangeRec /\ underway[a].user \in Accounts
              /\ underway[a].before \in AccountRec \cup {Nil}
              /\ underway[a].at \in {"live", "revoke"}
         /\ \A l \in Logins : logins[l] # Nil =>
              /\ logins[l] \in LoginRec /\ logins[l].user \in Accounts /\ logins[l].host \in Hosts
              /\ logins[l].at = "good" => logins[l].role \in Roles
         /\ \A u \in Accounts : accounts[u] \in AccountRec \cup {Nil}
         /\ \A s \in sessions : /\ s.user \in Accounts /\ s.role \in Roles
                                /\ s.left \in BOOLEAN
<1>1. \A a \in Admins : underway[a] # Nil => underway[a] \in ChangeRec
  BY DEF SessionsTypeOK
<1>2. \A l \in Logins : logins[l] # Nil => logins[l] \in LoginRec
  BY DEF SessionsTypeOK
<1>3. \A r \in LoginRec : /\ r.user \in Accounts /\ r.host \in Hosts
                          /\ r.at = "good" => r.role \in Roles
  BY DEF LoginRec
<1>4. \A r \in ChangeRec : /\ r.user \in Accounts /\ r.before \in AccountRec \cup {Nil}
                           /\ r.at \in {"live", "revoke"}
  BY DEF ChangeRec
<1>5. \A u \in Accounts : accounts[u] \in AccountRec \cup {Nil}
  BY DEF SessionsTypeOK, AccountLists
<1> QED BY <1>1, <1>2, <1>3, <1>4, <1>5 DEF SessionsTypeOK

-----------------------------------------------------------------------------
(* The limiter of failed logins.                                           *)

Counters == [count : Nat, over : BOOLEAN, blocked : BOOLEAN]

(* Some entries of the limiter.                                            *)
Entered(e) == DOMAIN e \subseteq Accounts \cup Hosts /\ e \in [DOMAIN e -> Counters]

(* An entry that a number of logins may still make worse.                  *)
Within(v, n) == /\ v.blocked \/ v.count < LoginLimit
                /\ v.count + n < MaxCount

(* The bounds.                                                             *)
LEMMA LimitFacts == /\ LoginLimit \in Nat \ {0} /\ IsFiniteSet(Logins)
                    /\ Cardinality(Logins) \in Nat /\ MaxCount = LoginLimit + Cardinality(Logins)
  BY SessionsAssumption, FS_CardinalityType DEF MaxCount

(* A login that fails takes the place of one that might.                   *)
LEMMA CountFacts ==
  ASSUME NEW v \in Counters, NEW n \in Nat, n < Cardinality(Logins),
         Within(v, n + 1) \/ v = NoFailures
  PROVE  Count(v) \in Counters /\ Within(Count(v), n)
<1> DEFINE c == IF v.over THEN 1 ELSE IF v.count < MaxCount THEN v.count + 1 ELSE MaxCount
           b == c >= LoginLimit \/ (v.blocked /\ ~v.over)
<1>1. Count(v) = [count |-> c, over |-> FALSE, blocked |-> b]
  BY DEF Count
<1>2. v.count \in Nat /\ v.over \in BOOLEAN /\ v.blocked \in BOOLEAN
  BY DEF Counters
<1>3. c \in Nat /\ (b \in BOOLEAN)
  BY <1>2, LimitFacts
<1>4. c = 1 \/ c = v.count + 1 \/ v.count >= MaxCount
  BY <1>2, LimitFacts
<1>5. c + n < MaxCount
  <2>1. CASE v = NoFailures
    <3>1. v.over = FALSE /\ v.count = 0
      BY <2>1 DEF NoFailures
    <3> QED BY <3>1, <1>4, LimitFacts
  <2>2. CASE Within(v, n + 1)
    <3>1. v.count + (n + 1) < MaxCount
      BY <2>2 DEF Within
    <3> QED BY <1>2, <1>4, <3>1, LimitFacts
  <2> QED BY <2>1, <2>2
<1>6. b \/ c < LoginLimit
  BY <1>3, LimitFacts
<1> HIDE DEF c, b
<1>7. Count(v) \in Counters /\ Count(v).count = c /\ Count(v).blocked = b
  BY <1>1, <1>3 DEF Counters
<1> QED BY <1>5, <1>6, <1>7 DEF Within

(* A counter counts.                                                       *)
LEMMA CountType ==
  ASSUME NEW v \in Counters
  PROVE  Count(v) \in Counters
<1> DEFINE c == IF v.over THEN 1 ELSE IF v.count < MaxCount THEN v.count + 1 ELSE MaxCount
           b == c >= LoginLimit \/ (v.blocked /\ ~v.over)
<1>1. Count(v) = [count |-> c, over |-> FALSE, blocked |-> b]
  BY DEF Count
<1>2. v.count \in Nat /\ v.blocked \in BOOLEAN
  BY DEF Counters
<1>3. c \in Nat /\ (b \in BOOLEAN)
  BY <1>2, LimitFacts
<1> HIDE DEF c, b
<1> QED BY <1>1, <1>3 DEF Counters

(* Entries after one key of a failed login has counted.                    *)
Counted(e, f, k) ==
  /\ Entered(f) /\ DOMAIN e \subseteq DOMAIN f
  /\ \A j \in DOMAIN f :
       IF j = k THEN \E v \in Counters : /\ f[k] = Count(v)
                                         /\ k \in DOMAIN e => v = e[k]
                                         /\ k \notin DOMAIN e => v = NoFailures
       ELSE j \in DOMAIN e /\ f[j] = e[j]

(* One key of a login that fails.                                          *)
LEMMA RecordFacts ==
  ASSUME NEW e, Entered(e), NEW o, NEW t, t = [entries |-> e, overflow |-> o],
         NEW k \in Accounts \cup Hosts
  PROVE  /\ \E o2 : Record(t, k) = [entries |-> Record(t, k).entries, overflow |-> o2]
         /\ Counted(e, Record(t, k).entries, k)
<1>1. t.entries = e /\ t.overflow = o
  OBVIOUS
<1>2. CASE HasEntry(t, k)
  <2> DEFINE v == IF k \in DOMAIN e THEN e[k] ELSE NoFailures
             f == [j \in DOMAIN e \cup {k} |-> IF j = k THEN Count(v) ELSE e[j]]
  <2>1. State(t, k) = v
    BY <1>1, <1>2 DEF State
  <2>2. Record(t, k) = [entries |-> f, overflow |-> o]
    <3>1. Record(t, k) = [t EXCEPT !.entries = f]
      BY <1>1, <1>2, <2>1 DEF Record
    <3> HIDE DEF f, v
    <3> QED BY <3>1
  <2>3. /\ DOMAIN f = DOMAIN e \cup {k} /\ f[k] = Count(v)
        /\ \A j \in DOMAIN e : j # k => f[j] = e[j]
    OBVIOUS
  <2>4. v \in Counters
    BY DEF Entered, NoFailures, Counters
  <2>5. Record(t, k).entries = f
    BY <2>2
  <2>6. (k \in DOMAIN e => v = e[k]) /\ (k \notin DOMAIN e => v = NoFailures)
    OBVIOUS
  <2>7. f = [j \in DOMAIN f |-> f[j]]
    OBVIOUS
  <2> HIDE DEF v, f
  <2>8. Entered(f)
    <3>1. \A j \in DOMAIN f : f[j] \in Counters
      BY <2>3, <2>4, CountType DEF Entered
    <3> QED BY <2>3, <2>7, <3>1 DEF Entered
  <2> QED BY <2>2, <2>3, <2>4, <2>5, <2>6, <2>8 DEF Counted
<1>3. CASE ~HasEntry(t, k)
  <2>1. Record(t, k) = [entries |-> e, overflow |-> Count(o)]
    <3>1. Record(t, k) = [t EXCEPT !.overflow = Count(@)]
      BY <1>3 DEF Record
    <3> QED BY <3>1
  <2>2. Record(t, k).entries = e
    BY <2>1
  <2>3. k \notin DOMAIN e
    BY <1>1, <1>3 DEF HasEntry
  <2> QED BY <2>1, <2>2, <2>3 DEF Counted
<1> QED BY <1>2, <1>3

(* The entries a login has made worse.                                     *)
LEMMA GuessFacts ==
  ASSUME SessionsTypeOK, NEW k
  PROVE  /\ Guessing(k) \subseteq Logins /\ IsFiniteSet(Guessing(k))
         /\ Cardinality(Guessing(k)) \in Nat /\ Cardinality(Guessing(k)) <= Cardinality(Logins)
<1>1. Guessing(k) \subseteq Logins
  BY DEF Guessing
<1> QED BY <1>1, LimitFacts, FS_Subset, FS_CardinalityType

(* Fewer logins that may fail: the entries stay in bounds.                 *)
LEMMA FewerGuesses ==
  ASSUME SessionsTypeOK, SessionsTypeOK', GuessesInv,
         \A k : Guessing(k)' \subseteq Guessing(k),
         \A k \in DOMAIN entries' : /\ k \in DOMAIN entries /\ entries'[k].count = entries[k].count
                                    /\ entries[k].blocked => entries'[k].blocked
  PROVE  GuessesInv'
<1> SUFFICES ASSUME NEW k \in DOMAIN entries'
             PROVE  /\ entries'[k].blocked \/ entries'[k].count < LoginLimit
                    /\ entries'[k].count + Cardinality(Guessing(k)') < MaxCount
  BY DEF GuessesInv, MaxCount
<1>1. /\ k \in DOMAIN entries /\ entries'[k].count = entries[k].count
      /\ entries[k].blocked => entries'[k].blocked
  OBVIOUS
<1>2. /\ Cardinality(Guessing(k)') <= Cardinality(Guessing(k))
      /\ Cardinality(Guessing(k)) \in Nat /\ Cardinality(Guessing(k)') \in Nat
  <2>1. IsFiniteSet(Guessing(k)) /\ Guessing(k)' \subseteq Guessing(k)
    BY GuessFacts
  <2> QED BY <2>1, FS_Subset, FS_CardinalityType
<1>3. /\ entries[k].blocked \/ entries[k].count < LoginLimit
      /\ entries[k].count + Cardinality(Guessing(k)) < MaxCount
  BY <1>1 DEF GuessesInv
<1>4. entries[k].count \in Nat
  BY <1>1 DEF SessionsTypeOK
<1> QED BY <1>1, <1>2, <1>3, <1>4, LimitFacts

(* A login begins: neither of its keys is blocked.                         *)
LEMMA StartKeeps ==
  ASSUME SessionsTypeOK, SessionsTypeOK', GuessesInv, NEW l \in Logins, NEW u \in Accounts,
         NEW h \in Hosts, NEW pw \in {1, 2}, StartLogin(l, u, h, pw)
  PROVE  GuessesInv'
<1>1. /\ logins[l] = Nil /\ Allow(LoginKeys(u, h)) /\ entries' = entries
      /\ logins' = [logins EXCEPT ![l] = [at |-> "begun", user |-> u, host |-> h, pw |-> pw]]
  BY DEF StartLogin, limiterVars
<1> SUFFICES ASSUME NEW k \in DOMAIN entries
             PROVE  /\ entries[k].blocked \/ entries[k].count < LoginLimit
                    /\ entries[k].count + Cardinality(Guessing(k)') < MaxCount
  BY <1>1 DEF GuessesInv, MaxCount
<1>2. /\ entries[k].blocked \/ entries[k].count < LoginLimit
      /\ entries[k].count + Cardinality(Guessing(k)) < MaxCount
      /\ entries[k].count \in Nat
  BY DEF GuessesInv, SessionsTypeOK
<1>3. /\ Cardinality(Guessing(k)) \in Nat /\ Cardinality(Guessing(k)') \in Nat
      /\ Cardinality(Guessing(k)') <= Cardinality(Logins)
  <2>1. Guessing(k)' \subseteq Logins
    BY DEF Guessing
  <2> QED BY <2>1, GuessFacts, LimitFacts, FS_Subset, FS_CardinalityType
<1>4. CASE k \in {u, h}
  <2>1. ~State(Limiter, k).blocked
    <3>1. LoginKeys(u, h) = <<h, u>> /\ DOMAIN <<h, u>> = {1, 2}
      BY DEF LoginKeys
    <3>2. ~State(Limiter, <<h, u>>[1]).blocked /\ ~State(Limiter, <<h, u>>[2]).blocked
      BY <1>1, <3>1 DEF Allow
    <3> QED BY <1>4, <3>2
  <2>2. State(Limiter, k) = entries[k]
    BY DEF State, Limiter
  <2> QED BY <1>2, <1>3, <2>1, <2>2, LimitFacts
<1>5. CASE k \notin {u, h}
  <2>1. Guessing(k)' \subseteq Guessing(k)
    <3> SUFFICES ASSUME NEW m \in Guessing(k)' PROVE m \in Guessing(k)
      OBVIOUS
    <3>1. m \in Logins /\ logins'[m] # Nil /\ logins'[m].at \in {"begun", "bad"}
          /\ k \in {logins'[m].user, logins'[m].host}
      BY DEF Guessing
    <3>2. m # l
      BY <1>1, <1>5, <3>1 DEF SessionsTypeOK
    <3>3. logins'[m] = logins[m]
      BY <1>1, <3>1, <3>2 DEF SessionsTypeOK
    <3> QED BY <3>1, <3>3 DEF Guessing
  <2>2. Cardinality(Guessing(k)') <= Cardinality(Guessing(k))
    BY <2>1, GuessFacts, FS_Subset
  <2> QED BY <1>2, <1>3, <2>2, LimitFacts
<1> QED BY <1>4, <1>5

(* A login fails: it counts once on each of its keys, and is gone.         *)
LEMMA RejectKeeps ==
  ASSUME SessionsTypeOK, GuessesInv, NEW l \in Logins, RejectLogin(l)
  PROVE  /\ GuessesInv' /\ Entered(entries')
<1> DEFINE u == logins[l].user  h == logins[l].host
           t1 == Record(Limiter, h)
           t2 == Record(t1, u)
<1>1. logins[l] # Nil /\ logins[l].at = "bad" /\ logins' = [logins EXCEPT ![l] = Nil]
  BY DEF RejectLogin
<1>2. u \in Accounts /\ h \in Hosts /\ u # h
  BY <1>1, UnderwayFacts, SessionsAssumption
<1>3. entries' = t2.entries
  BY DEF RejectLogin, Failure, LoginKeys
<1>4. Entered(entries)
  BY DEF SessionsTypeOK, Entered, Counters
<1>5. Limiter = [entries |-> entries, overflow |-> overflow]
  BY DEF Limiter
<1> DEFINE e1 == t1.entries
           e2 == t2.entries
<1>6. (\E o : t1 = [entries |-> e1, overflow |-> o]) /\ Counted(entries, e1, h)
  <2>1. h \in Accounts \cup Hosts
    BY <1>2
  <2> HIDE DEF u, h
  <2> QED BY <1>4, <1>5, <2>1, RecordFacts
<1>7. PICK o : t1 = [entries |-> e1, overflow |-> o]
  BY <1>6
<1> HIDE DEF t1
<1>8. Counted(e1, e2, u)
  <2> HIDE DEF e1
  <2>1. u \in Accounts \cup Hosts /\ Entered(e1)
    BY <1>2, <1>6 DEF Counted
  <2> HIDE DEF u
  <2> QED BY <1>7, <2>1, RecordFacts
<1> HIDE DEF e1, t2
(* Each key of the login has counted once.                                 *)
<1>9. ASSUME NEW j \in DOMAIN e2
      PROVE  IF j \in {u, h} THEN \E v \in Counters : /\ e2[j] = Count(v)
                                                      /\ j \in DOMAIN entries => v = entries[j]
                                                      /\ j \notin DOMAIN entries => v = NoFailures
             ELSE j \in DOMAIN entries /\ e2[j] = entries[j]
  <2>1. CASE j = u
    <3>1. u \in DOMAIN e1 => u \in DOMAIN entries /\ e1[u] = entries[u]
      BY <1>2, <1>6 DEF Counted
    <3>2. u \in DOMAIN entries => u \in DOMAIN e1
      BY <1>2, <1>6 DEF Counted
    <3> QED BY <1>8, <2>1, <3>1, <3>2 DEF Counted
  <2>2. CASE j = h
    BY <1>2, <1>6, <1>8, <2>2 DEF Counted
  <2>3. CASE j # u /\ j # h
    BY <1>6, <1>8, <2>3 DEF Counted
  <2> QED BY <2>1, <2>2, <2>3
<1>10. ASSUME NEW j
       PROVE  /\ Guessing(j)' = Guessing(j) \ {l}
              /\ j \in {u, h} => l \in Guessing(j)
  <2>1. \A m \in Logins : logins'[m] = IF m = l THEN Nil ELSE logins[m]
    BY <1>1 DEF SessionsTypeOK
  <2> QED BY <1>1, <2>1 DEF Guessing
<1> HIDE DEF e2, u, h
<1>11. ASSUME NEW j \in DOMAIN e2
       PROVE  Within(e2[j], Cardinality(Guessing(j)'))
  <2>1. /\ IsFiniteSet(Guessing(j)) /\ Cardinality(Guessing(j)) \in Nat
        /\ Cardinality(Guessing(j)) <= Cardinality(Logins)
    BY GuessFacts
  <2>2. CASE j \in {u, h}
    <3>1. PICK v \in Counters : /\ e2[j] = Count(v)
                                /\ j \in DOMAIN entries => v = entries[j]
                                /\ j \notin DOMAIN entries => v = NoFailures
      BY <1>9, <2>2
    <3>2. l \in Guessing(j) /\ Guessing(j)' = Guessing(j) \ {l}
      BY <1>10, <2>2
    <3>3. Cardinality(Guessing(j)') = Cardinality(Guessing(j)) - 1
      BY <2>1, <3>2, FS_RemoveElement
    <3>4. Cardinality(Guessing(j)) # 0
      BY <2>1, <3>2, FS_EmptySet
    <3> DEFINE n == Cardinality(Guessing(j)')
    <3>5. n \in Nat /\ n < Cardinality(Logins) /\ n + 1 = Cardinality(Guessing(j))
      BY <2>1, <3>3, <3>4, LimitFacts
    <3>6. Within(v, n + 1) \/ v = NoFailures
      BY <3>1, <3>5 DEF GuessesInv, Within
    <3> HIDE DEF n
    <3>7. Within(Count(v), n)
      BY <3>5, <3>6, CountFacts
    <3> QED BY <3>1, <3>7 DEF n
  <2>3. CASE j \notin {u, h}
    <3>1. j \in DOMAIN entries /\ e2[j] = entries[j]
      BY <1>9, <2>3
    <3>2. Guessing(j)' \subseteq Guessing(j)
      BY <1>10
    <3>3. /\ Cardinality(Guessing(j)') <= Cardinality(Guessing(j))
          /\ Cardinality(Guessing(j)') \in Nat
      BY <2>1, <3>2, FS_Subset, FS_CardinalityType
    <3>4. Within(entries[j], Cardinality(Guessing(j))) /\ entries[j].count \in Nat
      BY <3>1 DEF GuessesInv, Within, SessionsTypeOK
    <3> QED BY <2>1, <3>1, <3>3, <3>4, LimitFacts DEF Within
  <2> QED BY <2>2, <2>3
<1>12. e2 = entries'
  BY <1>3 DEF e2
<1>13. GuessesInv'
  <2>1. \A j \in DOMAIN e2 : /\ e2[j].blocked \/ e2[j].count < LoginLimit
                             /\ e2[j].count + Cardinality(Guessing(j)') < MaxCount
    BY <1>11 DEF Within
  <2> QED BY <1>12, <2>1 DEF GuessesInv, MaxCount
<1> QED BY <1>8, <1>12, <1>13 DEF Counted

-----------------------------------------------------------------------------
(* Accounts and sessions.                                                  *)

(* A login under way.                                                      *)
LEMMA LoginFacts ==
  ASSUME SessionsTypeOK, NEW l \in Logins, logins[l] # Nil
  PROVE  /\ logins[l].user \in Accounts /\ logins[l].host \in Hosts
         /\ logins[l].at \in {"begun", "bad", "good"}
         /\ logins[l].at = "good" => logins[l].role \in Roles
         /\ logins[l].at = "begun" => [logins[l] EXCEPT !.at = "bad"] \in LoginRec
<1>1. logins[l] \in LoginRec
  BY DEF SessionsTypeOK
<1>2. CASE logins[l] \in [at : {"begun", "bad"}, user : Accounts, host : Hosts, pw : {1, 2}]
  BY <1>2 DEF LoginRec
<1>3. CASE logins[l] \in [at : {"good"}, user : Accounts, host : Hosts, role : Roles]
  BY <1>3 DEF LoginRec
<1> QED BY <1>1, <1>2, <1>3 DEF LoginRec

(* What a check makes of a login.                                          *)
LEMMA CheckFacts ==
  ASSUME SessionsTypeOK, NEW l \in Logins, CheckLogin(l)
  PROVE  /\ logins[l] # Nil /\ logins'[l] \in LoginRec
         /\ logins[l].at = "begun"
         /\ logins'[l].user = logins[l].user /\ logins'[l].host = logins[l].host
         /\ \A m \in Logins : m # l => logins'[m] = logins[m]
         /\ logins' \in [Logins -> LoginRec \cup {Nil}]
<1> DEFINE u == logins[l].user  acc == accounts[u]
           good == acc # Nil /\ acc.enabled /\ acc.pw = logins[l].pw
           rec == [at |-> "good", user |-> u, host |-> logins[l].host, role |-> acc.role]
           bad == [logins[l] EXCEPT !.at = "bad"]
<1>1. /\ logins[l] # Nil /\ logins[l].at = "begun"
      /\ logins' = [logins EXCEPT ![l] = IF ~good THEN bad ELSE rec]
  BY DEF CheckLogin
<1>2. u \in Accounts /\ logins[l].host \in Hosts /\ acc \in AccountRec \cup {Nil}
  BY <1>1, LoginFacts, UnderwayFacts
<1>3. bad \in LoginRec /\ bad.user = u /\ bad.host = logins[l].host
  <2>1. logins[l] \in [at : {"begun", "bad"}, user : Accounts, host : Hosts, pw : {1, 2}]
    BY <1>1 DEF SessionsTypeOK, LoginRec
  <2> QED BY <2>1 DEF LoginRec
<1>4. good => rec \in LoginRec
  <2>1. acc # Nil => acc.role \in Roles
    BY <1>2 DEF AccountRec
  <2> QED BY <1>2, <2>1 DEF LoginRec
<1>5. rec.user = u /\ rec.host = logins[l].host
  OBVIOUS
<1> HIDE DEF good, rec, bad
<1>8. /\ logins'[l] = IF ~good THEN bad ELSE rec
      /\ \A m \in Logins : m # l => logins'[m] = logins[m]
      /\ logins' \in [Logins -> LoginRec \cup {Nil}]
  BY <1>1, <1>3, <1>4 DEF SessionsTypeOK
<1> QED BY <1>1, <1>3, <1>4, <1>5, <1>8

(* A step that changes no account.                                         *)
LEMMA AccountsKept ==
  ASSUME AccountsInv, SessionsAreCurrent, UNCHANGED <<accounts, underway>>,
         \A s \in sessions' : s \in sessions \/ s.left \/ IsOf(accounts[s.user], s.role)
  PROVE  AccountsInv' /\ SessionsAreCurrent'
<1>1. /\ \A a \in Admins : Live(a)' <=> Live(a)
      /\ \A a \in Admins : \A u : Touches(a, u)' <=> Touches(a, u)
  BY DEF Live, Touches
<1>2. SessionsAreCurrent'
  BY DEF SessionsAreCurrent, IsOf
<1>3. \A a, b \in Admins : Live(a)' /\ Live(b)' => a = b
  BY <1>1 DEF AccountsInv
<1>4. ASSUME NEW a \in Admins, NEW u \in Accounts, Live(a)', Touches(a, u)'
      PROVE  ChangeFits(a, u)'
  <2>1. Live(a) /\ Touches(a, u) /\ ChangeFits(a, u)
    BY <1>1, <1>4 DEF AccountsInv
  <2> QED BY <1>1, <2>1 DEF ChangeFits, Changed, IsOf
<1> QED BY <1>2, <1>3, <1>4 DEF AccountsInv

(* Sessions whose users get other accounts.                                *)
LEMMA LeftFacts ==
  ASSUME SessionsTypeOK, NEW users, NEW after
  PROVE  /\ Left(users, after) \subseteq [user : Accounts, role : Roles, left : BOOLEAN]
         /\ \A t \in Left(users, after) : \E s \in sessions :
              /\ t.user = s.user /\ t.role = s.role /\ (s.left => t.left)
              /\ s.user \in users => t.left \/ IsOf(after[s.user], s.role)
<1> SUFFICES ASSUME NEW t \in Left(users, after)
             PROVE  /\ t \in [user : Accounts, role : Roles, left : BOOLEAN]
                    /\ \E s \in sessions :
                         /\ t.user = s.user /\ t.role = s.role /\ (s.left => t.left)
                         /\ s.user \in users => t.left \/ IsOf(after[s.user], s.role)
  OBVIOUS
<1> DEFINE gone(s) == s.left \/ (s.user \in users /\ ~IsOf(after[s.user], s.role))
<1>1. PICK s \in sessions : t = [s EXCEPT !.left = gone(s)]
  BY DEF Left
<1>2. s \in [user : Accounts, role : Roles, left : BOOLEAN]
  BY DEF SessionsTypeOK
<1>3. gone(s) \in BOOLEAN /\ (s.left => gone(s))
      /\ (s.user \in users => gone(s) \/ IsOf(after[s.user], s.role))
  BY <1>2
<1> HIDE DEF gone
<1> QED BY <1>1, <1>2, <1>3

(* An account is changed: its sessions are now those of before.            *)
LEMMA ChangeKeeps ==
  ASSUME SessionsTypeOK, AccountsInv, SessionsAreCurrent, NEW a \in Admins, NEW u \in Accounts,
         NEW new \in Changed(accounts[u]), ChangeUser(a, u, new)
  PROVE  SessionsTypeOK' /\ AccountsInv' /\ SessionsAreCurrent'
<1> DEFINE change == [user |-> u, before |-> accounts[u], at |-> "live"]
<1>1. /\ underway[a] = Nil /\ \A b \in Admins : ~Live(b)
      /\ accounts' = [accounts EXCEPT ![u] = new]
      /\ underway' = [underway EXCEPT ![a] = change]
      /\ UNCHANGED <<reloads, logins, sessions, entries, overflow>>
  BY DEF ChangeUser, AtRest, InTurn, limiterVars
<1>2. accounts[u] \in AccountRec \cup {Nil} /\ new \in AccountRec \cup {Nil}
  BY UnderwayFacts, ChangedFacts
<1>3. change \in ChangeRec /\ change # Nil
  BY <1>2, SessionsAssumption DEF ChangeRec
<1>4. change.user = u /\ change.before = accounts[u] /\ change.at = "live"
  OBVIOUS
<1> HIDE DEF change
<1>5. underway'[a] = change /\ \A b \in Admins : b # a => underway'[b] = underway[b]
  BY <1>1 DEF SessionsTypeOK
<1>6. accounts'[u] = new /\ \A v \in Accounts : v # u => accounts'[v] = accounts[v]
  BY <1>1 DEF SessionsTypeOK, AccountLists
<1>7. SessionsTypeOK'
  BY <1>1, <1>2, <1>3 DEF SessionsTypeOK, AccountLists
<1>8. \A b \in Admins : Live(b)' <=> b = a
  BY <1>1, <1>3, <1>4, <1>5 DEF Live
<1>9. \A b \in Admins : \A v : Touches(b, v) => b # a /\ Touches(b, v)'
  BY <1>1, <1>5 DEF Touches
<1>10. Touches(a, u)'
  BY <1>3, <1>4, <1>5 DEF Touches
<1>11. SessionsAreCurrent'
  <2> SUFFICES ASSUME NEW s \in sessions
               PROVE  \/ IsOf(accounts'[s.user], s.role)
                      \/ s.left \/ \E b \in Admins : Touches(b, s.user)'
    BY <1>1 DEF SessionsAreCurrent, Touches, IsOf
  <2>1. s.user \in Accounts
    BY UnderwayFacts
  <2> QED BY <1>6, <1>9, <1>10, <2>1 DEF SessionsAreCurrent, Touches
<1>12. \A s \in sessions : s.user = u =>
          \/ s.left \/ IsOf(accounts[u], s.role) \/ \E b \in Admins \ {a} : Touches(b, u)'
  BY <1>1, <1>9 DEF SessionsAreCurrent, Touches
<1>13. AccountsInv'
  <2>1. ASSUME NEW b \in Admins, NEW v \in Accounts, Live(b)', Touches(b, v)'
        PROVE  ChangeFits(b, v)'
    <3>1. b = a /\ v = u
      BY <1>4, <1>5, <1>8, <2>1 DEF Touches
    <3> QED BY <1>1, <1>4, <1>5, <1>6, <1>12, <3>1 DEF ChangeFits, Changed, IsOf
  <2>2. \A b, c \in Admins : Live(b)' /\ Live(c)' => b = c
    BY <1>8
  <2> QED BY <2>1, <2>2 DEF AccountsInv
<1> QED BY <1>7, <1>11, <1>13

(* A transaction commits: only a new account or password ends no session,  *)
(* and the sessions of before still fit.                                   *)
LEMMA CommitKeeps ==
  ASSUME SessionsTypeOK, AccountsInv, SessionsAreCurrent, NEW a \in Admins, CommitUsers(a)
  PROVE  SessionsTypeOK' /\ AccountsInv' /\ SessionsAreCurrent'
<1> DEFINE u == underway[a].user
           before == underway[a].before
           after == [underway[a] EXCEPT !.at = "revoke"]
           done == IF Revokes(before, accounts[u]) THEN after ELSE Nil
<1>1. /\ Live(a) /\ underway' = [underway EXCEPT ![a] = done]
      /\ UNCHANGED <<accounts, reloads, logins, sessions, entries, overflow>>
  BY DEF CommitUsers, limiterVars
<1>2. /\ underway[a] # Nil /\ underway[a] \in ChangeRec /\ u \in Accounts
      /\ before \in AccountRec \cup {Nil} /\ ChangeFits(a, u) /\ accounts[u] \in Changed(before)
  <2>1. underway[a] # Nil /\ underway[a] \in ChangeRec /\ u \in Accounts
        /\ before \in AccountRec \cup {Nil}
    BY <1>1, UnderwayFacts DEF Live
  <2>2. ChangeFits(a, u)
    BY <1>1, <2>1 DEF AccountsInv, Touches
  <2> QED BY <2>1, <2>2 DEF ChangeFits
<1>3. after \in ChangeRec /\ after # Nil /\ after.user = u /\ after.at = "revoke"
  <2>1. after \in ChangeRec /\ after.user = u /\ after.at = "revoke"
    BY <1>2 DEF ChangeRec
  <2> QED BY <2>1, SessionsAssumption
<1>4. ~Revokes(before, accounts[u]) /\ before # Nil =>
         accounts[u] # Nil /\ accounts[u].role = before.role /\ accounts[u].enabled = before.enabled
  BY <1>2, ChangedFacts DEF Revokes
<1>14. ~Revokes(before, accounts[u]) => done = Nil
  OBVIOUS
<1>15. Revokes(before, accounts[u]) => done = after
  OBVIOUS
<1> HIDE DEF after, done
<1>5. underway'[a] = done /\ done \in ChangeRec \cup {Nil}
      /\ \A b \in Admins : b # a => underway'[b] = underway[b]
  BY <1>1, <1>3, <1>14, <1>15 DEF SessionsTypeOK
<1>6. SessionsTypeOK'
  BY <1>1, <1>5 DEF SessionsTypeOK
<1>7. \A b \in Admins : ~Live(b)'
  <2>1. ~Live(a)'
    BY <1>3, <1>5, <1>14, <1>15 DEF Live
  <2>2. \A b \in Admins : b # a => ~Live(b)
    BY <1>1 DEF AccountsInv
  <2> QED BY <1>5, <2>1, <2>2 DEF Live
<1>8. \A b \in Admins : \A v : b # a /\ Touches(b, v) => Touches(b, v)'
  BY <1>5 DEF Touches
<1>9. SessionsAreCurrent'
  <2> SUFFICES ASSUME NEW s \in sessions
               PROVE  \/ IsOf(accounts[s.user], s.role)
                      \/ s.left \/ \E b \in Admins : Touches(b, s.user)'
    BY <1>1 DEF SessionsAreCurrent, IsOf, Touches
  <2>1. CASE s.user # u
    <3>1. \/ IsOf(accounts[s.user], s.role)
          \/ s.left \/ \E b \in Admins : Touches(b, s.user)
      BY DEF SessionsAreCurrent, IsOf, Touches
    <3>2. ~Touches(a, s.user)
      BY <2>1 DEF Touches
    <3> QED BY <1>8, <3>1, <3>2
  <2>2. CASE s.user = u /\ Revokes(before, accounts[u])
    <3>1. underway'[a] # Nil /\ underway'[a].user = s.user
      BY <1>3, <1>5, <1>15, <2>2
    <3>2. Touches(a, s.user)'
      BY <3>1 DEF Touches
    <3> QED BY <3>2
  <2>3. CASE s.user = u /\ ~Revokes(before, accounts[u])
    <3>1. \/ s.left \/ IsOf(before, s.role) \/ IsOf(accounts[u], s.role)
          \/ \E b \in Admins \ {a} : Touches(b, u)
      BY <1>2, <2>3 DEF ChangeFits
    <3>2. IsOf(before, s.role) => IsOf(accounts[u], s.role)
      BY <1>4, <2>3 DEF IsOf
    <3> QED BY <1>8, <2>3, <3>1, <3>2
  <2> QED BY <2>1, <2>2, <2>3
<1>11. AccountsInv'
  BY <1>1, <1>7 DEF AccountsInv
<1> QED BY <1>6, <1>9, <1>11

(* A transaction fails: what does not fit what is live now is left.        *)
LEMMA RollBackKeeps ==
  ASSUME SessionsTypeOK, AccountsInv, SessionsAreCurrent, NEW a \in Admins, RollBackUsers(a)
  PROVE  SessionsTypeOK' /\ AccountsInv' /\ SessionsAreCurrent'
<1> DEFINE u == underway[a].user
           before == underway[a].before
           users == {u}
<1>1. PICK acc \in {before, accounts[u]} :
           accounts' = [accounts EXCEPT ![u] = acc] /\ sessions' = Left(users, accounts')
  BY DEF RollBackUsers
<1>2. /\ Live(a) /\ underway' = [underway EXCEPT ![a] = Nil]
      /\ UNCHANGED <<reloads, logins, entries, overflow>>
  BY DEF RollBackUsers, limiterVars
<1>3. underway[a] # Nil /\ u \in Accounts /\ acc \in AccountRec \cup {Nil}
  BY <1>1, <1>2, UnderwayFacts DEF Live
<1>11. sessions' = Left(users, accounts') /\ \A v : v \in users <=> v = u
  BY <1>1
<1> HIDE DEF u, before, users
<1>4. underway'[a] = Nil /\ \A b \in Admins : b # a => underway'[b] = underway[b]
  BY <1>2 DEF SessionsTypeOK
<1>5. accounts' \in AccountLists /\ \A v \in Accounts : v # u => accounts'[v] = accounts[v]
  BY <1>1, <1>3 DEF SessionsTypeOK, AccountLists
<1>6. SessionsTypeOK'
  BY <1>2, <1>4, <1>5, <1>11, LeftFacts DEF SessionsTypeOK
<1>7. \A b \in Admins : ~Live(b)'
  <2>1. \A b \in Admins : b # a => ~Live(b)
    BY <1>2 DEF AccountsInv
  <2> QED BY <1>4, <2>1 DEF Live
<1>8. ASSUME NEW t \in sessions'
      PROVE  \/ IsOf(accounts'[t.user], t.role) \/ t.left \/ \E b \in Admins : Touches(b, t.user)'
  <2>1. PICK s \in sessions : /\ t.user = s.user /\ t.role = s.role /\ (s.left => t.left)
                              /\ s.user \in users => t.left \/ IsOf(accounts'[s.user], s.role)
    BY <1>8, <1>11, LeftFacts
  <2>2. CASE s.user # u
    <3>1. \/ IsOf(accounts[s.user], s.role) \/ s.left \/ \E b \in Admins : Touches(b, s.user)
      BY DEF SessionsAreCurrent, Touches
    <3>2. \A b \in Admins : Touches(b, s.user) => Touches(b, s.user)'
      BY <1>4, <2>2 DEF Touches, u
    <3>3. accounts'[s.user] = accounts[s.user]
      BY <1>5, <2>2, UnderwayFacts
    <3> QED BY <2>1, <3>1, <3>2, <3>3
  <2> QED BY <1>11, <2>1, <2>2
<1>9. SessionsAreCurrent'
  BY <1>8 DEF SessionsAreCurrent, Touches, IsOf
<1>10. AccountsInv'
  BY <1>7 DEF AccountsInv
<1> QED BY <1>6, <1>9, <1>10

(* The sessions of the changed account are revoked.                        *)
LEMMA RevokeKeeps ==
  ASSUME SessionsTypeOK, AccountsInv, SessionsAreCurrent, NEW a \in Admins, Revoke(a)
  PROVE  SessionsTypeOK' /\ AccountsInv' /\ SessionsAreCurrent'
<1> DEFINE u == underway[a].user
<1>1. /\ underway[a] # Nil /\ underway[a].at = "revoke"
      /\ sessions' = {s \in sessions : s.user # u} /\ underway' = [underway EXCEPT ![a] = Nil]
      /\ UNCHANGED <<accounts, reloads, logins, entries, overflow>>
  BY DEF Revoke, limiterVars
<1>2. underway'[a] = Nil /\ \A b \in Admins : b # a => underway'[b] = underway[b]
  BY <1>1 DEF SessionsTypeOK
<1>3. SessionsTypeOK'
  BY <1>1 DEF SessionsTypeOK
<1>4. \A b \in Admins : Live(b)' <=> Live(b)
  BY <1>1, <1>2 DEF Live
<1>5. \A b \in Admins : Live(b) => b # a /\ underway'[b] = underway[b]
  BY <1>1, <1>2 DEF Live
<1>6. \A b \in Admins : \A v : v # u /\ Touches(b, v) => Touches(b, v)'
  BY <1>2 DEF Touches
<1>7. SessionsAreCurrent'
  <2> SUFFICES ASSUME NEW s \in sessions, s.user # u
               PROVE  \/ IsOf(accounts[s.user], s.role)
                      \/ s.left \/ \E b \in Admins : Touches(b, s.user)'
    BY <1>1 DEF SessionsAreCurrent, IsOf, Touches
  <2> QED BY <1>6 DEF SessionsAreCurrent, Touches
<1>8. ASSUME NEW b \in Admins, NEW v \in Accounts, Live(b)', Touches(b, v)'
      PROVE  ChangeFits(b, v)'
  <2>1. Live(b) /\ b # a /\ underway'[b] = underway[b] /\ Touches(b, v)
    BY <1>4, <1>5, <1>8 DEF Touches
  <2>2. ChangeFits(b, v)
    BY <2>1 DEF AccountsInv
  <2>3. v # u => \A c \in Admins : Touches(c, v) => Touches(c, v)'
    BY <1>6
  <2> QED BY <1>1, <2>1, <2>2, <2>3 DEF ChangeFits, Changed, IsOf
<1>9. \A b, c \in Admins : Live(b)' /\ Live(c)' => b = c
  BY <1>4 DEF AccountsInv
<1>10. AccountsInv'
  BY <1>8, <1>9 DEF AccountsInv
<1> QED BY <1>3, <1>7, <1>10

(* A reload reads the accounts, or applies in its turn what it read.       *)
LEMMA ReloadKeeps ==
  ASSUME SessionsTypeOK, AccountsInv, SessionsAreCurrent, NEW a \in Admins, ReadReload(a) \/ Reload(a)
  PROVE  SessionsTypeOK' /\ AccountsInv' /\ SessionsAreCurrent'
<1>1. UNCHANGED <<underway, logins, entries, overflow>>
  BY DEF ReadReload, Reload, limiterVars
<1>2. reloads' \in [Admins -> AccountLists \cup {Nil}]
  BY DEF ReadReload, Reload, SessionsTypeOK
<1>3. CASE UNCHANGED <<accounts, sessions>>
  <2>1. SessionsTypeOK'
    BY <1>1, <1>2, <1>3 DEF SessionsTypeOK
  <2> QED BY <1>1, <1>3, <2>1, AccountsKept
<1>4. CASE /\ Reload(a) /\ accounts' = reloads[a]
           /\ sessions' = Left({u \in Accounts : accounts'[u] # accounts[u]}, accounts')
  <2> DEFINE users == {u \in Accounts : accounts'[u] # accounts[u]}
  <2>1. /\ accounts' \in AccountLists /\ \A b \in Admins : ~Live(b)
        /\ sessions' = Left(users, accounts') /\ \A u \in Accounts : u \in users \/ accounts'[u] = accounts[u]
    BY <1>4 DEF Reload, InTurn, SessionsTypeOK
  <2> HIDE DEF users
  <2>2. SessionsTypeOK'
    BY <1>1, <1>2, <2>1, LeftFacts DEF SessionsTypeOK
  <2>3. \A b \in Admins : ~Live(b)' /\ \A v : Touches(b, v)' <=> Touches(b, v)
    BY <1>1, <2>1 DEF Live, Touches
  <2>4. ASSUME NEW t \in sessions'
        PROVE  \/ IsOf(accounts'[t.user], t.role) \/ t.left \/ \E b \in Admins : Touches(b, t.user)'
    <3>1. PICK s \in sessions : /\ t.user = s.user /\ t.role = s.role /\ (s.left => t.left)
                                /\ s.user \in users => t.left \/ IsOf(accounts'[s.user], s.role)
      BY <2>1, <2>4, LeftFacts
    <3>2. \/ IsOf(accounts[s.user], s.role) \/ s.left \/ \E b \in Admins : Touches(b, s.user)
      BY DEF SessionsAreCurrent, Touches
    <3>3. s.user \in Accounts
      BY UnderwayFacts
    <3> QED BY <2>1, <2>3, <3>1, <3>2, <3>3
  <2>5. SessionsAreCurrent'
    BY <2>4 DEF SessionsAreCurrent, Touches, IsOf
  <2>6. AccountsInv'
    BY <2>3 DEF AccountsInv
  <2> QED BY <2>2, <2>5, <2>6
<1> QED BY <1>3, <1>4 DEF ReadReload, Reload

(* Every step keeps the invariant.                                         *)
LEMMA SessionsStep ==
  ASSUME SessionsIInv, [SessionsNext]_sessionVars
  PROVE  SessionsIInv'
<1>1. SessionsTypeOK /\ AccountsInv /\ SessionsAreCurrent /\ GuessesInv
  BY DEF SessionsIInv
<1>3. \A k : Guessing(k)' = {l \in Logins : /\ logins'[l] # Nil /\ logins'[l].at \in {"begun", "bad"}
                                            /\ k \in {logins'[l].user, logins'[l].host}}
  BY DEF Guessing
<1>4. \A k \in DOMAIN entries : entries[k] \in Counters
  BY <1>1 DEF SessionsTypeOK, Counters
<1>5. ASSUME NEW l \in Logins, NEW u \in Accounts, NEW h \in Hosts, NEW pw \in {1, 2},
             StartLogin(l, u, h, pw)
      PROVE  SessionsIInv'
  <2> DEFINE new == [at |-> "begun", user |-> u, host |-> h, pw |-> pw]
  <2>1. /\ logins' = [logins EXCEPT ![l] = new]
        /\ UNCHANGED <<accounts, underway, reloads, sessions, entries, overflow>>
    BY <1>5 DEF StartLogin, limiterVars, accountVars
  <2>2. new \in LoginRec /\ new.at = "begun"
    BY DEF LoginRec
  <2> HIDE DEF new
  <2>3. logins'[l] = new /\ \A m \in Logins : m # l => logins'[m] = logins[m]
    BY <1>1, <2>1 DEF SessionsTypeOK
  <2>4. SessionsTypeOK'
    BY <1>1, <2>1, <2>2 DEF SessionsTypeOK
  <2>5. AccountsInv' /\ SessionsAreCurrent'
    BY <1>1, <2>1, <2>2, <2>3, AccountsKept
  <2>6. GuessesInv'
    BY <1>1, <1>5, <2>4, StartKeeps
  <2> QED BY <2>4, <2>5, <2>6 DEF SessionsIInv
<1>6. ASSUME NEW l \in Logins, CheckLogin(l)
      PROVE  SessionsIInv'
  <2>1. UNCHANGED <<accounts, underway, reloads, sessions, entries, overflow>>
    BY <1>6 DEF CheckLogin, limiterVars, accountVars
  <2>2. /\ logins[l] # Nil /\ logins'[l] \in LoginRec
        /\ logins[l].at = "begun"
        /\ logins'[l].user = logins[l].user /\ logins'[l].host = logins[l].host
        /\ \A m \in Logins : m # l => logins'[m] = logins[m]
        /\ logins' \in [Logins -> LoginRec \cup {Nil}]
    BY <1>1, <1>6, CheckFacts
  <2>3. SessionsTypeOK'
    BY <1>1, <2>1, <2>2 DEF SessionsTypeOK
  <2>4. AccountsInv' /\ SessionsAreCurrent'
    BY <1>1, <2>1, <2>2, AccountsKept
  <2>5. \A k : Guessing(k)' \subseteq Guessing(k)
    BY <1>3, <2>2 DEF Guessing
  <2>6. GuessesInv'
    BY <1>1, <2>1, <2>3, <2>5, FewerGuesses
  <2> QED BY <2>3, <2>4, <2>6 DEF SessionsIInv
<1>7. ASSUME NEW l \in Logins, RejectLogin(l)
      PROVE  SessionsIInv'
  <2>1. logins' = [logins EXCEPT ![l] = Nil] /\ UNCHANGED <<accounts, underway, reloads, sessions>>
    BY <1>7 DEF RejectLogin, accountVars
  <2>2. \A m \in Logins : logins'[m] = IF m = l THEN Nil ELSE logins[m]
    BY <1>1, <2>1 DEF SessionsTypeOK
  <2>3. GuessesInv' /\ Entered(entries')
    BY <1>1, <1>7, RejectKeeps
  <2>4. SessionsTypeOK'
    BY <1>1, <2>1, <2>3 DEF SessionsTypeOK, Entered, Counters
  <2>5. AccountsInv' /\ SessionsAreCurrent'
    BY <1>1, <2>1, <2>2, AccountsKept
  <2> QED BY <2>3, <2>4, <2>5 DEF SessionsIInv
<1>8. ASSUME NEW l \in Logins, CreateSession(l)
      PROVE  SessionsIInv'
  <2> DEFINE new == [user |-> logins[l].user, role |-> logins[l].role,
                     left |-> ~IsOf(accounts[logins[l].user], logins[l].role)]
             gone == Range(LoginKeys(logins[l].user, logins[l].host))
  <2>1. /\ logins[l] # Nil /\ logins[l].at = "good" /\ logins' = [logins EXCEPT ![l] = Nil]
        /\ sessions' = sessions \cup {new}
        /\ entries' = [k \in DOMAIN entries \ gone |-> entries[k]]
        /\ UNCHANGED <<accounts, underway, reloads>>
    BY <1>8 DEF CreateSession, Success, accountVars
  <2>2. \A m \in Logins : logins'[m] = IF m = l THEN Nil ELSE logins[m]
    BY <1>1, <2>1 DEF SessionsTypeOK
  <2>3. /\ new \in [user : Accounts, role : Roles, left : BOOLEAN]
        /\ new.left \/ IsOf(accounts[new.user], new.role)
    BY <1>1, <2>1, UnderwayFacts
  <2> HIDE DEF new, gone
  <2>4. SessionsTypeOK'
    BY <1>1, <2>1, <2>3 DEF SessionsTypeOK
  <2>5. AccountsInv' /\ SessionsAreCurrent'
    BY <1>1, <2>1, <2>2, <2>3, AccountsKept
  <2>6. \A k : Guessing(k)' \subseteq Guessing(k)
    BY <1>3, <2>2 DEF Guessing
  <2>7. GuessesInv'
    BY <1>1, <2>1, <2>4, <2>6, FewerGuesses
  <2> QED BY <2>4, <2>5, <2>7 DEF SessionsIInv
<1>9. ASSUME NEW s \in sessions, EndSession(s)
      PROVE  SessionsIInv'
  <2>1. sessions' = sessions \ {s} /\ UNCHANGED <<accounts, underway, reloads, logins, entries, overflow>>
    BY <1>9 DEF EndSession, limiterVars, accountVars
  <2>2. SessionsTypeOK'
    BY <1>1, <2>1 DEF SessionsTypeOK
  <2>3. AccountsInv' /\ SessionsAreCurrent'
    BY <1>1, <2>1, AccountsKept
  <2>4. GuessesInv'
    BY <1>1, <2>1 DEF GuessesInv, Guessing, MaxCount
  <2> QED BY <2>2, <2>3, <2>4 DEF SessionsIInv
<1>10. ASSUME NEW k \in Accounts \cup Hosts, TimePasses(k)
       PROVE  SessionsIInv'
  <2> DEFINE v == Passed(entries[k])
  <2>1. /\ k \in DOMAIN entries /\ UNCHANGED <<accounts, underway, reloads, logins, sessions>>
        /\ entries' = IF Lapsed(v) THEN [j \in DOMAIN entries \ {k} |-> entries[j]]
                      ELSE [entries EXCEPT ![k] = v]
    BY <1>10 DEF TimePasses, accountVars
  <2>2. v \in Counters /\ v.count = entries[k].count /\ v.over = TRUE
        /\ (~entries[k].over => v.blocked = entries[k].blocked)
        /\ (entries[k].over => v.blocked = FALSE)
    BY <1>4, <2>1 DEF Passed, Counters
  <2>3. ~Lapsed(v) => (entries[k].blocked => v.blocked)
    BY <1>4, <2>1, <2>2 DEF Lapsed, Counters
  <2> HIDE DEF v
  <2>4. /\ DOMAIN entries' \subseteq DOMAIN entries
        /\ \A j \in DOMAIN entries' :
             /\ entries'[j] \in Counters /\ entries'[j].count = entries[j].count
             /\ entries[j].blocked => entries'[j].blocked
        /\ entries' = [j \in DOMAIN entries' |-> entries'[j]]
    <3>1. CASE Lapsed(v)
      <4>1. entries' = [j \in DOMAIN entries \ {k} |-> entries[j]]
        BY <2>1, <3>1
      <4> QED BY <1>4, <4>1
    <3>2. CASE ~Lapsed(v)
      <4>1. entries' = [entries EXCEPT ![k] = v]
        BY <2>1, <3>2
      <4>2. /\ DOMAIN entries' = DOMAIN entries /\ entries'[k] = v
            /\ \A j \in DOMAIN entries : j # k => entries'[j] = entries[j]
            /\ entries' = [j \in DOMAIN entries' |-> entries'[j]]
        BY <1>1, <2>1, <4>1 DEF SessionsTypeOK
      <4> QED BY <1>4, <2>2, <2>3, <3>2, <4>2
    <3> QED BY <3>1, <3>2
  <2>5. SessionsTypeOK'
    BY <1>1, <2>1, <2>4 DEF SessionsTypeOK, Counters
  <2>6. AccountsInv' /\ SessionsAreCurrent'
    BY <1>1, <2>1, AccountsKept
  <2>7. \A j : Guessing(j)' \subseteq Guessing(j)
    BY <2>1 DEF Guessing
  <2>8. GuessesInv'
    BY <1>1, <2>4, <2>5, <2>7, FewerGuesses
  <2> QED BY <2>5, <2>6, <2>8 DEF SessionsIInv
<1>11. ASSUME UNCHANGED <<accounts, underway, reloads, logins, sessions, entries>>
       PROVE  SessionsIInv'
  <2>1. SessionsTypeOK'
    BY <1>1, <1>11 DEF SessionsTypeOK
  <2>2. AccountsInv' /\ SessionsAreCurrent'
    BY <1>1, <1>11, AccountsKept
  <2>3. GuessesInv'
    BY <1>1, <1>11 DEF GuessesInv, Guessing, MaxCount
  <2> QED BY <2>1, <2>2, <2>3 DEF SessionsIInv
<1>12. ASSUME NEW a \in Admins,
              \/ \E u \in Accounts : \E new \in Changed(accounts[u]) : ChangeUser(a, u, new)
              \/ CommitUsers(a) \/ RollBackUsers(a) \/ Revoke(a) \/ ReadReload(a) \/ Reload(a)
       PROVE  SessionsIInv'
  <2>1. SessionsTypeOK' /\ AccountsInv' /\ SessionsAreCurrent'
    BY <1>1, <1>12, ChangeKeeps, CommitKeeps, RollBackKeeps, RevokeKeeps, ReloadKeeps
  <2>2. UNCHANGED <<entries, logins>>
    BY <1>12 DEF ChangeUser, CommitUsers, RollBackUsers, Revoke, ReadReload, Reload, limiterVars
  <2>4. \A k : Guessing(k)' \subseteq Guessing(k)
    BY <1>3, <2>2 DEF Guessing
  <2>5. GuessesInv'
    BY <1>1, <2>1, <2>2, <2>4, FewerGuesses
  <2> QED BY <2>1, <2>5 DEF SessionsIInv
<1>13. OverflowPasses => UNCHANGED <<accounts, underway, reloads, logins, sessions, entries>>
  BY DEF OverflowPasses, accountVars
<1>14. UNCHANGED sessionVars => UNCHANGED <<accounts, underway, reloads, logins, sessions, entries>>
  BY DEF sessionVars, accountVars
<1> QED BY <1>5, <1>6, <1>7, <1>8, <1>9, <1>10, <1>11, <1>12, <1>13, <1>14 DEF SessionsNext

(* However logins, changes of accounts, failed commits and reloads overlap,*)
(* while a change is live a session of its account fits what the account   *)
(* was or is, unless it is left or about to end, and a key has failed, or  *)
(* may still fail, less often than its bound.                              *)
THEOREM SessionsInvariant == SessionsSpec => []SessionsIInv
<1>1. SessionsInit => SessionsIInv
  <2> SUFFICES ASSUME SessionsInit PROVE SessionsIInv
    OBVIOUS
  <2>1. /\ accounts \in [Accounts -> {Nil} \cup [role : Roles, enabled : {TRUE}, pw : {1}]]
        /\ underway = [a \in Admins |-> Nil] /\ reloads = underway /\ logins = [l \in Logins |-> Nil] /\ sessions = {}
        /\ DOMAIN entries = {} /\ entries = [k \in {} |-> NoFailures]
    BY DEF SessionsInit
  <2>2. [role : Roles, enabled : {TRUE}, pw : {1}] \subseteq AccountRec
    BY DEF AccountRec
  <2>3. entries \in [DOMAIN entries -> [count : Nat, over : BOOLEAN, blocked : BOOLEAN]]
    BY <2>1
  <2>4. SessionsTypeOK
    BY <2>1, <2>2, <2>3 DEF SessionsTypeOK, AccountLists
  <2>5. AccountsInv /\ SessionsAreCurrent
    BY <2>1 DEF AccountsInv, SessionsAreCurrent, Live
  <2>6. GuessesInv
    BY <2>1 DEF GuessesInv
  <2> QED BY <2>4, <2>5, <2>6 DEF SessionsIInv
<1>2. SessionsIInv /\ [SessionsNext]_sessionVars => SessionsIInv'
  BY SessionsStep
<1> QED BY <1>1, <1>2, PTL DEF SessionsSpec

(* A session is of an enabled account in its role once the handler of a    *)
(* change has revoked, except what overtaken logins, failed commits and    *)
(* reloads leave behind; and passwords cannot be tried without limit.      *)
THEOREM AccessAlwaysGuarded == SessionsSpec => []AccessGuarded
<1>1. SessionsIInv => AccessGuarded
  <2> SUFFICES ASSUME SessionsIInv, NEW k \in DOMAIN entries
               PROVE  entries[k].count < MaxCount
    BY DEF SessionsIInv, AccessGuarded, GuessesBounded
  <2>1. /\ entries[k].count \in Nat
        /\ entries[k].count + Cardinality(Guessing(k)) < MaxCount
    BY DEF SessionsIInv, SessionsTypeOK, GuessesInv
  <2>2. Cardinality(Guessing(k)) \in Nat
    BY GuessFacts DEF SessionsIInv
  <2> QED BY <2>1, <2>2, LimitFacts
<1> QED BY <1>1, SessionsInvariant, PTL

(***************************************************************************)
(* Addresses of the host: for any addresses, interfaces, configurations,   *)
(* steps of the operator and ends of the process.                          *)
(***************************************************************************)

(* The phases of a reconciliation and what each of them carries.           *)
LEMMA ReconFacts ==
  ASSUME HostTypeOK
  PROVE  /\ recon.at \in {"ended", "release", "check", "add", "done"}
         /\ recon.at \in {"check", "add"} =>
              recon.want \in Wants /\ recon.todo \subseteq Ips /\ DOMAIN recon.want \subseteq Ips
         /\ recon.at = "add" => recon.a \in HostAddress
         /\ recon.at = "done" => recon.want \in Wants
<1>1. \A w \in Wants : DOMAIN w \subseteq Ips
  BY DEF Wants
<1> QED BY <1>1 DEF HostTypeOK

(* What a site asks for is an address once an interface is known.          *)
LEMMA SiteFacts ==
  ASSUME HostTypeOK, NEW ip \in Ips, recon.at = "check", ip \in DOMAIN recon.want
  PROVE  /\ recon.want[ip].iface \in Ifaces \cup {Automatic}
         /\ PrefixFor(recon.want[ip]) \in PrefixLens
<1>1. PICK ips \in SUBSET Ips : recon.want \in [ips -> SiteWants]
  BY ReconFacts DEF Wants
<1>2. recon.want[ip] \in SiteWants
  BY <1>1
<1> QED BY <1>2, HostAssumption DEF SiteWants, PrefixFor

(* Going on with the next address.                                         *)
LEMMA NextKeeps ==
  ASSUME HostTypeOK, recon.at \in {"check", "add"}, NEW ip \in Ips, NextAddress(ip)
  PROVE  /\ recon' \in [at : {"check"}, want : Wants, todo : SUBSET Ips]
         /\ recon'.at = "check" /\ recon'.want = recon.want /\ recon'.todo = recon.todo \ {ip}
  BY ReconFacts DEF NextAddress

(* What an address and the memory of it has to keep.                       *)
LEMMA RemembersFacts ==
  ASSUME HostTypeOK, NEW a \in HostAddress, added' = Remembers(a)
  PROVE  /\ DOMAIN added' = DOMAIN added \cup {a.ip} /\ DOMAIN added' \subseteq Ips
         /\ added' = [ip \in DOMAIN added' |-> added'[ip]] /\ added'[a.ip] = a
         /\ \A ip \in DOMAIN added' : ip # a.ip => added'[ip] = added[ip]
         /\ \A ip \in DOMAIN added' : added'[ip] \in HostAddress /\ added'[ip].ip = ip
<1>1. a.ip \in Ips /\ DOMAIN added \subseteq Ips /\ \A ip \in DOMAIN added : added[ip] \in HostAddress /\ added[ip].ip = ip
  BY DEF HostTypeOK, HostAddress
<1>2. /\ DOMAIN added' = DOMAIN added \cup {a.ip} /\ added' = [ip \in DOMAIN added' |-> added'[ip]]
      /\ added'[a.ip] = a /\ \A ip \in DOMAIN added' : ip # a.ip => added'[ip] = added[ip]
  BY DEF Remembers
<1> QED BY <1>1, <1>2

(* A removed address: what was the manager's is gone or given up, what was *)
(* of somebody else was taken.                                             *)
LEMMA DeleteKeeps ==
  ASSUME HostIInv, NEW ip \in DOMAIN added, Delete(ip), UNCHANGED <<foreign, recon, taken>>,
         recon.at \in {"check", "release"},
         recon.at = "check" => recon.todo = {} /\ ip \notin DOMAIN recon.want
  PROVE  HostIInv'
<1>1. /\ ip \in Ips /\ added[ip] \in HostAddress /\ added[ip].ip = ip
      /\ addresses' = addresses \ {added[ip]} \/ addresses' = addresses
  BY DEF HostIInv, HostTypeOK, Delete
<1>2. /\ \/ addresses' = addresses /\ OnHost(ip) \subseteq orphans'
         \/ addresses' = addresses \ {added[ip]} /\ OnHost(ip) \ {added[ip]} \subseteq orphans'
      /\ orphans \subseteq orphans' /\ orphans' \subseteq orphans \cup OnHost(ip)
  BY DEF Delete
<1>3. added' = [i \in DOMAIN added \ {ip} |-> added[i]]
  BY DEF Delete
<1>4. HostTypeOK'
  <2>1. OnHost(ip) \subseteq HostAddress
    BY DEF OnHost, HostIInv, HostTypeOK
  <2>2. addresses' \subseteq HostAddress /\ orphans' \subseteq HostAddress
    BY <1>1, <1>2, <2>1 DEF HostIInv, HostTypeOK
  <2>3. /\ DOMAIN added' \subseteq Ips /\ added' = [i \in DOMAIN added' |-> added'[i]]
        /\ \A i \in DOMAIN added' : added'[i] \in HostAddress /\ added'[i].ip = i
    BY <1>3 DEF HostIInv, HostTypeOK
  <2> QED BY <2>2, <2>3 DEF HostIInv, HostTypeOK
<1>5. ForeignKept'
  BY <1>1 DEF HostIInv, ForeignKept, OwnershipInv
<1>6. OwnershipInv'
  <2>1. \A i \in DOMAIN added' : added'[i] \in foreign' => added'[i] \in taken'
    BY <1>3 DEF HostIInv, OwnershipInv
  <2>2. ASSUME NEW a \in addresses' \ (foreign' \cup orphans') PROVE a.ip \in DOMAIN added'
    <3>1. a \in addresses \ (foreign \cup orphans) /\ a.ip # ip
      BY <1>2 DEF OnHost
    <3> QED BY <3>1, <1>3 DEF HostIInv, OwnershipInv
  <2> QED BY <2>1, <2>2 DEF OwnershipInv
<1>7. ProgressInv'
  <2>1. \A i : i # ip => OnHost(i)' = OnHost(i)
    BY <1>1, <1>2 DEF OnHost
  <2> QED BY <2>1 DEF HostIInv, ProgressInv
<1> QED BY <1>4, <1>5, <1>6, <1>7 DEF HostIInv

(* Checking an address: it is there and remembered, or is to be added.     *)
LEMMA CheckKeeps ==
  ASSUME HostIInv, NEW ip \in Ips, CheckAddress(ip)
  PROVE  HostIInv'
<1>1. /\ recon.at = "check" /\ ip \in recon.todo
      /\ UNCHANGED <<addresses, foreign, orphans>>
  BY DEF CheckAddress
<1> DEFINE site == recon.want[ip]
           iface == IF site.iface = Automatic THEN SubnetOf[ip] ELSE site.iface
<1>2. \A i : OnHost(i)' = OnHost(i)
  BY <1>1 DEF OnHost
<1>3. ip \in DOMAIN recon.want
  BY <1>1 DEF HostIInv, ProgressInv
<1>4. CASE Fails
  <2>1. UNCHANGED added /\ UNCHANGED taken /\ recon' = Ended
    BY <1>4 DEF Fails
  <2>2. HostTypeOK'
    BY <1>1, <2>1 DEF Ended, HostIInv, HostTypeOK
  <2> QED BY <1>1, <2>1, <2>2 DEF Ended, HostIInv, ForeignKept, OwnershipInv, ProgressInv
<1>5. CASE /\ iface # Automatic /\ UNCHANGED <<added, taken>>
           /\ recon' = [at |-> "add", want |-> recon.want, todo |-> recon.todo,
                        a |-> [ip |-> ip, iface |-> iface, prefix |-> PrefixFor(site)]]
  <2>1. [ip |-> ip, iface |-> iface, prefix |-> PrefixFor(site)] \in HostAddress
    BY <1>1, <1>3, <1>5, SiteFacts, HostAssumption DEF HostIInv, HostAddress
  <2>2. recon' \in [at : {"add"}, want : Wants, todo : SUBSET Ips, a : HostAddress]
    BY <1>1, <1>5, <2>1, ReconFacts DEF HostIInv
  <2>3. HostTypeOK'
    BY <1>1, <1>5, <2>2 DEF HostIInv, HostTypeOK
  <2>4. ProgressInv'
    BY <1>1, <1>2, <1>5 DEF HostIInv, ProgressInv
  <2> QED BY <1>1, <1>5, <2>3, <2>4 DEF HostIInv, ForeignKept, OwnershipInv
<1>6. ASSUME OnHost(ip) # {}, NextAddress(ip) PROVE ProgressInv'
  <2>1. recon'.at = "check" /\ recon'.want = recon.want /\ recon'.todo = recon.todo \ {ip}
    BY <1>1, <1>6, NextKeeps DEF HostIInv
  <2> QED BY <1>1, <1>2, <1>6, <2>1 DEF HostIInv, ProgressInv
<1>7. CASE OnHost(ip) # {} /\ NextAddress(ip) /\ UNCHANGED <<added, taken>>
  <2>1. HostTypeOK'
    BY <1>1, <1>7, NextKeeps DEF HostIInv, HostTypeOK
  <2> QED BY <1>1, <1>6, <1>7, <2>1 DEF HostIInv, ForeignKept, OwnershipInv
<1>8. ASSUME NEW found \in OnHost(ip), site.iface # Automatic, NextAddress(ip),
             added' = Remembers([ip |-> ip, iface |-> found.iface, prefix |-> PrefixFor(site)]),
             taken' = taken \cup (foreign \cap OnHost(ip))
      PROVE  HostIInv'
  <2> DEFINE a == [ip |-> ip, iface |-> found.iface, prefix |-> PrefixFor(site)]
  <2>1. a \in HostAddress /\ a.ip = ip /\ OnHost(ip) \subseteq HostAddress
    BY <1>1, <1>3, <1>8, SiteFacts DEF OnHost, HostIInv, HostTypeOK, HostAddress
  <2>2. added' = Remembers(a)
    BY <1>8
  <2> HIDE DEF a
  <2>3. /\ DOMAIN added' = DOMAIN added \cup {ip} /\ DOMAIN added' \subseteq Ips
        /\ added' = [i \in DOMAIN added' |-> added'[i]] /\ added'[ip] = a
        /\ \A i \in DOMAIN added' : i # ip => added'[i] = added[i]
        /\ \A i \in DOMAIN added' : added'[i] \in HostAddress /\ added'[i].ip = i
    <3>1. HostTypeOK /\ a \in HostAddress
      BY <2>1 DEF HostIInv
    <3>2. /\ DOMAIN added' = DOMAIN added \cup {a.ip} /\ DOMAIN added' \subseteq Ips
          /\ added' = [i \in DOMAIN added' |-> added'[i]] /\ added'[a.ip] = a
          /\ \A i \in DOMAIN added' : i # a.ip => added'[i] = added[i]
          /\ \A i \in DOMAIN added' : added'[i] \in HostAddress /\ added'[i].ip = i
      BY ONLY <2>2, <3>1, RemembersFacts
    <3> QED BY <2>1, <3>2
  <2>4. HostTypeOK'
    BY <1>1, <1>8, <2>1, <2>3, NextKeeps DEF HostIInv, HostTypeOK
  <2>5. a \in foreign => a \in taken'
    BY <1>8, <2>1 DEF HostIInv, ForeignKept, OnHost
  <2>6. OwnershipInv'
    BY <1>1, <1>8, <2>3, <2>5 DEF HostIInv, OwnershipInv
  <2>7. ForeignKept'
    BY <1>1, <1>8 DEF HostIInv, ForeignKept
  <2> QED BY <1>6, <1>8, <2>4, <2>6, <2>7 DEF HostIInv
<1> QED BY <1>4, <1>5, <1>7, <1>8 DEF CheckAddress, Adopts

(* The command that adds an address fails, or the address is there.        *)
LEMMA AddKeeps ==
  ASSUME HostIInv, AddAddress
  PROVE  HostIInv'
<1>1. recon.at = "add" /\ recon.a \in HostAddress /\ recon.a.ip \in Ips
  BY ReconFacts DEF AddAddress, HostIInv, HostAddress
<1>2. UNCHANGED <<foreign, orphans>>
  BY DEF AddAddress
<1>3. CASE Fails /\ UNCHANGED addresses
  <2>1. UNCHANGED added /\ UNCHANGED taken /\ recon' = Ended
    BY <1>3 DEF Fails
  <2>2. HostTypeOK'
    BY <1>2, <1>3, <2>1 DEF Ended, HostIInv, HostTypeOK
  <2> QED BY <1>2, <1>3, <2>1, <2>2 DEF Ended, HostIInv, ForeignKept, OwnershipInv, ProgressInv
<1>4. CASE /\ addresses' = addresses \cup {recon.a} /\ added' = Remembers(recon.a)
           /\ taken' = taken \cup (foreign \cap {recon.a}) /\ NextAddress(recon.a.ip)
  <2>1. /\ DOMAIN added' = DOMAIN added \cup {recon.a.ip} /\ DOMAIN added' \subseteq Ips
        /\ added' = [i \in DOMAIN added' |-> added'[i]] /\ added'[recon.a.ip] = recon.a
        /\ \A i \in DOMAIN added' : i # recon.a.ip => added'[i] = added[i]
        /\ \A i \in DOMAIN added' : added'[i] \in HostAddress /\ added'[i].ip = i
    <3>1. PICK a \in HostAddress : a = recon.a
      BY <1>1
    <3>2. HostTypeOK /\ added' = Remembers(a)
      BY <1>4, <3>1 DEF HostIInv
    <3>3. /\ DOMAIN added' = DOMAIN added \cup {a.ip} /\ DOMAIN added' \subseteq Ips
          /\ added' = [i \in DOMAIN added' |-> added'[i]] /\ added'[a.ip] = a
          /\ \A i \in DOMAIN added' : i # a.ip => added'[i] = added[i]
          /\ \A i \in DOMAIN added' : added'[i] \in HostAddress /\ added'[i].ip = i
      BY ONLY <3>2, a \in HostAddress, RemembersFacts
    <3> QED BY <3>1, <3>3
  <2>2. /\ recon' \in [at : {"check"}, want : Wants, todo : SUBSET Ips]
        /\ recon'.at = "check" /\ recon'.want = recon.want /\ recon'.todo = recon.todo \ {recon.a.ip}
    BY <1>1, <1>4, NextKeeps DEF HostIInv
  <2>3. HostTypeOK'
    BY <1>1, <1>2, <1>4, <2>1, <2>2 DEF HostIInv, HostTypeOK
  <2>4. OwnershipInv'
    BY <1>2, <1>4, <2>1 DEF HostIInv, OwnershipInv
  <2>5. ProgressInv'
    BY <1>1, <1>4, <2>2 DEF HostIInv, ProgressInv, OnHost
  <2> QED BY <1>2, <1>4, <2>3, <2>4, <2>5 DEF HostIInv, ForeignKept
<1> QED BY <1>3, <1>4 DEF AddAddress

(* The steps that touch the reconciliation only.                           *)
LEMMA ReconKeeps ==
  ASSUME HostIInv,
         \/ \E ips \in SUBSET Ips : \E want \in [ips -> SiteWants] : Reconcile(want)
         \/ EndReconcile \/ Settle \/ ReleaseAll
  PROVE  HostIInv'
<1>1. UNCHANGED <<addresses, foreign, added, taken, orphans>>
  BY DEF Reconcile, EndReconcile, Settle, ReleaseAll
<1>2. ForeignKept' /\ OwnershipInv'
  BY <1>1 DEF HostIInv, ForeignKept, OwnershipInv
<1>3. /\ recon' \in [at : {"ended", "release"}] \cup [at : {"check"}, want : Wants, todo : SUBSET Ips]
                    \cup [at : {"done"}, want : Wants]
      /\ ProgressInv'
  <2>1. CASE \E ips \in SUBSET Ips : \E want \in [ips -> SiteWants] : Reconcile(want)
    <3>1. PICK ips \in SUBSET Ips : \E want \in [ips -> SiteWants] : Reconcile(want)
      BY <2>1
    <3>2. PICK want \in [ips -> SiteWants] : Reconcile(want)
      BY <3>1
    <3>4. want \in Wants /\ DOMAIN want \subseteq Ips
      BY <3>1, <3>2 DEF Wants
    <3>3. recon' = [at |-> "check", want |-> want, todo |-> DOMAIN want]
      BY <3>2 DEF Reconcile
    <3> QED BY <3>4, <3>3 DEF ProgressInv
  <2>2. CASE EndReconcile
    <3>1. recon.at = "check" /\ recon.todo = {} /\ DOMAIN added \subseteq DOMAIN recon.want
          /\ recon' = [at |-> "done", want |-> recon.want]
      BY <2>2 DEF EndReconcile
    <3>2. \A ip \in DOMAIN recon.want : OnHost(ip) # {}
      BY <3>1 DEF HostIInv, ProgressInv
    <3> QED BY <1>1, <3>1, <3>2, ReconFacts DEF HostIInv, ProgressInv, OnHost
  <2>3. CASE Settle \/ ReleaseAll
    BY <2>3 DEF Settle, ReleaseAll, Ended, ProgressInv
  <2> QED BY <2>1, <2>2, <2>3
<1>4. HostTypeOK'
  BY <1>1, <1>3 DEF HostIInv, HostTypeOK
<1> QED BY <1>2, <1>3, <1>4 DEF HostIInv

(* The process ends: what it added is on the host without it.              *)
LEMMA EndKeeps ==
  ASSUME HostIInv, ProcessEnds
  PROVE  HostIInv'
<1>1. /\ recon' = Ended /\ DOMAIN added' = {} /\ added' = NothingAdded
      /\ orphans' = orphans \cup (addresses \ foreign) /\ UNCHANGED <<addresses, foreign, taken>>
  BY DEF ProcessEnds, NothingAdded
<1>2. HostTypeOK'
  BY <1>1 DEF HostIInv, HostTypeOK, Ended, NothingAdded
<1> QED BY <1>1, <1>2 DEF HostIInv, ForeignKept, OwnershipInv, ProgressInv, Ended

(* The operator.                                                           *)
LEMMA OperatorKeeps ==
  ASSUME HostIInv, NEW a \in HostAddress, OperatorAdds(a) \/ OperatorRemoves(a)
  PROVE  HostIInv'
<1>1. UNCHANGED <<added, recon, orphans>>
  BY DEF OperatorAdds, OperatorRemoves
<1>2. CASE OperatorAdds(a)
  <2>1. /\ addresses' = addresses \cup {a} /\ foreign' = foreign \cup {a}
        /\ taken' = IF a.ip \in DOMAIN added /\ added[a.ip] = a THEN taken \cup {a} ELSE taken
    BY <1>2 DEF OperatorAdds
  <2>2. taken \subseteq taken' /\ taken' \subseteq taken \cup {a}
    BY <2>1
  <2>3. HostTypeOK'
    BY <1>1, <2>1, <2>2 DEF HostIInv, HostTypeOK
  <2>4. OwnershipInv'
    <3>1. ASSUME NEW ip \in DOMAIN added, added[ip] \in foreign' PROVE added[ip] \in taken'
      <4>1. added[ip].ip = ip
        BY DEF HostIInv, HostTypeOK
      <4> QED BY <2>1, <3>1, <4>1 DEF HostIInv, OwnershipInv
    <3> QED BY <1>1, <2>1, <3>1 DEF HostIInv, OwnershipInv
  <2>5. ProgressInv'
    BY <1>1, <2>1 DEF HostIInv, ProgressInv, OnHost
  <2> QED BY <2>1, <2>2, <2>3, <2>4, <2>5 DEF HostIInv, ForeignKept
<1>3. CASE OperatorRemoves(a)
  <2>1. /\ addresses' = addresses \ {a} /\ foreign' = foreign \ {a} /\ taken' = taken \ {a} /\ recon = Ended
    BY <1>3 DEF OperatorRemoves
  <2>2. HostTypeOK'
    BY <1>1, <2>1 DEF HostIInv, HostTypeOK
  <2>3. ProgressInv'
    BY <1>1, <2>1 DEF ProgressInv, Ended
  <2> QED BY <1>1, <2>1, <2>2, <2>3 DEF HostIInv, ForeignKept, OwnershipInv
<1> QED BY <1>2, <1>3

(* Whatever the operator does, the manager remembers only what it may      *)
(* remove, and has what is managed on the host.                            *)
THEOREM HostInvariant == HostSpec => []HostIInv
<1>1. HostInit => HostIInv
  <2> SUFFICES ASSUME HostInit PROVE HostIInv
    OBVIOUS
  <2>1. /\ addresses = {} /\ foreign = {} /\ taken = {} /\ orphans = {} /\ recon = Ended
        /\ added = NothingAdded /\ DOMAIN added = {}
    BY DEF HostInit, NothingAdded
  <2>2. HostTypeOK
    BY <2>1 DEF HostTypeOK, Ended, NothingAdded
  <2> QED BY <2>1, <2>2 DEF HostIInv, ForeignKept, OwnershipInv, ProgressInv, Ended
<1>2. HostIInv /\ [HostNext]_hostVars => HostIInv'
  <2> SUFFICES ASSUME HostIInv, [HostNext]_hostVars PROVE HostIInv'
    OBVIOUS
  <2>1. CASE \/ \E ips \in SUBSET Ips : \E want \in [ips -> SiteWants] : Reconcile(want)
             \/ EndReconcile \/ Settle \/ ReleaseAll
    BY <2>1, ReconKeeps
  <2>2. ASSUME NEW ip \in Ips, CheckAddress(ip) PROVE HostIInv'
    BY <2>2, CheckKeeps
  <2>3. ASSUME NEW ip \in Ips, RemoveAddress(ip) \/ ReleaseAddress(ip) PROVE HostIInv'
    <3>1. /\ ip \in DOMAIN added /\ Delete(ip) /\ UNCHANGED <<foreign, recon, taken>>
          /\ recon.at \in {"check", "release"}
          /\ recon.at = "check" => recon.todo = {} /\ ip \notin DOMAIN recon.want
      BY <2>3 DEF RemoveAddress, ReleaseAddress
    <3> QED BY <3>1, DeleteKeeps
  <2>4. CASE AddAddress
    BY <2>4, AddKeeps
  <2>5. CASE ProcessEnds
    BY <2>5, EndKeeps
  <2>6. ASSUME NEW a \in HostAddress, OperatorAdds(a) \/ OperatorRemoves(a) PROVE HostIInv'
    BY <2>6, OperatorKeeps
  <2>7. CASE UNCHANGED hostVars
    BY <2>7 DEF hostVars, HostIInv, HostTypeOK, ForeignKept, OwnershipInv, ProgressInv, OnHost
  <2> QED BY <2>1, <2>2, <2>3, <2>4, <2>5, <2>6, <2>7 DEF HostNext
<1> QED BY <1>1, <1>2, PTL DEF HostSpec

(* The manager never removes what the operator has put on an interface     *)
(* unless that became its own, and after a reconciliation the host has     *)
(* what is managed and nothing the manager should have removed.            *)
THEOREM AddressesAlwaysRight == HostSpec => []AddressesRight
<1>1. HostIInv => AddressesRight
  BY DEF HostIInv, AddressesRight, HostMatches, OwnershipInv, ProgressInv
<1> QED BY <1>1, HostInvariant, PTL

(***************************************************************************)
(* The TLS frontend: for any bodies, publishes, deaths of nginx and ends   *)
(* of the manager.                                                         *)
(***************************************************************************)

(* The steps of the manager, and what they may do: nginx goes on, ends, or *)
(* gets the body of the turn, and a status without an error is written     *)
(* only when it runs that body or nothing.                                 *)
ManagerSteps ==
  \/ Tick \/ StopFrontend \/ FailTurn \/ Prepare \/ Install \/ ApplyChild \/ StartChild \/ FinishTurn
  \/ NginxDies \/ NoticeExit \/ \E clean \in BOOLEAN : ManagerRestarts(clean)
OfTurn == nginx' = NoBody \/ (turn # Resting /\ nginx' = turn.file.body)
Told == \/ statusFile' = statusFile
        \/ statusFile'.at = begun /\ (~statusFile'.error => OfTurn)
Goes == /\ FrontendTypeOK' /\ ChildInv' /\ Told
        /\ nginx' = nginx \/ OfTurn

(* A turn is at rest or works on a file.                                   *)
LEMMA TurnFacts ==
  ASSUME FrontendTypeOK
  PROVE  /\ turn.at \in {"rest", "stop", "prepare", "install", "apply", "start", "finish"}
         /\ turn.at = "rest" <=> turn = Resting
         /\ turn # Resting => turn.file \in FileRec /\ turn = [at |-> turn.at, file |-> turn.file]
         /\ turn # Resting => turn.file.n \in Nat /\ turn.file.body \in Bodies \cup {NoBody}
  BY DEF FrontendTypeOK, Resting, FileRec

(* A step of the manager that starts no turn goes on with the file of the  *)
(* turn, if it goes on at all.                                             *)
LEMMA SameFile ==
  ASSUME FrontendTypeOK, ManagerSteps
  PROVE  /\ UNCHANGED <<begun, control, waiting, acked>>
         /\ turn' # Resting => turn'.file = IF turn = Resting THEN control ELSE turn.file
<1>1. UNCHANGED <<begun, control, waiting, acked>>
  BY DEF ManagerSteps, Tick, StopFrontend, FailTurn, Prepare, Install, ApplyChild, StartChild, FinishTurn,
         NginxDies, NoticeExit, ManagerRestarts, publisherVars
<1>2. CASE Tick
  BY <1>1, <1>2 DEF Tick
<1>3. CASE StopFrontend \/ FailTurn \/ FinishTurn \/ \E clean \in BOOLEAN : ManagerRestarts(clean)
  BY <1>1, <1>3 DEF StopFrontend, FailTurn, FinishTurn, ManagerRestarts
<1>4. CASE NginxDies \/ NoticeExit
  BY <1>1, <1>4 DEF NginxDies, NoticeExit
<1>5. CASE Prepare \/ Install
  BY <1>1, <1>5, TurnFacts DEF Prepare, Install, Resting
<1>6. CASE ApplyChild
  <2>1. turn.at = "apply" /\ (turn' = [turn EXCEPT !.at = "start"] \/ turn' = [turn EXCEPT !.at = "finish"])
    BY <1>6 DEF ApplyChild
  <2> QED BY <1>1, <2>1, TurnFacts DEF Resting
<1>7. CASE StartChild
  BY <1>1, <1>7, TurnFacts DEF StartChild, Resting
<1> QED BY <1>1, <1>2, <1>3, <1>4, <1>5, <1>6, <1>7 DEF ManagerSteps

(* What is written to the status file has its type.                        *)
LEMMA WritesFacts ==
  ASSUME FrontendTypeOK, NEW m \in {"none", "go", "frontend"}, NEW active \in BOOLEAN, NEW error \in BOOLEAN,
         Writes(m, active, error)
  PROVE  /\ statusFile' \in [mode : {"none", "go", "frontend"}, active : BOOLEAN, error : BOOLEAN, at : Nat]
         /\ statusFile'.at = begun /\ statusFile'.error = error /\ lastMode' = m
  BY DEF FrontendTypeOK, Writes

(* The steps that leave nginx and the status alone.                        *)
LEMMA QuietGoes ==
  ASSUME FrontendTypeOK, ChildInv, Tick \/ Prepare \/ Install
  PROVE  Goes
<1>1. /\ UNCHANGED <<begun, control, waiting, acked>>
      /\ UNCHANGED <<statusFile, nginx, exited, lastControl, currentHash, lastMode>>
  BY DEF Tick, Prepare, Install, publisherVars
<1>2. CASE Tick
  <2>1. /\ turn = Resting /\ turn' = [at |-> IF control.mode = "frontend" THEN "prepare" ELSE "stop", file |-> control]
        /\ UNCHANGED installed
    BY <1>2 DEF Tick
  <2>2. FrontendTypeOK'
    BY <1>1, <2>1 DEF FrontendTypeOK
  <2> QED BY <1>1, <2>1, <2>2 DEF Goes, Told, ChildInv, Resting
<1>3. CASE Prepare
  <2>1. turn.at = "prepare" /\ turn' = [at |-> "install", file |-> turn.file] /\ turn.file \in FileRec /\ UNCHANGED installed
    BY <1>3, TurnFacts DEF Prepare, Resting
  <2>2. FrontendTypeOK'
    BY <1>1, <2>1 DEF FrontendTypeOK
  <2> QED BY <1>1, <2>1, <2>2 DEF Goes, Told, ChildInv
<1>4. CASE Install
  <2>1. /\ turn.at = "install" /\ turn' = [at |-> "apply", file |-> turn.file] /\ turn.file \in FileRec
        /\ installed' = turn.file.body /\ turn.file.body \in Bodies \cup {NoBody}
    BY <1>4, TurnFacts DEF Install, Resting
  <2>2. FrontendTypeOK'
    BY <1>1, <2>1 DEF FrontendTypeOK
  <2> QED BY <1>1, <2>1, <2>2 DEF Goes, Told, ChildInv
<1> QED BY <1>2, <1>3, <1>4

(* The steps that start, reload or stop nginx.                             *)
LEMMA ChildGoes ==
  ASSUME FrontendTypeOK, ChildInv, ApplyChild \/ StartChild \/ NginxDies
  PROVE  Goes
<1>1. /\ UNCHANGED <<begun, control, waiting, acked>>
      /\ UNCHANGED <<statusFile, installed, lastControl, lastMode>>
  BY DEF ApplyChild, StartChild, NginxDies, publisherVars
<1>2. CASE ApplyChild
  <2>1. /\ turn.at = "apply" /\ turn # Resting /\ turn.file \in FileRec /\ installed = turn.file.body /\ turn.file.body \in Bodies \cup {NoBody}
        /\ turn' \in {[at |-> "start", file |-> turn.file], [at |-> "finish", file |-> turn.file]}
        /\ UNCHANGED currentHash
    BY <1>2, TurnFacts DEF ApplyChild, Resting, ChildInv
  <2>2. \/ nginx' = NoBody /\ exited' = FALSE
        \/ turn'.at = "finish" /\ nginx' = nginx /\ exited' = exited /\ turn.file.body = currentHash
        \/ turn'.at = "finish" /\ nginx' = turn.file.body /\ exited' = exited /\ ~exited
    BY <1>2, <2>1 DEF ApplyChild
  <2>5. turn' \in {Resting} \cup [at : {"stop", "prepare", "install", "apply", "start", "finish"}, file : FileRec]
    BY <2>1
  <2>6. nginx' \in Bodies \cup {NoBody} /\ exited' \in BOOLEAN
    BY <2>1, <2>2 DEF FrontendTypeOK
  <2>3. FrontendTypeOK'
    BY <1>1, <2>1, <2>5, <2>6 DEF FrontendTypeOK
  <2>4. ChildInv'
    BY <1>1, <2>1, <2>2 DEF ChildInv
  <2> QED BY <1>1, <2>1, <2>2, <2>3, <2>4 DEF Goes, Told, OfTurn
<1>3. CASE StartChild
  <2>1. /\ turn.at = "start" /\ turn # Resting /\ turn.file \in FileRec /\ installed = turn.file.body /\ turn.file.body \in Bodies \cup {NoBody}
        /\ turn' = [at |-> "finish", file |-> turn.file]
        /\ nginx' = turn.file.body /\ exited' = FALSE /\ currentHash' = turn.file.body
    BY <1>3, TurnFacts DEF StartChild, Resting, ChildInv
  <2>3. turn' \in {Resting} \cup [at : {"stop", "prepare", "install", "apply", "start", "finish"}, file : FileRec]
    BY <2>1
  <2>4. nginx' \in Bodies \cup {NoBody} /\ exited' \in BOOLEAN /\ currentHash' \in Bodies \cup {NoBody}
    BY <2>1
  <2>2. FrontendTypeOK'
    BY <1>1, <2>3, <2>4 DEF FrontendTypeOK
  <2> QED BY <1>1, <2>1, <2>2 DEF Goes, Told, OfTurn, ChildInv
<1>4. CASE NginxDies
  <2>1. nginx' = NoBody /\ exited' = TRUE /\ UNCHANGED <<turn, currentHash>>
    BY <1>4 DEF NginxDies
  <2>2. FrontendTypeOK'
    BY <1>1, <2>1 DEF FrontendTypeOK
  <2> QED BY <1>1, <2>1, <2>2 DEF Goes, Told, OfTurn, ChildInv
<1> QED BY <1>2, <1>3, <1>4

(* The steps that write the status.                                        *)
LEMMA StatusGoes ==
  ASSUME FrontendTypeOK, ChildInv,
         StopFrontend \/ FailTurn \/ FinishTurn \/ NoticeExit \/ \E clean \in BOOLEAN : ManagerRestarts(clean)
  PROVE  Goes
<1>1. UNCHANGED <<begun, control, waiting, acked, installed>>
  BY DEF StopFrontend, FailTurn, FinishTurn, NoticeExit, ManagerRestarts, publisherVars
<1>2. CASE StopFrontend
  <2>1. /\ turn.at = "stop" /\ turn' = Resting /\ turn.file.n \in Nat /\ turn.file.body \in Bodies \cup {NoBody}
        /\ nginx' = NoBody /\ exited' = FALSE /\ lastControl' = turn.file.n /\ currentHash' = NoBody
        /\ Writes("go", FALSE, FALSE)
    BY <1>2, TurnFacts DEF StopFrontend, Resting
  <2>4. /\ statusFile' \in [mode : {"none", "go", "frontend"}, active : BOOLEAN, error : BOOLEAN, at : Nat]
        /\ statusFile'.at = begun /\ lastMode' = "go"
    <3>1. Writes("go", FALSE, FALSE)
      BY <2>1
    <3> QED BY <3>1, WritesFacts
  <2>5. exited' \in BOOLEAN /\ lastMode' \in {"none", "go", "frontend"}
    BY <2>1, <2>4
  <2>2. FrontendTypeOK'
    BY <1>1, <2>1, <2>4, <2>5 DEF FrontendTypeOK
  <2>3. ChildInv'
    BY <2>1 DEF ChildInv, Resting
  <2> QED BY <2>1, <2>2, <2>3, <2>4 DEF Goes, Told, OfTurn
<1>3. CASE FailTurn
  <2>1. /\ turn' = Resting /\ Writes("frontend", FALSE, TRUE) /\ turn.at # "finish"
        /\ UNCHANGED <<nginx, exited, lastControl, currentHash>>
    BY <1>3 DEF FailTurn
  <2>4. /\ statusFile' \in [mode : {"none", "go", "frontend"}, active : BOOLEAN, error : BOOLEAN, at : Nat]
        /\ statusFile'.at = begun /\ statusFile'.error = TRUE /\ lastMode' = "frontend"
    <3>1. Writes("frontend", FALSE, TRUE)
      BY <2>1
    <3> QED BY <3>1, WritesFacts
  <2>5. lastMode' \in {"none", "go", "frontend"}
    BY <2>4
  <2>2. FrontendTypeOK'
    BY <1>1, <2>1, <2>4, <2>5 DEF FrontendTypeOK
  <2>3. ChildInv'
    BY <2>1 DEF ChildInv, Resting
  <2> QED BY <2>1, <2>2, <2>3, <2>4 DEF Goes, Told
<1>4. CASE FinishTurn
  <2>1. /\ turn.at = "finish" /\ turn # Resting /\ turn' = Resting /\ turn.file.n \in Nat /\ turn.file.body \in Bodies \cup {NoBody}
        /\ lastControl' = turn.file.n /\ currentHash' = turn.file.body /\ Writes("frontend", Child, FALSE)
        /\ UNCHANGED <<nginx, exited>>
    BY <1>4, TurnFacts DEF FinishTurn, Resting
  <2>2. Child \in BOOLEAN
    BY DEF Child, FrontendTypeOK
  <2>5. /\ statusFile' \in [mode : {"none", "go", "frontend"}, active : BOOLEAN, error : BOOLEAN, at : Nat]
        /\ statusFile'.at = begun /\ lastMode' = "frontend"
    <3>1. PICK c \in BOOLEAN : c = Child /\ Writes("frontend", c, FALSE)
      BY <2>1, <2>2
    <3> QED BY <3>1, WritesFacts
  <2>6. lastMode' \in {"none", "go", "frontend"}
    BY <2>5
  <2>3. FrontendTypeOK'
    BY <1>1, <2>1, <2>5, <2>6 DEF FrontendTypeOK
  <2>4. ChildInv' /\ OfTurn
    BY <2>1 DEF ChildInv, Resting, OfTurn
  <2> QED BY <2>3, <2>4, <2>5 DEF Goes, Told
<1>5. CASE NoticeExit
  <2>1. PICK error \in BOOLEAN : Writes(lastMode, FALSE, error \/ statusFile.error)
    BY <1>5 DEF NoticeExit
  <2>2. /\ turn = Resting /\ exited /\ exited' = FALSE /\ UNCHANGED <<turn, nginx, lastControl, currentHash>>
    BY <1>5 DEF NoticeExit
  <2>3. (error \/ statusFile.error) \in BOOLEAN /\ lastMode \in {"none", "go", "frontend"} /\ FALSE \in BOOLEAN
    BY DEF FrontendTypeOK
  <2>6. PICK e \in BOOLEAN : Writes(lastMode, FALSE, e)
    BY <2>1, <2>3
  <2>7. /\ statusFile' \in [mode : {"none", "go", "frontend"}, active : BOOLEAN, error : BOOLEAN, at : Nat]
        /\ statusFile'.at = begun /\ lastMode' = lastMode
    BY <2>3, <2>6, WritesFacts
  <2>8. exited' \in BOOLEAN /\ lastMode' \in {"none", "go", "frontend"}
    BY <2>2, <2>3, <2>7
  <2>9. FrontendTypeOK'
    BY <1>1, <2>2, <2>7, <2>8 DEF FrontendTypeOK
  <2>4. FrontendTypeOK' /\ statusFile'.at = begun
    BY <2>7, <2>9
  <2>5. ChildInv' /\ OfTurn
    BY <2>2 DEF ChildInv, OfTurn, Resting
  <2> QED BY <2>4, <2>5 DEF Goes, Told
<1>6. ASSUME NEW clean \in BOOLEAN, ManagerRestarts(clean) PROVE Goes
  <2>1. /\ turn' = Resting /\ nginx' = NoBody /\ exited' = FALSE /\ lastControl' = 0 /\ currentHash' = NoBody
        /\ Writes("go", FALSE, FALSE) \/ (statusFile' = statusFile /\ lastMode' = "none")
    BY <1>6 DEF ManagerRestarts
  <2>4. /\ statusFile' \in [mode : {"none", "go", "frontend"}, active : BOOLEAN, error : BOOLEAN, at : Nat]
        /\ statusFile'.at = begun \/ statusFile' = statusFile
        /\ lastMode' \in {"none", "go", "frontend"}
    <3>1. CASE Writes("go", FALSE, FALSE)
      <4>1. /\ statusFile' \in [mode : {"none", "go", "frontend"}, active : BOOLEAN, error : BOOLEAN, at : Nat]
            /\ statusFile'.at = begun /\ lastMode' = "go"
        BY <3>1, WritesFacts
      <4> QED BY <4>1
    <3>2. CASE statusFile' = statusFile /\ lastMode' = "none"
      BY <3>2 DEF FrontendTypeOK
    <3> QED BY <2>1, <3>1, <3>2
  <2>5. exited' \in BOOLEAN /\ lastControl' \in Nat
    BY <2>1
  <2>2. FrontendTypeOK'
    BY <1>1, <2>1, <2>4, <2>5 DEF FrontendTypeOK
  <2>3. ChildInv' /\ OfTurn
    BY <2>1 DEF ChildInv, Resting, OfTurn
  <2> QED BY <2>2, <2>3, <2>4 DEF Goes, Told
<1> QED BY <1>2, <1>3, <1>4, <1>5, <1>6

(* What a publish may rely on survives each step of the manager.           *)
LEMMA ManagerKeeps ==
  ASSUME FrontendIInv, ManagerSteps
  PROVE  FrontendIInv'
<1>1. Goes
  BY QuietGoes, ChildGoes, StatusGoes DEF ManagerSteps, FrontendIInv
<1>2. /\ UNCHANGED <<begun, control, waiting, acked>>
      /\ turn' # Resting => turn'.file = IF turn = Resting THEN control ELSE turn.file
  BY SameFile DEF FrontendIInv
<1>3. ASSUME NEW p, Alone(p) PROVE Alone(p)' /\ (nginx' = nginx \/ nginx' \in {p.body, NoBody})
  BY <1>1, <1>2, <1>3 DEF Alone, Goes, OfTurn
<1>4. ASSUME NEW p, Alone(p), Confirms(p) => nginx \in {p.body, NoBody}, Confirms(p)'
      PROVE  nginx' \in {p.body, NoBody}
  <2>1. statusFile' = statusFile => Confirms(p)
    BY <1>4 DEF Confirms
  <2>2. OfTurn => nginx' \in {p.body, NoBody}
    BY <1>4 DEF OfTurn, Alone
  <2> QED BY <1>1, <1>3, <1>4, <2>1, <2>2 DEF Goes, Told, Confirms
<1>5. statusFile'.at <= begun'
  BY <1>1, <1>2 DEF FrontendIInv, PublishInv, FrontendTypeOK, Goes, Told
<1>6. waiting # NoFile /\ waiting.renamed /\ ~waiting.beside =>
        Alone(waiting)' /\ (Confirms(waiting)' => nginx' \in {waiting.body, NoBody})
  BY <1>2, <1>3, <1>4 DEF FrontendIInv, PublishInv
<1>7. acked # NoFile /\ acked.n = begun /\ ~acked.beside => Alone(acked)' /\ nginx' \in {acked.body, NoBody}
  BY <1>2, <1>3 DEF FrontendIInv, PublishInv
<1>8. PublishInv'
  BY <1>2, <1>5, <1>6, <1>7 DEF FrontendIInv, PublishInv
<1> QED BY <1>1, <1>8 DEF Goes, FrontendIInv

(* The steps of the proxy.                                                 *)
LEMMA PublisherKeeps ==
  ASSUME FrontendIInv,
         \/ Publish("go", NoBody) \/ \E body \in Bodies : Publish("frontend", body)
         \/ RenameControl \/ ReadStatus \/ GiveUpWaiting
  PROVE  FrontendIInv'
<1>1. UNCHANGED <<statusFile, turn, nginx, exited, installed, lastControl, currentHash, lastMode>>
  BY DEF Publish, RenameControl, ReadStatus, GiveUpWaiting, managerVars
<1>2. ChildInv'
  BY <1>1 DEF FrontendIInv, ChildInv
<1>3. /\ waiting # NoFile => waiting \in [n : Nat, mode : {"go", "frontend"}, body : Bodies \cup {NoBody},
                                          renamed : BOOLEAN, beside : BOOLEAN]
      /\ begun \in Nat /\ statusFile.at \in Nat /\ acked.n \in Nat
  BY DEF FrontendIInv, FrontendTypeOK, NoFile
<1>4. ASSUME NEW m \in {"go", "frontend"}, NEW body \in Bodies \cup {NoBody}, Publish(m, body)
      PROVE  FrontendIInv'
  <2>1. /\ waiting = NoFile /\ begun' = begun + 1 /\ UNCHANGED <<control, acked>>
        /\ waiting' = [n |-> begun + 1, mode |-> m, body |-> body, renamed |-> FALSE, beside |-> FALSE]
    BY <1>4 DEF Publish
  <2>2. FrontendTypeOK'
    BY <1>1, <1>3, <2>1 DEF FrontendIInv, FrontendTypeOK
  <2>3. acked.n <= begun
    BY <1>3 DEF FrontendIInv, PublishInv
  <2>4. PublishInv'
    BY <1>1, <1>3, <2>1, <2>3 DEF FrontendIInv, PublishInv
  <2> QED BY <1>2, <2>2, <2>4 DEF FrontendIInv
<1>5. CASE RenameControl
  <2>1. /\ waiting # NoFile /\ UNCHANGED <<begun, acked>>
        /\ control' = [n |-> waiting.n, mode |-> waiting.mode, body |-> waiting.body]
    BY <1>5 DEF RenameControl
  <2>2. waiting' = [n |-> waiting.n, mode |-> waiting.mode, body |-> waiting.body, renamed |-> TRUE,
                    beside |-> (turn # Resting \/ statusFile.at >= waiting.n)]
    BY <1>5 DEF RenameControl
  <2>3. (turn # Resting \/ statusFile.at >= waiting.n) \in BOOLEAN
    OBVIOUS
  <2>4. PICK b \in BOOLEAN : b = (turn # Resting \/ statusFile.at >= waiting.n)
    BY <2>3
  <2>5. /\ waiting' = [n |-> waiting.n, mode |-> waiting.mode, body |-> waiting.body, renamed |-> TRUE, beside |-> b]
        /\ ~b => turn = Resting /\ ~(statusFile.at >= waiting.n)
    BY <2>2, <2>4
  <2>6. FrontendTypeOK'
    BY <1>1, <1>3, <2>1, <2>5 DEF FrontendIInv, FrontendTypeOK, FileRec
  <2>7. waiting'.n = waiting.n /\ waiting'.beside = b /\ waiting'.mode = waiting.mode /\ waiting'.body = waiting.body
    BY <2>5
  <2>8. ~waiting'.beside => Alone(waiting)' /\ ~Confirms(waiting)'
    BY <1>1, <2>1, <2>5, <2>7 DEF Alone, Confirms
  <2>9. PublishInv'
    BY <1>1, <1>3, <2>1, <2>7, <2>8 DEF FrontendIInv, PublishInv
  <2> QED BY <1>2, <2>6, <2>9 DEF FrontendIInv
<1>6. CASE ReadStatus
  <2>1. /\ waiting # NoFile /\ waiting.renamed /\ waiting' = NoFile /\ UNCHANGED <<begun, control>>
        /\ statusFile.at >= waiting.n /\ statusFile.mode = waiting.mode
    BY <1>6 DEF ReadStatus, FreshAnswer
  <2>2. CASE UNCHANGED acked
    <3>1. FrontendTypeOK'
      BY <1>1, <2>1, <2>2 DEF FrontendIInv, FrontendTypeOK
    <3>2. PublishInv'
      BY <1>1, <2>1, <2>2 DEF FrontendIInv, PublishInv, FrontendTypeOK
    <3> QED BY <1>2, <3>1, <3>2 DEF FrontendIInv
  <2>3. CASE /\ ~statusFile.error /\ statusFile.active = (waiting.mode = "frontend")
             /\ acked' = [n |-> waiting.n, mode |-> waiting.mode, body |-> waiting.body, beside |-> waiting.beside]
    <3>1. FrontendTypeOK'
      BY <1>1, <1>3, <2>1, <2>3 DEF FrontendIInv, FrontendTypeOK
    <3>2. Confirms(waiting)
      BY <2>1, <2>3 DEF Confirms
    <3>3. ~waiting.beside => Alone(waiting) /\ nginx \in {waiting.body, NoBody}
      BY <2>1, <3>2 DEF FrontendIInv, PublishInv
    <3>4. /\ acked'.n = waiting.n /\ acked'.mode = waiting.mode /\ acked'.body = waiting.body
          /\ acked'.beside = waiting.beside
      BY <2>3
    <3>5. ~acked'.beside => Alone(acked)' /\ nginx' \in {acked'.body, NoBody}
      BY <1>1, <2>1, <3>3, <3>4 DEF Alone
    <3>6. acked'.n = begun
      BY <2>1, <3>4 DEF FrontendIInv, PublishInv
    <3>7. PublishInv'
      BY <1>1, <1>3, <2>1, <3>5, <3>6 DEF FrontendIInv, PublishInv
    <3> QED BY <1>2, <3>1, <3>7 DEF FrontendIInv
  <2> QED BY <1>6, <2>2, <2>3 DEF ReadStatus
<1>7. CASE GiveUpWaiting
  <2>1. waiting' = NoFile /\ UNCHANGED <<begun, control, acked>>
    BY <1>7 DEF GiveUpWaiting
  <2>2. FrontendTypeOK'
    BY <1>1, <2>1 DEF FrontendIInv, FrontendTypeOK
  <2>3. Alone(acked)' <=> Alone(acked)
    BY <1>1, <2>1 DEF Alone
  <2>4. PublishInv'
    BY <1>1, <2>1, <2>3 DEF FrontendIInv, PublishInv
  <2> QED BY <1>2, <2>2, <2>4 DEF FrontendIInv
<1> QED BY <1>4, <1>5, <1>6, <1>7

(* Nginx runs what the manager believes or nothing, and since the rename   *)
(* of a publish nothing but its file is worked on.                         *)
THEOREM FrontendInvariant == FrontendSpec => []FrontendIInv
<1>1. FrontendInit => FrontendIInv
  <2> SUFFICES ASSUME FrontendInit PROVE FrontendIInv
    OBVIOUS
  <2>1. FrontendTypeOK
    BY DEF FrontendInit, FrontendTypeOK, NoFile, FileRec
  <2> QED BY <2>1 DEF FrontendInit, FrontendIInv, ChildInv, PublishInv, NoFile, Resting
<1>2. FrontendIInv /\ [FrontendNext]_frontendVars => FrontendIInv'
  <2> SUFFICES ASSUME FrontendIInv, [FrontendNext]_frontendVars PROVE FrontendIInv'
    OBVIOUS
  <2>1. CASE UNCHANGED frontendVars
    BY <2>1 DEF frontendVars, publisherVars, managerVars, FrontendIInv, FrontendTypeOK, ChildInv, PublishInv,
                Alone, Confirms
  <2>2. CASE ManagerSteps
    BY <2>2, ManagerKeeps
  <2>3. CASE \/ Publish("go", NoBody) \/ \E body \in Bodies : Publish("frontend", body)
             \/ RenameControl \/ ReadStatus \/ GiveUpWaiting
    BY <2>3, PublisherKeeps
  <2> QED BY <2>1, <2>2, <2>3 DEF FrontendNext, ManagerSteps
<1> QED BY <1>1, <1>2, PTL DEF FrontendSpec

(* What was acknowledged is what nginx runs, unless a publish was begun    *)
(* since or the manager was at work beside it.                             *)
THEOREM AckedAlwaysServed == FrontendSpec => []AckedIsServed
<1>1. FrontendIInv => AckedIsServed
  BY DEF FrontendIInv, PublishInv, AckedIsServed
<1> QED BY <1>1, FrontendInvariant, PTL

(***************************************************************************)
(* Updates: for any files, packages, concurrent handlers and failures.     *)
(***************************************************************************)

(* The calls in flight are installs and rollbacks.                         *)
LEMMA CallFacts ==
  ASSUME UpdateTypeOK, NEW o \in UpdateCalls
  PROVE  /\ calls[o].kind \in {"none", "install", "rollback"} /\ (calls[o].kind = "none" <=> calls[o] = Quiet)
         /\ calls[o].kind = "install" => calls[o] \in InstallCall
         /\ calls[o].kind = "rollback" => calls[o] \in RollbackCall
<1>1. calls[o] \in {Quiet} \cup InstallCall \cup RollbackCall
  BY DEF UpdateTypeOK
<1> QED BY <1>1 DEF Quiet, InstallCall, RollbackCall

(* What a package installs is a content of the file.                       *)
LEMMA PackFacts ==
  ASSUME NEW p \in VerifiedPackages, NEW f \in DOMAIN p.files
  PROVE  /\ f \in UpdateFiles /\ p.files[f] \in Installable(f)
         /\ p.files[f] \in Content /\ p.files[f] # Missing
<1>1. p \in Packages /\ f \in UpdateFiles /\ p.files[f] # Missing
  BY UpdateAssumption DEF VerifiedPackages
<1>2. p.files[f] \in Installable(f)
  BY DEF Installable
<1> QED BY <1>1, <1>2 DEF Content

(* One call goes on or ends, while the others stay where they are.         *)
LEMMA CallStep ==
  ASSUME UpdateIInv, UpdateTypeOK', NEW o \in UpdateCalls, calls[o] # Quiet,
         \A n \in UpdateCalls \ {o} : calls'[n] = calls[n],
         calls'[o] # Quiet /\ calls'[o].alone => calls[o].alone,
         (calls[o].kind = "install" => InstallInv(calls[o]))',
         calls'[o].kind = "rollback" => /\ \A f \in calls'[o].todo : saved'[f] # Missing
                                        /\ undo'.files # {} => calls'[o].alone,
         undo'.files \subseteq undo.files \/ calls[o].alone,
         \A f \in UpdateFiles : saved'[f] = Missing => saved[f] = Missing,
         \A f \in UpdateFiles : disk'[f] = Missing => disk[f] = Missing
  PROVE  CallsInv'
<1>1. \A n \in UpdateCalls \ {o} : calls[n] # Quiet => ~calls[n].alone /\ ~calls[o].alone
  BY DEF UpdateIInv, CallsInv
<1>2. ASSUME NEW n \in UpdateCalls \ {o}, calls[n].kind = "install"
      PROVE  InstallInv(calls[n])'
  <2>1. InstallInv(calls[n]) /\ calls[n] # Quiet /\ calls'[n] = calls[n]
    BY <1>2 DEF UpdateIInv, CallsInv, Quiet
  <2>2. undo'.files = {} /\ ~calls[n].alone
    BY <1>1, <2>1 DEF InstallInv
  <2>3. calls[n].step # "next" => calls[n].file \in UpdateFiles
    <3>1. calls[n].pack \in VerifiedPackages
      BY <1>2, CallFacts DEF UpdateIInv, InstallCall
    <3> QED BY <2>1, <3>1, PackFacts DEF InstallInv
  <2> QED BY <2>1, <2>2, <2>3 DEF InstallInv
<1>3. ASSUME NEW n \in UpdateCalls \ {o}, calls[n].kind = "rollback"
      PROVE  (\A f \in calls'[n].todo : saved'[f] # Missing) /\ (undo'.files # {} => calls'[n].alone)
  <2>1. calls[n] # Quiet /\ calls'[n] = calls[n] /\ calls[n].todo \subseteq UpdateFiles
    BY <1>3, CallFacts DEF Quiet, UpdateIInv, RollbackCall
  <2>2. undo'.files \subseteq undo.files
    BY <1>1, <2>1
  <2> QED BY <1>3, <2>1, <2>2 DEF UpdateIInv, CallsInv
<1>4. \A m, n \in UpdateCalls : calls'[m] # Quiet /\ calls'[n] # Quiet /\ calls'[n].alone => m = n
  BY <1>1 DEF UpdateIInv, CallsInv
<1>5. \A n \in UpdateCalls : (calls[n].kind = "install" => InstallInv(calls[n]))'
  BY <1>2
<1> QED BY <1>3, <1>4, <1>5 DEF CallsInv

(* Going over to the next file of an install.                              *)
LEMMA NextFileKeeps ==
  ASSUME UpdateIInv, NEW o \in UpdateCalls, NextFile(o)
  PROVE  UpdateIInv'
<1> DEFINE c == calls[o]
<1>1. /\ c.kind = "install" /\ c.step = "next" /\ c \in InstallCall /\ c # Quiet /\ InstallInv(c)
      /\ UNCHANGED <<disk, saved, staged, executing, alive, undo>>
  BY CallFacts DEF NextFile, UpdateIInv, CallsInv, Quiet
<1>2. PICK f \in c.todo :
        calls' = [calls EXCEPT ![o] = [kind |-> "install", pack |-> c.pack, todo |-> c.todo \ {f}, file |-> f,
                                      step |-> IF disk[f] = Missing THEN "write" ELSE "backup",
                                      alone |-> c.alone, before |-> c.before]]
  BY DEF NextFile
<1>3. /\ calls'[o] = [kind |-> "install", pack |-> c.pack, todo |-> c.todo \ {f}, file |-> f,
                      step |-> IF disk[f] = Missing THEN "write" ELSE "backup", alone |-> c.alone, before |-> c.before]
      /\ \A n \in UpdateCalls \ {o} : calls'[n] = calls[n]
  BY <1>2 DEF UpdateIInv, UpdateTypeOK
<1>4. calls'[o] \in InstallCall
  BY <1>1, <1>3 DEF InstallCall
<1>5. UpdateTypeOK'
  BY <1>1, <1>2, <1>4, <1>3 DEF UpdateIInv, UpdateTypeOK
<1>6. c.alone => KeepsBefore(calls[o])'
  <2> SUFFICES ASSUME c.alone, NEW g \in DOMAIN c.pack.files
               PROVE  IF g \in c.todo \ {f} THEN disk[g] = c.before[g]
                      ELSE /\ g = f => disk[g] = c.before[g]
                           /\ (g = f /\ disk[f] # Missing) \/ c.before[g] = Missing \/ saved[g] = c.before[g]
    BY <1>1, <1>3 DEF KeepsBefore
  <2>1. KeepsBefore(c)
    BY <1>1 DEF InstallInv
  <2> QED BY <1>1, <1>2, <2>1 DEF KeepsBefore
<1>7. InstallInv(calls[o])'
  BY <1>1, <1>2, <1>3, <1>6 DEF InstallInv
<1>8. CallsInv'
  BY <1>1, <1>3, <1>5, <1>7, CallStep
<1> QED BY <1>1, <1>5, <1>8 DEF UpdateIInv, OriginInv, UndoInv

(* A file that is about to be replaced is in the backup directory.         *)
LEMMA BackUpKeeps ==
  ASSUME UpdateIInv, NEW o \in UpdateCalls, BackUp(o)
  PROVE  UpdateIInv'
<1> DEFINE c == calls[o]
<1>1. /\ c.kind = "install" /\ c.step = "backup" /\ c \in InstallCall /\ c # Quiet /\ InstallInv(c)
      /\ UNCHANGED <<disk, staged, executing, alive, undo>>
  BY CallFacts DEF BackUp, UpdateIInv, CallsInv, Quiet
<1>2. c.file \in DOMAIN c.pack.files \ c.todo /\ c.file \in UpdateFiles /\ disk[c.file] # Missing
  BY <1>1, PackFacts DEF InstallInv, InstallCall
<1>3. /\ calls' = [calls EXCEPT ![o].step = "write"] /\ saved' = [saved EXCEPT ![c.file] = disk[c.file]]
  BY DEF BackUp, Replaced
<1>4. /\ calls'[o] = [c EXCEPT !.step = "write"] /\ \A n \in UpdateCalls \ {o} : calls'[n] = calls[n]
      /\ saved'[c.file] = disk[c.file] /\ \A g \in UpdateFiles \ {c.file} : saved'[g] = saved[g]
  BY <1>2, <1>3 DEF UpdateIInv, UpdateTypeOK
<1>5. /\ calls'[o] \in InstallCall /\ calls'[o].step = "write" /\ calls'[o].pack = c.pack /\ calls'[o].todo = c.todo
      /\ calls'[o].file = c.file /\ calls'[o].alone = c.alone /\ calls'[o].before = c.before /\ calls'[o].kind = "install"
  BY <1>1, <1>4 DEF InstallCall
<1>6. UpdateTypeOK'
  BY <1>1, <1>2, <1>3, <1>5, <1>4 DEF UpdateIInv, UpdateTypeOK
<1>7. c.alone => KeepsBefore(calls[o])'
  <2> SUFFICES ASSUME c.alone, NEW g \in DOMAIN c.pack.files
               PROVE  IF g \in c.todo THEN disk[g] = c.before[g]
                      ELSE /\ g = c.file => disk[g] = c.before[g]
                           /\ c.before[g] = Missing \/ saved'[g] = c.before[g]
    BY <1>1, <1>5 DEF KeepsBefore
  <2>1. KeepsBefore(c) /\ g \in UpdateFiles
    BY <1>1, PackFacts DEF InstallInv, InstallCall
  <2> QED BY <1>1, <1>2, <1>4, <2>1 DEF KeepsBefore
<1>8. InstallInv(calls[o])'
  BY <1>1, <1>2, <1>5, <1>7 DEF InstallInv
<1>9. CallsInv'
  BY <1>1, <1>2, <1>4, <1>5, <1>6, <1>8, CallStep
<1>10. OriginInv'
  BY <1>1, <1>2, <1>4 DEF UpdateIInv, OriginInv
<1>11. UndoInv'
  BY <1>1 DEF InstallInv, UndoInv
<1> QED BY <1>6, <1>9, <1>10, <1>11 DEF UpdateIInv

(* The new file is in place.                                               *)
LEMMA WriteKeeps ==
  ASSUME UpdateIInv, NEW o \in UpdateCalls, AtomicWrite(o)
  PROVE  UpdateIInv'
<1> DEFINE c == calls[o]
           new == c.pack.files[c.file]
<1>1. /\ c.kind = "install" /\ c.step = "write" /\ c \in InstallCall /\ c # Quiet /\ InstallInv(c)
      /\ UNCHANGED <<saved, staged, alive, undo>> /\ executing' = (executing /\ c.file # Program)
  BY CallFacts DEF AtomicWrite, UpdateIInv, CallsInv, Quiet
<1>2. /\ c.file \in DOMAIN c.pack.files \ c.todo /\ c.file \in UpdateFiles
      /\ new \in Installable(c.file) /\ new \in Content /\ new # Missing
  BY <1>1, PackFacts DEF InstallInv, InstallCall
<1>3. /\ calls' = [calls EXCEPT ![o].step = "next"] /\ disk' = [disk EXCEPT ![c.file] = new]
  BY DEF AtomicWrite
<1>4. /\ calls'[o] = [c EXCEPT !.step = "next"] /\ \A n \in UpdateCalls \ {o} : calls'[n] = calls[n]
      /\ disk'[c.file] = new /\ \A g \in UpdateFiles \ {c.file} : disk'[g] = disk[g]
  BY <1>2, <1>3 DEF UpdateIInv, UpdateTypeOK
<1>5. /\ calls'[o] \in InstallCall /\ calls'[o].step = "next" /\ calls'[o].pack = c.pack /\ calls'[o].todo = c.todo
      /\ calls'[o].file = c.file /\ calls'[o].alone = c.alone /\ calls'[o].before = c.before /\ calls'[o].kind = "install"
  BY <1>1, <1>4 DEF InstallCall
<1>6. UpdateTypeOK'
  BY <1>1, <1>2, <1>3, <1>5, <1>4 DEF UpdateIInv, UpdateTypeOK
<1>7. c.alone => KeepsBefore(calls[o])'
  <2> SUFFICES ASSUME c.alone, NEW g \in DOMAIN c.pack.files
               PROVE  IF g \in c.todo THEN disk'[g] = c.before[g] ELSE c.before[g] = Missing \/ saved[g] = c.before[g]
    BY <1>1, <1>5 DEF KeepsBefore
  <2>1. KeepsBefore(c) /\ g \in UpdateFiles
    BY <1>1, PackFacts DEF InstallInv, InstallCall
  <2> QED BY <1>1, <1>2, <1>4, <2>1 DEF KeepsBefore
<1>8. InstallInv(calls[o])'
  BY <1>1, <1>5, <1>7 DEF InstallInv
<1>9. CallsInv'
  BY <1>1, <1>2, <1>4, <1>5, <1>6, <1>8, CallStep
<1>10. OriginInv'
  BY <1>1, <1>2, <1>4 DEF UpdateIInv, OriginInv
<1>11. UndoInv'
  BY <1>1 DEF InstallInv, UndoInv
<1> QED BY <1>6, <1>9, <1>10, <1>11 DEF UpdateIInv

(* An install ends: when it ran alone, what it replaced can be undone.     *)
LEMMA InstalledKeeps ==
  ASSUME UpdateIInv, NEW o \in UpdateCalls, Installed(o)
  PROVE  UpdateIInv'
<1> DEFINE c == calls[o]
<1>1. /\ c.kind = "install" /\ c.step = "next" /\ c.todo = {} /\ c \in InstallCall /\ c # Quiet /\ InstallInv(c)
      /\ UNCHANGED <<disk, saved, executing, alive>> /\ staged' = Missing
  BY CallFacts DEF Installed, UpdateIInv, CallsInv, Quiet
<1>2. /\ calls' = [calls EXCEPT ![o] = Quiet]
      /\ calls'[o] = Quiet /\ \A n \in UpdateCalls \ {o} : calls'[n] = calls[n]
  BY DEF Installed, UpdateIInv, UpdateTypeOK
<1> DEFINE now == [files |-> {f \in DOMAIN c.pack.files : c.before[f] # Missing}, before |-> c.before, back |-> {}]
<1>3. IF c.alone THEN undo' = now ELSE undo' = undo
  BY DEF Installed
<1>4. now \in [files : SUBSET UpdateFiles, before : [UpdateFiles -> Content], back : SUBSET UpdateFiles]
  <2>1. c.before \in [UpdateFiles -> Content] /\ DOMAIN c.pack.files \subseteq UpdateFiles
    BY <1>1, PackFacts DEF InstallCall
  <2> QED BY <2>1
<1>5. UpdateTypeOK'
  BY <1>1, <1>2, <1>3, <1>4 DEF UpdateIInv, UpdateTypeOK
<1>6. UndoInv'
  <2>1. CASE c.alone
    <3>1. KeepsBefore(c)
      BY <1>1, <2>1 DEF InstallInv
    <3>2. \A f \in DOMAIN c.pack.files : c.before[f] = Missing \/ saved[f] = c.before[f]
      BY <1>1, <3>1 DEF KeepsBefore
    <3>3. undo'.files = {f \in DOMAIN c.pack.files : c.before[f] # Missing} /\ undo'.before = c.before /\ undo'.back = {}
      BY <1>3, <2>1
    <3> QED BY <1>1, <3>2, <3>3 DEF UndoInv
  <2>2. CASE ~c.alone
    BY <1>1, <1>3, <2>2 DEF UpdateIInv, UndoInv
  <2> QED BY <2>1, <2>2
<1>7. calls'[o].kind = "none" /\ (calls[o].kind = "install" => InstallInv(calls[o]))'
  BY <1>2 DEF Quiet
<1>8. undo'.files \subseteq undo.files \/ c.alone
  BY <1>3
<1>9. CallsInv'
  BY <1>1, <1>2, <1>5, <1>7, <1>8, CallStep
<1> QED BY <1>1, <1>5, <1>6, <1>9 DEF UpdateIInv, OriginInv

(* A call in flight once another has begun: as it was, but not alone.      *)
Joined(n) ==
  IF calls[n] = Quiet THEN calls'[n] = Quiet
  ELSE /\ calls'[n] # Quiet /\ calls'[n].alone = FALSE /\ calls'[n].kind = calls[n].kind
       /\ calls'[n].todo = calls[n].todo
       /\ calls[n].kind = "install" =>
            calls'[n].pack = calls[n].pack /\ calls'[n].step = calls[n].step /\ calls'[n].file = calls[n].file

(* A call begins, and those in flight are joined by it.                    *)
LEMMA BeginFacts ==
  ASSUME UpdateTypeOK, NEW o \in UpdateCalls, NEW call, Begin(o, call), call \in InstallCall \cup RollbackCall
  PROVE  /\ calls[o] = Quiet /\ calls'[o] = call /\ \A n \in UpdateCalls \ {o} : Joined(n)
         /\ calls' \in [UpdateCalls -> {Quiet} \cup InstallCall \cup RollbackCall]
<1>1. /\ calls[o] = Quiet
      /\ calls' = [n \in UpdateCalls |-> IF n = o THEN call
                    ELSE IF calls[n] = Quiet THEN Quiet ELSE [calls[n] EXCEPT !.alone = FALSE]]
  BY DEF Begin
<1>2. ASSUME NEW n \in UpdateCalls, calls[n] # Quiet, NEW d, d = [calls[n] EXCEPT !.alone = FALSE]
      PROVE  /\ d \in InstallCall \cup RollbackCall /\ d # Quiet /\ d.alone = FALSE /\ d.kind = calls[n].kind
             /\ d.todo = calls[n].todo
             /\ calls[n].kind = "install" =>
                  d.pack = calls[n].pack /\ d.step = calls[n].step /\ d.file = calls[n].file
  <2>1. CASE calls[n] \in InstallCall
    BY <1>2, <2>1 DEF InstallCall, Quiet
  <2>2. CASE calls[n] \in RollbackCall
    BY <1>2, <2>2 DEF RollbackCall, Quiet
  <2> QED BY <1>2, <2>1, <2>2 DEF UpdateTypeOK
<1>3. calls'[o] = call
  BY <1>1
<1>4. \A n \in UpdateCalls \ {o} : IF calls[n] = Quiet THEN calls'[n] = Quiet
                                   ELSE calls'[n] = [calls[n] EXCEPT !.alone = FALSE]
  BY <1>1
<1>5. \A n \in UpdateCalls : calls'[n] \in {Quiet} \cup InstallCall \cup RollbackCall
  BY <1>2, <1>3, <1>4
<1>6. calls' = [n \in UpdateCalls |-> calls'[n]]
  BY <1>1
<1>7. calls' \in [UpdateCalls -> {Quiet} \cup InstallCall \cup RollbackCall]
  BY <1>5, <1>6
<1>8. \A n \in UpdateCalls \ {o} : Joined(n)
  <2> SUFFICES ASSUME NEW n \in UpdateCalls \ {o}, calls[n] # Quiet PROVE Joined(n)
    BY <1>4 DEF Joined
  <2>1. calls'[n] = [calls[n] EXCEPT !.alone = FALSE]
    BY <1>4
  <2> QED BY <1>2, <2>1 DEF Joined
<1> QED BY <1>1, <1>3, <1>7, <1>8

(* The invariant of calls after one began.                                 *)
LEMMA BeginKeeps ==
  ASSUME UpdateIInv, NEW o \in UpdateCalls, NEW call, Begin(o, call), call \in InstallCall \cup RollbackCall,
         call.alone = (Busy = {}), UNCHANGED <<disk, saved>>,
         undo' = NoUndo \/ (undo' = undo /\ Busy = {}),
         (calls[o].kind = "install" => InstallInv(calls[o]))',
         calls'[o].kind = "rollback" => /\ \A f \in calls'[o].todo : saved'[f] # Missing
                                        /\ undo'.files # {} => calls'[o].alone
  PROVE  CallsInv'
<1>1. UpdateTypeOK
  BY DEF UpdateIInv
<1>7. calls'[o] = call /\ \A n \in UpdateCalls \ {o} : Joined(n)
  BY <1>1, BeginFacts
<1>2. ASSUME NEW n \in UpdateCalls \ {o}, calls[n] # Quiet PROVE undo'.files = {} /\ Busy # {}
  BY <1>2 DEF Busy, NoUndo
<1>3. ASSUME NEW n \in UpdateCalls \ {o}, calls'[n].kind = "install" PROVE InstallInv(calls[n])'
  <2>1. calls[n] # Quiet /\ calls[n].kind = "install"
    BY <1>3, <1>7 DEF Quiet, Joined
  <2>2. InstallInv(calls[n]) /\ undo'.files = {}
    BY <1>2, <2>1 DEF UpdateIInv, CallsInv
  <2>3. /\ calls'[n].alone = FALSE /\ calls'[n].todo = calls[n].todo
        /\ calls'[n].pack = calls[n].pack /\ calls'[n].step = calls[n].step /\ calls'[n].file = calls[n].file
    BY <1>7, <2>1 DEF Joined
  <2> QED BY <2>2, <2>3 DEF InstallInv
<1>4. ASSUME NEW n \in UpdateCalls \ {o}, calls'[n].kind = "rollback"
      PROVE  (\A f \in calls'[n].todo : saved'[f] # Missing) /\ (undo'.files # {} => calls'[n].alone)
  <2>1. calls[n] # Quiet /\ calls[n].kind = "rollback" /\ calls'[n].todo = calls[n].todo
    BY <1>4, <1>7 DEF Quiet, Joined
  <2>2. undo'.files = {}
    BY <1>2, <2>1
  <2> QED BY <2>1, <2>2 DEF UpdateIInv, CallsInv
<1>5. ASSUME NEW m \in UpdateCalls, NEW n \in UpdateCalls, calls'[m] # Quiet, calls'[n] # Quiet, calls'[n].alone
      PROVE  m = n
  <2>1. n = o
    BY <1>5, <1>7 DEF Joined
  <2>2. Busy = {}
    BY <1>5, <1>7, <2>1
  <2> QED BY <1>5, <1>7, <2>1, <2>2 DEF Busy, Joined
<1>6. \A n \in UpdateCalls : (calls[n].kind = "install" => InstallInv(calls[n]))'
  BY <1>3
<1> QED BY <1>4, <1>5, <1>6 DEF CallsInv

(* An install begins.                                                      *)
LEMMA InstallKeeps ==
  ASSUME UpdateIInv, NEW o \in UpdateCalls, HandleUpdateInstall(o)
  PROVE  UpdateIInv'
<1>1. /\ staged \in VerifiedPackages /\ undo' = NoUndo /\ UNCHANGED <<disk, saved, staged, executing, alive>>
  BY DEF HandleUpdateInstall, UpdateIInv, UpdateTypeOK
<1>2. PICK b \in BOOLEAN : b = (Busy = {})
  OBVIOUS
<1> DEFINE call == [kind |-> "install", pack |-> staged, todo |-> DOMAIN staged.files, file |-> Missing,
                    step |-> "next", alone |-> b, before |-> disk]
<1>3. Begin(o, call)
  BY <1>2 DEF HandleUpdateInstall
<1>4. call \in InstallCall
  BY <1>1, PackFacts DEF InstallCall, UpdateIInv, UpdateTypeOK
<1>5. /\ call.alone = b /\ call.kind = "install" /\ call.todo = DOMAIN staged.files /\ call.pack = staged
      /\ call.step = "next" /\ call.before = disk
  OBVIOUS
<1> HIDE DEF call
<1>6. calls'[o] = call /\ calls' \in [UpdateCalls -> {Quiet} \cup InstallCall \cup RollbackCall]
  BY <1>3, <1>4, BeginFacts DEF UpdateIInv
<1>7. UpdateTypeOK'
  BY <1>1, <1>6 DEF UpdateIInv, UpdateTypeOK
<1>8. KeepsBefore(calls[o])'
  BY <1>1, <1>5, <1>6 DEF KeepsBefore
<1>9. InstallInv(calls[o])'
  BY <1>1, <1>5, <1>6, <1>8 DEF InstallInv, NoUndo
<1>10. CallsInv'
  BY <1>1, <1>2, <1>3, <1>4, <1>5, <1>6, <1>9, BeginKeeps
<1> QED BY <1>1, <1>7, <1>10 DEF UpdateIInv, OriginInv, UndoInv, NoUndo

(* A rollback begins.                                                      *)
LEMMA RollbackKeeps ==
  ASSUME UpdateIInv, NEW o \in UpdateCalls, HandleUpdateRollback(o)
  PROVE  UpdateIInv'
<1>1. /\ UNCHANGED <<disk, saved, staged, executing, alive>>
      /\ undo' = IF Busy = {} THEN undo ELSE NoUndo
  BY DEF HandleUpdateRollback
<1>2. PICK b \in BOOLEAN : b = (Busy = {})
  OBVIOUS
<1> DEFINE call == [kind |-> "rollback", todo |-> {f \in UpdateFiles : saved[f] # Missing}, alone |-> b]
<1>3. Begin(o, call)
  BY <1>2 DEF HandleUpdateRollback
<1>4. call \in RollbackCall
  BY DEF RollbackCall
<1>5. call.alone = b /\ call.kind = "rollback" /\ call.todo = {f \in UpdateFiles : saved[f] # Missing}
  OBVIOUS
<1> HIDE DEF call
<1>6. calls'[o] = call /\ calls' \in [UpdateCalls -> {Quiet} \cup InstallCall \cup RollbackCall]
  BY <1>3, <1>4, BeginFacts DEF UpdateIInv
<1>7. UpdateTypeOK'
  BY <1>1, <1>6 DEF UpdateIInv, UpdateTypeOK
<1>8. /\ (calls[o].kind = "install" => InstallInv(calls[o]))'
      /\ \A f \in calls'[o].todo : saved'[f] # Missing
      /\ undo'.files # {} => calls'[o].alone
  BY <1>1, <1>2, <1>5, <1>6 DEF NoUndo
<1>9. CallsInv'
  BY <1>1, <1>2, <1>3, <1>4, <1>5, <1>8, BeginKeeps
<1> QED BY <1>1, <1>7, <1>9 DEF UpdateIInv, OriginInv, UndoInv, NoUndo

(* A file is copied back, or a rollback ends.                              *)
LEMMA RestoreKeeps ==
  ASSUME UpdateIInv, NEW o \in UpdateCalls, RestoreFile(o) \/ RollbackEnds(o)
  PROVE  UpdateIInv'
<1> DEFINE c == calls[o]
<1>1. /\ c.kind = "rollback" /\ c \in RollbackCall /\ c # Quiet /\ UNCHANGED <<saved, staged, executing, alive>>
      /\ \A f \in c.todo : saved[f] # Missing /\ f \in UpdateFiles
      /\ undo.files # {} => c.alone
  BY CallFacts DEF RestoreFile, RollbackEnds, UpdateIInv, CallsInv, Quiet, RollbackCall
<1>2. CASE RollbackEnds(o)
  <2>1. calls' = [calls EXCEPT ![o] = Quiet] /\ UNCHANGED <<disk, undo>>
    BY <1>2 DEF RollbackEnds
  <2>2. calls'[o] = Quiet /\ \A n \in UpdateCalls \ {o} : calls'[n] = calls[n]
    BY <2>1 DEF UpdateIInv, UpdateTypeOK
  <2>3. UpdateTypeOK'
    BY <1>1, <2>1 DEF UpdateIInv, UpdateTypeOK
  <2>4. calls'[o].kind = "none" /\ (calls[o].kind = "install" => InstallInv(calls[o]))'
    BY <2>2 DEF Quiet
  <2>5. CallsInv'
    BY <1>1, <2>1, <2>2, <2>3, <2>4, CallStep
  <2> QED BY <1>1, <2>1, <2>3, <2>5 DEF UpdateIInv, OriginInv, UndoInv
<1>3. CASE RestoreFile(o)
  <2>1. PICK f \in c.todo :
          /\ disk' = [disk EXCEPT ![f] = saved[f]]
          /\ undo' = IF c.alone /\ f \in undo.files THEN [undo EXCEPT !.back = @ \cup {f}] ELSE undo
          /\ calls' = [calls EXCEPT ![o].todo = @ \ {f}]
    BY <1>3 DEF RestoreFile
  <2>2. /\ calls'[o] = [c EXCEPT !.todo = c.todo \ {f}] /\ \A n \in UpdateCalls \ {o} : calls'[n] = calls[n]
        /\ disk'[f] = saved[f] /\ \A g \in UpdateFiles \ {f} : disk'[g] = disk[g]
    BY <1>1, <2>1 DEF UpdateIInv, UpdateTypeOK
  <2>3. /\ calls'[o] \in RollbackCall /\ calls'[o].kind = "rollback" /\ calls'[o].todo = c.todo \ {f}
        /\ calls'[o].alone = c.alone
    BY <1>1, <2>2 DEF RollbackCall
  <2>4. /\ undo'.files = undo.files /\ undo'.before = undo.before
        /\ undo'.back \subseteq undo.back \cup {f}
        /\ undo' \in {NoUndo} \cup [files : SUBSET UpdateFiles, before : [UpdateFiles -> Content], back : SUBSET UpdateFiles]
    <3>1. CASE c.alone /\ f \in undo.files
      <4>1. undo \in [files : SUBSET UpdateFiles, before : [UpdateFiles -> Content], back : SUBSET UpdateFiles]
        BY <3>1 DEF NoUndo, UpdateIInv, UpdateTypeOK
      <4>2. undo' = [undo EXCEPT !.back = undo.back \cup {f}]
        BY <2>1, <3>1
      <4> QED BY <1>1, <4>1, <4>2
    <3>2. CASE ~(c.alone /\ f \in undo.files)
      BY <2>1, <3>2 DEF UpdateIInv, UpdateTypeOK
    <3> QED BY <3>1, <3>2
  <2>5. saved[f] \in Content
    BY <1>1 DEF UpdateIInv, UpdateTypeOK
  <2>6. UpdateTypeOK'
    BY <1>1, <2>1, <2>2, <2>3, <2>4, <2>5 DEF UpdateIInv, UpdateTypeOK
  <2>7. OriginInv'
    BY <1>1, <2>2 DEF UpdateIInv, OriginInv
  <2>8. UndoInv'
    BY <1>1, <2>2, <2>4 DEF UpdateIInv, UndoInv, UpdateTypeOK, NoUndo
  <2>9. (calls[o].kind = "install" => InstallInv(calls[o]))'
    BY <2>3
  <2>11. \A g \in UpdateFiles : (disk'[g] = Missing => disk[g] = Missing) /\ (saved'[g] = Missing => saved[g] = Missing)
    BY <1>1, <2>2
  <2>12. (\A g \in calls'[o].todo : saved'[g] # Missing) /\ (undo'.files # {} => calls'[o].alone)
    BY <1>1, <2>3, <2>4
  <2>10. CallsInv'
    BY <1>1, <2>2, <2>3, <2>4, <2>6, <2>9, <2>11, <2>12, CallStep
  <2> QED BY <2>6, <2>7, <2>8, <2>10 DEF UpdateIInv
<1> QED BY <1>2, <1>3

(* A write that is cut short leaves the undo, or ends it.                  *)
LEMMA CutFacts ==
  ASSUME UpdateIInv, NEW o \in UpdateCalls, calls[o] # Quiet, Cut(o),
         undo' = IF disk' = disk THEN undo ELSE NoUndo
  PROVE  /\ disk' \in [UpdateFiles -> Content] /\ saved' \in [UpdateFiles -> Content]
         /\ \A f \in UpdateFiles : saved'[f] = Missing => saved[f] = Missing
         /\ \A f \in UpdateFiles : disk'[f] = Missing => disk[f] = Missing
         /\ undo' \in {undo, NoUndo} /\ undo'.files \subseteq undo.files
         /\ OriginInv' /\ UndoInv'
<1>1. Torn \in Content /\ Torn # Missing
  BY UpdateAssumption DEF Content
<1>2. undo' \in {undo, NoUndo} /\ undo'.files \subseteq undo.files
  BY DEF NoUndo
<1>3. CASE UNCHANGED <<disk, saved>>
  BY <1>2, <1>3 DEF UpdateIInv, UpdateTypeOK, OriginInv, UndoInv, NoUndo
<1>4. CASE /\ calls[o].kind = "install" /\ calls[o].step = "backup"
           /\ saved' = [saved EXCEPT ![calls[o].file] = Torn] /\ UNCHANGED disk
  <2>1. undo.files = {}
    BY <1>4 DEF UpdateIInv, CallsInv, InstallInv
  <2>2. saved' \in [UpdateFiles -> Content] /\ \A f \in UpdateFiles : saved'[f] \in {saved[f], Torn}
    BY <1>1, <1>4 DEF UpdateIInv, UpdateTypeOK
  <2>3. OriginInv'
    BY <1>4, <2>2 DEF UpdateIInv, OriginInv
  <2>4. UndoInv'
    BY <1>2, <2>1 DEF UndoInv
  <2> QED BY <1>1, <1>2, <1>4, <2>2, <2>3, <2>4 DEF UpdateIInv, UpdateTypeOK
<1>5. CASE /\ calls[o].kind = "rollback" /\ UNCHANGED saved
           /\ \E f \in calls[o].todo : ~TextBusy(f) /\ disk' = [disk EXCEPT ![f] = Torn]
  <2>1. PICK f \in calls[o].todo : disk' = [disk EXCEPT ![f] = Torn]
    BY <1>5
  <2>2. disk' \in [UpdateFiles -> Content] /\ \A g \in UpdateFiles : disk'[g] \in {disk[g], Torn}
    BY <1>1, <2>1 DEF UpdateIInv, UpdateTypeOK
  <2>3. OriginInv'
    BY <1>1, <1>5, <2>2 DEF UpdateIInv, OriginInv
  <2>4. UndoInv'
    BY <1>5 DEF UpdateIInv, UndoInv, NoUndo
  <2> QED BY <1>1, <1>2, <1>5, <2>2, <2>3, <2>4 DEF UpdateIInv, UpdateTypeOK
<1> QED BY <1>3, <1>4, <1>5 DEF Cut

(* A handler whose write fails returns.                                    *)
LEMMA FailKeeps ==
  ASSUME UpdateIInv, NEW o \in UpdateCalls, WriteFails(o)
  PROVE  UpdateIInv'
<1>1. /\ calls[o] # Quiet /\ Cut(o) /\ undo' = (IF disk' = disk THEN undo ELSE NoUndo)
      /\ calls' = [calls EXCEPT ![o] = Quiet] /\ UNCHANGED <<staged, executing, alive>>
  BY DEF WriteFails
<1>2. calls'[o] = Quiet /\ \A n \in UpdateCalls \ {o} : calls'[n] = calls[n]
  BY <1>1 DEF UpdateIInv, UpdateTypeOK
<1>3. UpdateTypeOK'
  BY <1>1, CutFacts DEF UpdateIInv, UpdateTypeOK
<1>4. calls'[o].kind = "none" /\ (calls[o].kind = "install" => InstallInv(calls[o]))'
  BY <1>2 DEF Quiet
<1>5. CallsInv'
  BY <1>1, <1>2, <1>3, <1>4, CutFacts, CallStep
<1> QED BY <1>1, <1>3, <1>5, CutFacts DEF UpdateIInv

(* The process ends or is replaced, and every call with it.                *)
LEMMA DeathKeeps ==
  ASSUME UpdateIInv, ProcessDies \/ HandleUpdateRestart
  PROVE  UpdateIInv'
<1>1. /\ IF Busy = {} THEN UNCHANGED <<disk, saved>> ELSE \E o \in Busy : Cut(o)
      /\ undo' = (IF disk' = disk THEN undo ELSE NoUndo)
      /\ calls' = [o \in UpdateCalls |-> Quiet] /\ staged' = Missing
  BY DEF ProcessDies, HandleUpdateRestart
<1>2. executing' \in BOOLEAN /\ alive' \in BOOLEAN
  BY DEF ProcessDies, HandleUpdateRestart, UpdateIInv, UpdateTypeOK
<1>3. /\ disk' \in [UpdateFiles -> Content] /\ saved' \in [UpdateFiles -> Content]
      /\ undo' \in {undo, NoUndo} /\ OriginInv' /\ UndoInv'
  <2>1. CASE Busy = {}
    BY <1>1, <2>1 DEF UpdateIInv, UpdateTypeOK, OriginInv, UndoInv
  <2>2. CASE Busy # {}
    BY <1>1, <2>2, CutFacts DEF Busy
  <2> QED BY <2>1, <2>2
<1>4. UpdateTypeOK'
  BY <1>1, <1>2, <1>3 DEF UpdateIInv, UpdateTypeOK
<1>5. \A o \in UpdateCalls : calls'[o] = Quiet
  BY <1>1
<1>6. \A o \in UpdateCalls : calls'[o].kind = "none"
  BY <1>5 DEF Quiet
<1>7. CallsInv'
  BY <1>5, <1>6 DEF CallsInv
<1> QED BY <1>3, <1>4, <1>7 DEF UpdateIInv

(* The steps that leave files and calls alone.                             *)
LEMMA OtherKeeps ==
  ASSUME UpdateIInv, (\E p \in Packages : HandleUpdateStage(p)) \/ HandleUpdateDiscard \/ StartsAgain \/ UNCHANGED updateVars
  PROVE  UpdateIInv'
<1>1. UNCHANGED <<disk, saved, calls, undo>>
  BY DEF HandleUpdateStage, HandleUpdateDiscard, StartsAgain, updateVars
<1>2. staged' \in {Missing} \cup VerifiedPackages /\ executing' \in BOOLEAN /\ alive' \in BOOLEAN
  BY DEF HandleUpdateStage, HandleUpdateDiscard, StartsAgain, updateVars, UpdateIInv, UpdateTypeOK, VerifiedPackages
<1>3. UpdateTypeOK'
  BY <1>1, <1>2 DEF UpdateIInv, UpdateTypeOK
<1> QED BY <1>1, <1>3 DEF UpdateIInv, OriginInv, CallsInv, UndoInv, InstallInv, KeepsBefore

(* Where contents come from, how far each install is, and that nothing but *)
(* a rollback that runs alone touches what can be undone.                  *)
THEOREM UpdateInvariant == UpdateSpec => []UpdateIInv
<1>1. UpdateInit => UpdateIInv
  <2> SUFFICES ASSUME UpdateInit PROVE UpdateIInv
    OBVIOUS
  <2>1. /\ disk = FirstContent /\ saved = [f \in UpdateFiles |-> Missing] /\ staged = Missing
        /\ calls = [o \in UpdateCalls |-> Quiet] /\ executing = TRUE /\ alive = TRUE /\ undo = NoUndo
    BY DEF UpdateInit
  <2>2. FirstContent \in [UpdateFiles -> Content] /\ Missing \in Content
    <3>1. \A f \in UpdateFiles : FirstContent[f] \in Content
      BY DEF Content
    <3> QED BY <3>1, UpdateAssumption DEF Content
  <2>3. UpdateTypeOK
    BY <2>1, <2>2 DEF UpdateTypeOK
  <2>4. \A o \in UpdateCalls : calls[o] = Quiet /\ calls[o].kind = "none"
    BY <2>1 DEF Quiet
  <2>5. CallsInv
    BY <2>4 DEF CallsInv
  <2> QED BY <2>1, <2>3, <2>5 DEF UpdateIInv, OriginInv, UndoInv, NoUndo
<1>2. UpdateIInv /\ [UpdateNext]_updateVars => UpdateIInv'
  BY NextFileKeeps, BackUpKeeps, WriteKeeps, InstalledKeeps, InstallKeeps, RollbackKeeps, RestoreKeeps, FailKeeps,
     DeathKeeps, OtherKeeps DEF UpdateNext
<1> QED BY <1>1, <1>2, PTL DEF UpdateSpec

(* What an install that ran alone has replaced can be put back as it was,  *)
(* and only contents of verified packages are ever installed.              *)
THEOREM UndoAlwaysAvailable == UpdateSpec => []UndoAvailable
<1>1. UpdateIInv => UndoAvailable
  <2> SUFFICES ASSUME UpdateIInv, NEW f \in UpdateFiles, disk[f] \in Installable(f)
               PROVE  \E p \in Packages : Inspect(p) /\ f \in DOMAIN p.files /\ disk[f] = p.files[f]
    BY DEF UpdateIInv, UndoAvailable, UndoInv, OriginInv
  <2> QED BY DEF Installable, VerifiedPackages
<1> QED BY <1>1, UpdateInvariant, PTL

(***************************************************************************)
(* The AI engine: for any sites, clients, addresses, requests, workers,    *)
(* verdicts and changes of configuration.                                  *)
(***************************************************************************)

(* Jobs and updates that stay are earned as before.                        *)
LEMMA EarnedKeeps ==
  ASSUME AIIInv, hostile \subseteq hostile', bare \subseteq bare', watched \subseteq watched'
  PROVE  /\ UNCHANGED <<jobs, job>> => JobsInv'
         /\ UNCHANGED <<block, update>> => UpdatesInv'
         /\ UNCHANGED <<block, expired, owed>> => BlocklistSound'
<1>1. ASSUME UNCHANGED <<jobs, job>> PROVE JobsInv'
  BY <1>1 DEF AIIInv, JobsInv, EarnedJob, Culprit
<1>2. ASSUME UNCHANGED <<block, update>> PROVE UpdatesInv'
  BY <1>2 DEF AIIInv, UpdatesInv, EarnedEntry, Culprit
<1>3. ASSUME UNCHANGED <<block, expired, owed>> PROVE BlocklistSound'
  BY <1>3 DEF AIIInv, BlocklistSound, OnlyCulpritsBlocked, BlocksStay
<1> QED BY <1>1, <1>2, <1>3

(* A request is of its type.                                               *)
LEMMA RequestFacts ==
  ASSUME AITypeOK, NEW r \in Requests
  PROVE  /\ request[r].is = "running" => request[r] \in RunningRec
         /\ request[r] = Nothing => request[r].is = "nothing"
<1>1. request[r] \in {Nothing, Gone} \cup [is : {"refused"}, site : Sites, client : Clients] \cup RunningRec
  BY DEF AITypeOK
<1> QED BY <1>1 DEF Nothing, Gone, RunningRec

(* An earned job that is queued, or is not.                                *)
LEMMA EnqueueKeeps ==
  ASSUME AIIInv, NEW j \in JobRec, Enqueue(j), UNCHANGED <<job, hostile, watched>>, bare \subseteq bare',
         EarnedJob(j)'
  PROVE  jobs' \in Seq(JobRec) /\ JobsInv'
<1>1. jobs \in Seq(JobRec) /\ (jobs' = jobs \/ jobs' = Append(jobs, j))
  BY DEF Enqueue, AIIInv, AITypeOK
<1>2. /\ jobs' \in Seq(JobRec)
      /\ \A i \in 1..Len(jobs') : jobs'[i] = j \/ (i \in 1..Len(jobs) /\ jobs'[i] = jobs[i])
  BY <1>1
<1>3. \A k : EarnedJob(k) => EarnedJob(k)'
  BY DEF EarnedJob, Culprit
<1>4. ASSUME NEW i \in 1..Len(jobs') PROVE EarnedJob(jobs[i])'
  <2>1. CASE jobs'[i] = j
    BY <2>1 DEF EarnedJob, Culprit
  <2>2. CASE i \in 1..Len(jobs) /\ jobs'[i] = jobs[i]
    BY <2>2 DEF EarnedJob, Culprit, AIIInv, JobsInv
  <2> QED BY <1>2, <2>1, <2>2
<1>5. \A w \in Workers : (job[w] # Nothing => EarnedJob(job[w]))'
  BY DEF EarnedJob, Culprit, AIIInv, JobsInv
<1> QED BY <1>2, <1>4, <1>5 DEF JobsInv

(* A change of configuration, and a deduplication that ends, touch nothing *)
(* that was earned.                                                        *)
LEMMA ConfiguredKeeps ==
  ASSUME AIIInv,
         (\E s \in Sites, m \in {"off", "advisory", "block"} : ApplyMode(s, m)) \/ Configure
           \/ ConfigureFlag \/ DedupeEnds
  PROVE  AIIInv'
<1>1. UNCHANGED <<trafficVars, jobs, job, blockVars, bare>>
  BY DEF ApplyMode, Configure, ConfigureFlag, DedupeEnds
<1>2. AITypeOK
  BY DEF AIIInv
<1>3. mode' \in [Sites -> {"off", "advisory", "block"}] /\ cfg' \in BOOLEAN /\ enabled' \in BOOLEAN
  BY <1>2 DEF AITypeOK, ApplyMode, Configure, ConfigureFlag, DedupeEnds, configVars
<1>4. AITypeOK'
  BY <1>1, <1>2, <1>3 DEF AITypeOK, trafficVars, blockVars
<1>5. RequestsInv'
  BY <1>1 DEF AIIInv, RequestsInv, trafficVars
<1>6. JobsInv' /\ UpdatesInv' /\ BlocklistSound'
  BY <1>1, EarnedKeeps DEF trafficVars, blockVars
<1> QED BY <1>4, <1>5, <1>6 DEF AIIInv

(* A request arrives.                                                      *)
LEMMA ArriveKeeps ==
  ASSUME AIIInv, NEW r \in Requests, NEW s \in Sites, NEW c \in Clients, NEW u \in URIs, NEW bad \in BOOLEAN,
         Arrive(r, s, c, u, bad)
  PROVE  AIIInv'
<1> DEFINE live == mode[s] # "off" /\ enabled /\ cfg
           refused == live /\ mode[s] = "block" /\ IsBlocked(s, c)
           keys == {<<c, u>>, <<c, Path>>}
           new == IF refused THEN [is |-> "refused", site |-> s, client |-> c]
                  ELSE [is |-> "running", site |-> s, client |-> c, uri |-> u, bad |-> bad, mode |-> mode[s],
                        wrapped |-> live, matched |-> FALSE]
<1>1. /\ request[r] = Nothing
      /\ request' = [request EXCEPT ![r] = new]
      /\ pending' = IF live /\ ~refused THEN [k \in DOMAIN pending \cup keys |-> IF k \in keys THEN r ELSE pending[k]]
                    ELSE pending
      /\ hostile' = (IF bad THEN hostile \cup {c} ELSE hostile)
      /\ watched' = (IF mode[s] = "block" THEN watched \cup {<<s, c>>} ELSE watched)
      /\ UNCHANGED <<configVars, dedupe, jobs, job, blockVars, bare>>
  BY DEF Arrive, PendingKey
<1>2. AITypeOK /\ RequestsInv
  BY DEF AIIInv
<1>3. live \in BOOLEAN /\ mode[s] \in {"off", "advisory", "block"}
  BY <1>2 DEF AITypeOK
<1>4. new \in [is : {"refused"}, site : Sites, client : Clients] \cup RunningRec
  BY <1>3 DEF RunningRec
<1>5. /\ request' \in [Requests -> {Nothing, Gone} \cup [is : {"refused"}, site : Sites, client : Clients]
                                     \cup RunningRec]
      /\ request'[r] = new /\ \A q \in Requests \ {r} : request'[q] = request[q]
  BY <1>1, <1>2, <1>4 DEF AITypeOK
<1>6. pending' = [k \in DOMAIN pending' |-> pending'[k]] /\ DOMAIN pending' \subseteq Clients \X (URIs \cup {Path})
  <2>1. keys \subseteq Clients \X (URIs \cup {Path})
    OBVIOUS
  <2> HIDE DEF keys, live, refused
  <2> QED BY <2>1, <1>1, <1>2 DEF AITypeOK
<1>7. AITypeOK'
  BY <1>1, <1>2, <1>5, <1>6 DEF AITypeOK, configVars, blockVars
<1>8. hostile \subseteq hostile' /\ bare \subseteq bare' /\ watched \subseteq watched'
  BY <1>1
<1>9. JobsInv' /\ UpdatesInv' /\ BlocklistSound'
  BY <1>1, <1>8, EarnedKeeps DEF blockVars
<1>10. new.is = "running" <=> ~refused
  OBVIOUS
<1>11. ASSUME NEW q \in Requests, request'[q].is = "running"
       PROVE  /\ request'[q].bad => request'[q].client \in hostile'
              /\ request'[q].mode = "block" => <<request'[q].site, request'[q].client>> \in watched'
  <2>1. CASE q = r
    BY <2>1, <1>11, <1>5, <1>1, <1>10
  <2>2. CASE q # r
    BY <2>2, <1>11, <1>5, <1>2, <1>8 DEF RequestsInv
  <2> QED BY <2>1, <2>2
<1>12. ASSUME NEW k \in DOMAIN pending'
       PROVE  pending'[k] \in Requests /\ request'[pending'[k]].is = "running" /\ request'[pending'[k]].client = k[1]
  <2>1. CASE live /\ ~refused /\ k \in keys
    <3>1. pending'[k] = r
      BY <2>1, <1>1
    <3>2. new.is = "running" /\ new.client = c /\ k[1] = c
      BY <2>1
    <3> QED BY <3>1, <3>2, <1>5
  <2>2. CASE ~(live /\ ~refused /\ k \in keys)
    <3>1. k \in DOMAIN pending /\ pending'[k] = pending[k]
      <4> HIDE DEF keys, live, refused
      <4> QED BY <2>2, <1>1
    <3>2. pending[k] \in Requests /\ request[pending[k]].is = "running" /\ request[pending[k]].client = k[1]
      BY <3>1, <1>2 DEF RequestsInv
    <3>3. pending[k] # r
      BY <3>2, <1>1 DEF Nothing
    <3> QED BY <3>1, <3>2, <3>3, <1>5
  <2> QED BY <2>1, <2>2
<1>13. RequestsInv'
  BY <1>11, <1>12 DEF RequestsInv
<1> QED BY <1>7, <1>9, <1>13 DEF AIIInv

(* Only what a request has come to changes, and what is registered for a   *)
(* request that runs on stays.                                             *)
LEMMA RequestsKeep ==
  ASSUME AIIInv, hostile' = hostile, watched' = watched, NEW r \in Requests,
         request[r].is \in {"running", "refused"},
         request' = [request EXCEPT ![r] = Gone]
           \/ (request[r].is = "running" /\ request' = [request EXCEPT ![r].matched = TRUE]),
         \/ pending' = [k \in {x \in DOMAIN pending : pending[x] # r} |-> pending[k]]
         \/ pending' = pending /\ (request[r].is = "refused" \/ request' # [request EXCEPT ![r] = Gone])
  PROVE  /\ request' \in [Requests -> {Nothing, Gone} \cup [is : {"refused"}, site : Sites, client : Clients]
                                        \cup RunningRec]
         /\ pending' = [k \in DOMAIN pending' |-> pending'[k]]
         /\ DOMAIN pending' \subseteq Clients \X (URIs \cup {Path})
         /\ RequestsInv'
<1>1. AITypeOK /\ RequestsInv
  BY DEF AIIInv
<1>2. request' = [request EXCEPT ![r] = request'[r]]
      /\ (request'[r] = Gone \/ (request[r].is = "running" /\ request'[r] = [request[r] EXCEPT !.matched = TRUE]))
  BY <1>1 DEF AITypeOK
<1>3. request[r].is = "running" => request[r] \in RunningRec
  BY <1>1, RequestFacts
<1>4. request'[r] = Gone \/ (request[r] \in RunningRec /\ request'[r] \in RunningRec
        /\ request'[r].is = "running" /\ request'[r].client = request[r].client /\ request'[r].site = request[r].site
        /\ request'[r].bad = request[r].bad /\ request'[r].mode = request[r].mode)
  BY <1>2, <1>3 DEF RunningRec
<1>5. request' \in [Requests -> {Nothing, Gone} \cup [is : {"refused"}, site : Sites, client : Clients]
                                  \cup RunningRec]
      /\ \A q \in Requests \ {r} : request'[q] = request[q]
  BY <1>1, <1>2, <1>4 DEF AITypeOK
<1>6. /\ pending' = [k \in DOMAIN pending' |-> pending'[k]]
      /\ DOMAIN pending' \subseteq DOMAIN pending
      /\ \A k \in DOMAIN pending' : pending'[k] = pending[k]
  <2>1. CASE pending' = pending
    BY <2>1, <1>1 DEF AITypeOK
  <2>2. CASE pending' = [k \in {x \in DOMAIN pending : pending[x] # r} |-> pending[k]]
    BY <2>2
  <2> QED BY <2>1, <2>2
<1>7. ASSUME NEW q \in Requests, request'[q].is = "running"
      PROVE  /\ request'[q].bad => request'[q].client \in hostile'
             /\ request'[q].mode = "block" => <<request'[q].site, request'[q].client>> \in watched'
  <2>1. CASE q = r
    <3>1. request'[r] # Gone
      BY <1>7, <2>1 DEF Gone
    <3>2. request[r].is = "running"
      BY <3>1, <1>2
    <3> QED BY <3>1, <3>2, <2>1, <1>4, <1>1 DEF RequestsInv
  <2>2. CASE q # r
    BY <2>2, <1>7, <1>5, <1>1 DEF RequestsInv
  <2> QED BY <2>1, <2>2
<1>8. ASSUME NEW k \in DOMAIN pending'
      PROVE  pending'[k] \in Requests /\ request'[pending'[k]].is = "running" /\ request'[pending'[k]].client = k[1]
  <2>1. pending'[k] = pending[k] /\ pending[k] \in Requests
        /\ request[pending[k]].is = "running" /\ request[pending[k]].client = k[1]
    BY <1>6, <1>1 DEF RequestsInv
  <2>2. CASE pending[k] # r
    BY <2>1, <2>2, <1>5
  <2>3. CASE pending[k] = r
    <3>1. request[r].is = "running" /\ request[r].is # "refused"
      BY <2>1, <2>3
    <3>2. pending' = pending
      BY <2>3
    <3>3. request' # [request EXCEPT ![r] = Gone]
      BY <3>1, <3>2, <2>3
    <3>4. request'[r] # Gone
      BY <3>3, <1>2
    <3> QED BY <3>4, <2>1, <2>3, <1>4
  <2> QED BY <2>2, <2>3
<1>9. RequestsInv'
  BY <1>7, <1>8 DEF RequestsInv
<1> QED BY <1>1, <1>5, <1>6, <1>9 DEF AITypeOK

(* A match is joined to a request of the same client, or is bare.          *)
LEMMA MatchKeeps ==
  ASSUME AIIInv, NEW r \in Requests, Match(r)
  PROVE  AIIInv'
<1> DEFINE q == request[r]
           known == {<<q.client, q.uri>>, <<q.client, Path>>} \cap DOMAIN pending
           k == IF <<q.client, q.uri>> \in known THEN <<q.client, q.uri>> ELSE <<q.client, Path>>
<1>1. /\ q.is = "running" /\ request' = [request EXCEPT ![r].matched = TRUE]
      /\ UNCHANGED <<configVars, pending, hostile, watched, job, blockVars>>
      /\ IF known # {} THEN Enqueue(JobOf(q, q.site, q.mode, pending[k])) /\ UNCHANGED bare
         ELSE Enqueue(BareJob(q)) /\ bare' = bare \cup {q.client}
  BY DEF Match, PendingKey
<1>2. AITypeOK /\ RequestsInv
  BY DEF AIIInv
<1>3. q \in RunningRec
  BY <1>1, <1>2, RequestFacts
<1>4. q.mode = "block" => <<q.site, q.client>> \in watched
  BY <1>1, <1>2 DEF RequestsInv
<1>5. jobs' \in Seq(JobRec) /\ JobsInv'
  <2>1. CASE known # {}
    <3>1. k \in DOMAIN pending /\ k[1] = q.client
      BY <2>1
    <3>2. pending[k] \in Requests /\ request[pending[k]].is = "running" /\ request[pending[k]].client = q.client
      BY <3>1, <1>2 DEF RequestsInv
    <3>3. request[pending[k]] \in RunningRec /\ (request[pending[k]].bad => q.client \in hostile)
      BY <3>2, <1>2, RequestFacts DEF RequestsInv
    <3> DEFINE made == JobOf(q, q.site, q.mode, pending[k])
    <3>0. /\ made \in JobRec /\ made.client = q.client /\ made.mode = q.mode /\ made.site = q.site
          /\ made.bad = request[pending[k]].bad
      <4> HIDE DEF k
      <4> QED BY <3>3, <1>3 DEF JobOf, JobRec, RunningRec
    <3>4. PICK j \in JobRec : /\ j = made /\ j.client = q.client /\ j.mode = q.mode /\ j.site = q.site
                              /\ j.bad = request[pending[k]].bad
      BY <3>0
    <3>5. Enqueue(j) /\ UNCHANGED <<job, hostile, watched, bare>>
      BY <1>1, <2>1, <3>4
    <3>6. EarnedJob(j)'
      BY <3>3, <3>4, <3>5, <1>4 DEF EarnedJob, Culprit
    <3> QED BY <3>4, <3>5, <3>6, EnqueueKeeps
  <2>2. CASE known = {}
    <3> DEFINE made == BareJob(q)
    <3>0. made \in JobRec /\ made.client = q.client /\ made.mode = q.mode /\ made.site = q.site
      BY <1>3 DEF BareJob, JobRec, RunningRec
    <3>1. PICK j \in JobRec : j = made /\ j.client = q.client /\ j.mode = q.mode /\ j.site = q.site
      BY <3>0
    <3>2. Enqueue(j) /\ UNCHANGED <<job, hostile, watched>> /\ bare' = bare \cup {q.client}
      BY <1>1, <2>2, <3>1
    <3>3. j.client \in bare' /\ (j.mode = "block" => <<j.site, j.client>> \in watched')
      BY <3>1, <3>2, <1>4
    <3>4. EarnedJob(j)'
      BY <3>3 DEF EarnedJob, Culprit
    <3> QED BY <3>2, <3>4, EnqueueKeeps
  <2> QED BY <2>1, <2>2
<1>6. request' # [request EXCEPT ![r] = Gone]
  <2>1. request'[r] = [request[r] EXCEPT !.matched = TRUE]
    BY <1>1, <1>2 DEF AITypeOK
  <2>2. request'[r].is = "running"
    BY <2>1, <1>3 DEF RunningRec
  <2> QED BY <2>2, <1>2 DEF AITypeOK, Gone
<1>7. /\ request' \in [Requests -> {Nothing, Gone} \cup [is : {"refused"}, site : Sites, client : Clients]
                                     \cup RunningRec]
      /\ pending' = [x \in DOMAIN pending' |-> pending'[x]]
      /\ DOMAIN pending' \subseteq Clients \X (URIs \cup {Path})
      /\ RequestsInv'
  BY <1>1, <1>6, RequestsKeep
<1>8. AITypeOK'
  BY <1>1, <1>2, <1>5, <1>7 DEF AITypeOK, configVars, blockVars
<1>9. bare \subseteq bare'
  BY <1>1
<1>10. UpdatesInv' /\ BlocklistSound'
  BY <1>1, <1>9, EarnedKeeps DEF blockVars
<1> QED BY <1>5, <1>7, <1>8, <1>10 DEF AIIInv

(* A request that returns takes with it what it registered.                *)
LEMMA FinishKeeps ==
  ASSUME AIIInv, NEW r \in Requests, NEW sampled \in BOOLEAN, Finish(r, sampled)
  PROVE  AIIInv'
<1> DEFINE q == request[r]
<1>1. /\ q.is = "running" /\ request' = [request EXCEPT ![r] = Gone]
      /\ pending' = [k \in {x \in DOMAIN pending : pending[x] # r} |-> pending[k]]
      /\ UNCHANGED <<configVars, hostile, watched, job, blockVars, bare>>
      /\ Enqueue(JobOf(q, q.site, q.mode, r)) \/ UNCHANGED <<dedupe, jobs>>
  <2>1. DOMAIN pending \ {k \in DOMAIN pending : pending[k] = r} = {x \in DOMAIN pending : pending[x] # r}
    OBVIOUS
  <2> QED BY <2>1 DEF Finish
<1>2. AITypeOK /\ RequestsInv
  BY DEF AIIInv
<1>3. q \in RunningRec
  BY <1>1, <1>2, RequestFacts
<1>4. (q.bad => q.client \in hostile) /\ (q.mode = "block" => <<q.site, q.client>> \in watched)
  BY <1>1, <1>2 DEF RequestsInv
<1>5. jobs' \in Seq(JobRec) /\ JobsInv'
  <2>1. CASE UNCHANGED <<dedupe, jobs>>
    BY <2>1, <1>1, <1>2, EarnedKeeps DEF AITypeOK
  <2>2. CASE Enqueue(JobOf(q, q.site, q.mode, r))
    <3> DEFINE made == JobOf(q, q.site, q.mode, r)
    <3>0. /\ made \in JobRec /\ made.client = q.client /\ made.mode = q.mode /\ made.site = q.site
          /\ made.bad = q.bad
      BY <1>3 DEF JobOf, JobRec, RunningRec
    <3>1. PICK j \in JobRec : /\ j = made /\ j.client = q.client /\ j.mode = q.mode /\ j.site = q.site
                              /\ j.bad = q.bad
      BY <3>0
    <3>2. (j.bad => j.client \in hostile') /\ (j.mode = "block" => <<j.site, j.client>> \in watched')
      BY <3>1, <1>1, <1>4
    <3>3. EarnedJob(j)'
      BY <3>2 DEF EarnedJob, Culprit
    <3>4. Enqueue(j) /\ UNCHANGED <<job, hostile, watched, bare>>
      BY <3>1, <2>2, <1>1
    <3> QED BY <3>3, <3>4, EnqueueKeeps
  <2> QED BY <1>1, <2>1, <2>2
<1>6. /\ request' \in [Requests -> {Nothing, Gone} \cup [is : {"refused"}, site : Sites, client : Clients]
                                     \cup RunningRec]
      /\ pending' = [x \in DOMAIN pending' |-> pending'[x]]
      /\ DOMAIN pending' \subseteq Clients \X (URIs \cup {Path})
      /\ RequestsInv'
  BY <1>1, RequestsKeep
<1>7. AITypeOK'
  BY <1>1, <1>2, <1>5, <1>6 DEF AITypeOK, configVars, blockVars
<1>8. UpdatesInv' /\ BlocklistSound'
  BY <1>1, EarnedKeeps DEF blockVars
<1> QED BY <1>5, <1>6, <1>7, <1>8 DEF AIIInv

(* A refused request is answered.                                          *)
LEMMA AnsweredKeeps ==
  ASSUME AIIInv, NEW r \in Requests, Answered(r)
  PROVE  AIIInv'
<1>1. /\ request[r].is = "refused" /\ request' = [request EXCEPT ![r] = Gone]
      /\ UNCHANGED <<configVars, pending, hostile, watched, dedupe, jobs, job, blockVars, bare>>
  BY DEF Answered
<1>2. /\ request' \in [Requests -> {Nothing, Gone} \cup [is : {"refused"}, site : Sites, client : Clients]
                                     \cup RunningRec]
      /\ pending' = [x \in DOMAIN pending' |-> pending'[x]]
      /\ DOMAIN pending' \subseteq Clients \X (URIs \cup {Path})
      /\ RequestsInv'
  BY <1>1, RequestsKeep
<1>3. AITypeOK'
  BY <1>1, <1>2 DEF AIIInv, AITypeOK, configVars, blockVars
<1>4. JobsInv' /\ UpdatesInv' /\ BlocklistSound'
  BY <1>1, EarnedKeeps DEF blockVars
<1> QED BY <1>2, <1>3, <1>4 DEF AIIInv

(* An updater copies the blocklist as it is, alone, and adds entries that  *)
(* were earned.                                                            *)
LEMMA CopyKeeps ==
  ASSUME AIIInv, NEW u \in Updaters, NEW e \in SUBSET EntryRec, NEW drop \in SUBSET EntryRec, Copy(u, e, drop),
         \A x \in e : EarnedEntry(x), UNCHANGED trafficVars, UNCHANGED bare
  PROVE  update' \in [Updaters -> {Nothing} \cup UpdateRec] /\ UpdatesInv' /\ BlocklistSound'
<1> DEFINE new == [is |-> "update", next |-> (block \ drop) \cup e, drop |-> drop, add |-> e]
<1>1. /\ \A v \in Updaters : update[v] = Nothing
      /\ update' = [update EXCEPT ![u] = new] /\ UNCHANGED <<block, expired, owed>>
  BY DEF Copy, Unlocked
<1>2. AITypeOK
  BY DEF AIIInv
<1>3. new \in UpdateRec
  BY <1>2 DEF AITypeOK, UpdateRec
<1>4. update' \in [Updaters -> {Nothing} \cup UpdateRec] /\ update'[u] = new
      /\ \A v \in Updaters \ {u} : update'[v] = Nothing
  BY <1>1, <1>2, <1>3 DEF AITypeOK
<1>5. new.next = (block' \ new.drop) \cup new.add /\ new.add = e
  BY <1>1
<1>6. \A x \in e : EarnedEntry(x)'
  BY DEF trafficVars, EarnedEntry, Culprit
<1> HIDE DEF new
<1>7. UpdatesInv'
  BY <1>4, <1>5, <1>6 DEF UpdatesInv
<1>8. BlocklistSound'
  BY <1>1, EarnedKeeps DEF trafficVars
<1> QED BY <1>4, <1>7, <1>8

(* The rest, of a step that copies the blocklist.                          *)
LEMMA RestKeeps ==
  ASSUME AIIInv, UNCHANGED <<configVars, trafficVars, jobs, bare>>, UNCHANGED block,
         job' = job \/ (\E w \in Workers : job' = [job EXCEPT ![w] = Nothing]),
         update' \in [Updaters -> {Nothing} \cup UpdateRec]
  PROVE  AITypeOK' /\ RequestsInv' /\ JobsInv'
<1>1. AITypeOK
  BY DEF AIIInv
<1>2. job' \in [Workers -> {Nothing} \cup JobRec] /\ \A w \in Workers : job'[w] \in {Nothing, job[w]}
  BY <1>1 DEF AITypeOK
<1>3. AITypeOK'
  BY <1>1, <1>2 DEF AITypeOK, configVars, trafficVars
<1>4. RequestsInv'
  BY DEF AIIInv, RequestsInv, trafficVars
<1>5. JobsInv'
  BY <1>2 DEF AIIInv, JobsInv, EarnedJob, Culprit, trafficVars
<1> QED BY <1>3, <1>4, <1>5

(* The operator and the janitor remove, and add nothing.                   *)
LEMMA UnblockKeeps ==
  ASSUME AIIInv, (\E S \in SUBSET Sites, c \in Clients : Unblock(S, c)) \/ Prune
  PROVE  AIIInv'
<1>1. block \subseteq EntryRec
  BY DEF AIIInv, AITypeOK
<1>2. PICK u \in Updaters : \E drop \in SUBSET EntryRec : Copy(u, {}, drop)
  BY <1>1 DEF Unblock, Prune, Updaters
<1>3. PICK drop \in SUBSET EntryRec : Copy(u, {}, drop)
  BY <1>2
<1>4. UNCHANGED <<configVars, trafficVars, dedupe, jobs, job, bare>> /\ UNCHANGED block
  BY <1>3 DEF Unblock, Prune, Copy
<1>5. update' \in [Updaters -> {Nothing} \cup UpdateRec] /\ UpdatesInv' /\ BlocklistSound'
  BY <1>3, <1>4, CopyKeeps
<1>6. AITypeOK' /\ RequestsInv' /\ JobsInv'
  BY <1>4, <1>5, RestKeeps
<1> QED BY <1>5, <1>6 DEF AIIInv

(* The entry of a verdict is one its client earned.                        *)
LEMMA CondemnKeeps ==
  ASSUME AIIInv, NEW w \in Workers, Condemn(w)
  PROVE  AIIInv'
<1> DEFINE j == job[w]
           same == {e \in block : e.site = j.site /\ e.client = j.client}
<1>1. /\ j # Nothing /\ j.bad /\ j.mode = "block"
      /\ \E i \in 1..MaxBlocks : Copy(w, {[site |-> j.site, client |-> j.client, id |-> i]}, same)
      /\ job' = [job EXCEPT ![w] = Nothing]
      /\ UNCHANGED <<configVars, trafficVars, dedupe, jobs, bare>>
  BY DEF Condemn, Answers, Enforces
<1>2. j \in JobRec /\ EarnedJob(j) /\ block \subseteq EntryRec
  BY <1>1 DEF AIIInv, AITypeOK, JobsInv
<1>3. PICK i \in 1..MaxBlocks : Copy(w, {[site |-> j.site, client |-> j.client, id |-> i]}, same)
  BY <1>1
<1> DEFINE entry == [site |-> j.site, client |-> j.client, id |-> i]
<1>4. i \in Nat /\ j.site \in Sites /\ j.client \in Clients
  BY <1>2 DEF JobRec
<1>5. entry \in EntryRec /\ entry.site = j.site /\ entry.client = j.client
  BY <1>4 DEF EntryRec
<1>6. EarnedEntry(entry)
  BY <1>1, <1>2, <1>5 DEF EarnedJob, EarnedEntry
<1>7. PICK x \in EntryRec : x = entry
  BY <1>5
<1>8. PICK drop \in SUBSET EntryRec : drop = same
  BY <1>2
<1>9. Copy(w, {x}, drop) /\ EarnedEntry(x) /\ {x} \in SUBSET EntryRec /\ w \in Updaters
  BY <1>3, <1>6, <1>7, <1>8 DEF Updaters
<1>10. UNCHANGED block
  BY <1>9 DEF Copy
<1>11. update' \in [Updaters -> {Nothing} \cup UpdateRec] /\ UpdatesInv' /\ BlocklistSound'
  <2> HIDE DEF entry, same
  <2> QED BY <1>9, <1>1, CopyKeeps
<1>12. AITypeOK' /\ RequestsInv' /\ JobsInv'
  BY <1>1, <1>10, <1>11, RestKeeps
<1> QED BY <1>11, <1>12 DEF AIIInv

(* A stored copy is the blocklist as it is, changed as it was meant to be. *)
LEMMA StoreKeeps ==
  ASSUME AIIInv, NEW u \in Updaters, Store(u)
  PROVE  AIIInv'
<1> DEFINE copy == update[u]
<1>1. /\ copy # Nothing /\ block' = copy.next /\ owed' = (owed \ copy.drop) \cup copy.add
      /\ update' = [update EXCEPT ![u] = Nothing]
      /\ UNCHANGED <<configVars, trafficVars, dedupe, jobs, job, expired, bare>>
  BY DEF Store
<1>2. AITypeOK /\ UpdatesInv /\ BlocklistSound
  BY DEF AIIInv
<1>3. copy \in UpdateRec
  BY <1>1, <1>2 DEF AITypeOK
<1>4. /\ copy.next \subseteq EntryRec /\ copy.next = (block \ copy.drop) \cup copy.add
      /\ \A e \in copy.add : EarnedEntry(e)
  BY <1>1, <1>2, <1>3 DEF UpdateRec, UpdatesInv
<1>5. update' \in [Updaters -> {Nothing} \cup UpdateRec] /\ \A v \in Updaters : update'[v] = Nothing
  BY <1>1, <1>2 DEF AITypeOK, UpdatesInv
<1>6. UpdatesInv'
  BY <1>5 DEF UpdatesInv
<1>7. BlocklistSound'
  <2>1. \A e \in block' : EarnedEntry(e)
    BY <1>1, <1>2, <1>4 DEF BlocklistSound, OnlyCulpritsBlocked, EarnedEntry, Culprit
  <2>2. OnlyCulpritsBlocked'
    BY <2>1, <1>1 DEF OnlyCulpritsBlocked, EarnedEntry, Culprit, trafficVars
  <2>3. BlocksStay'
    BY <1>1, <1>2, <1>4 DEF BlocklistSound, BlocksStay
  <2> QED BY <2>2, <2>3 DEF BlocklistSound
<1>8. AITypeOK'
  BY <1>1, <1>2, <1>4, <1>5 DEF AITypeOK, configVars, trafficVars
<1>9. RequestsInv' /\ JobsInv'
  BY <1>1, EarnedKeeps DEF AIIInv, RequestsInv, trafficVars
<1> QED BY <1>6, <1>7, <1>8, <1>9 DEF AIIInv

(* An entry that expires is no longer owed.                                *)
LEMMA ExpireKeeps ==
  ASSUME AIIInv, NEW e \in block, Expire(e)
  PROVE  AIIInv'
<1>1. expired \subseteq expired' /\ UNCHANGED <<configVars, trafficVars, dedupe, jobs, job, block, update, owed, bare>>
  BY DEF Expire
<1>2. AITypeOK' /\ RequestsInv'
  BY <1>1 DEF AIIInv, AITypeOK, RequestsInv, configVars, trafficVars
<1>3. JobsInv' /\ UpdatesInv'
  BY <1>1, EarnedKeeps DEF trafficVars
<1>4. BlocklistSound'
  BY <1>1 DEF AIIInv, BlocklistSound, OnlyCulpritsBlocked, BlocksStay, trafficVars
<1> QED BY <1>2, <1>3, <1>4 DEF AIIInv

(* A worker takes an earned job, or is done with one.                      *)
LEMMA WorkerKeeps ==
  ASSUME AIIInv, NEW w \in Workers, Take(w) \/ Acquit(w)
  PROVE  AIIInv'
<1>1. UNCHANGED <<configVars, trafficVars, dedupe, blockVars, bare>>
  BY DEF Take, Acquit
<1>2. AITypeOK
  BY DEF AIIInv
<1>3. jobs \in Seq(JobRec) /\ job \in [Workers -> {Nothing} \cup JobRec]
  BY <1>2 DEF AITypeOK
<1>4. /\ jobs' \in Seq(JobRec) /\ job' \in [Workers -> {Nothing} \cup JobRec]
      /\ \A i \in 1..Len(jobs') : \E k \in 1..Len(jobs) : jobs'[i] = jobs[k]
      /\ \A v \in Workers : job'[v] \in {Nothing, job[v]} \/ \E k \in 1..Len(jobs) : job'[v] = jobs[k]
  <2>1. CASE Take(w)
    <3>1. jobs # <<>> /\ job' = [job EXCEPT ![w] = Head(jobs)] /\ jobs' = Tail(jobs)
      BY <2>1 DEF Take
    <3>2. Len(jobs) \in Nat /\ Len(jobs) > 0 /\ Head(jobs) = jobs[1] /\ jobs[1] \in JobRec
      BY <1>3, <3>1
    <3>3. /\ Tail(jobs) \in Seq(JobRec) /\ Len(Tail(jobs)) = Len(jobs) - 1
          /\ \A i \in 1..Len(Tail(jobs)) : Tail(jobs)[i] = jobs[i + 1]
      BY <1>3, <3>1
    <3> QED BY <1>3, <3>1, <3>2, <3>3
  <2>2. CASE Acquit(w)
    BY <2>2, <1>3 DEF Acquit
  <2> QED BY <2>1, <2>2
<1>5. AITypeOK'
  BY <1>1, <1>2, <1>4 DEF AITypeOK, configVars, trafficVars, blockVars
<1>6. RequestsInv'
  BY <1>1 DEF AIIInv, RequestsInv, trafficVars
<1>7. JobsInv'
  <2>1. \A k : EarnedJob(k) <=> EarnedJob(k)'
    BY <1>1 DEF EarnedJob, Culprit, trafficVars
  <2>2. \A i \in 1..Len(jobs') : EarnedJob(jobs[i])'
    <3>1. TAKE i \in 1..Len(jobs')
    <3>2. PICK k \in 1..Len(jobs) : jobs'[i] = jobs[k]
      BY <1>4
    <3> QED BY <3>2, <1>1 DEF EarnedJob, Culprit, trafficVars, AIIInv, JobsInv
  <2>3. \A v \in Workers : (job[v] # Nothing => EarnedJob(job[v]))'
    <3>1. TAKE v \in Workers
    <3>2. CASE job'[v] \in {Nothing, job[v]}
      BY <3>2, <1>1 DEF EarnedJob, Culprit, trafficVars, AIIInv, JobsInv
    <3>3. CASE \E k \in 1..Len(jobs) : job'[v] = jobs[k]
      <4>1. PICK k \in 1..Len(jobs) : job'[v] = jobs[k]
        BY <3>3
      <4> QED BY <4>1, <1>1 DEF EarnedJob, Culprit, trafficVars, AIIInv, JobsInv
    <3> QED BY <1>4, <3>2, <3>3
  <2> QED BY <2>2, <2>3 DEF JobsInv
<1>8. UpdatesInv' /\ BlocklistSound'
  BY <1>1, EarnedKeeps DEF trafficVars, blockVars
<1> QED BY <1>5, <1>6, <1>7, <1>8 DEF AIIInv

(* The engine, from its start: every job, every entry to come and every    *)
(* entry of the blocklist is of what its client did, and one copy of the   *)
(* blocklist is under way at a time.                                       *)
THEOREM AIInvariant == AISpec => []AIIInv
<1>1. AIInit => AIIInv
  <2> SUFFICES ASSUME AIInit PROVE AIIInv
    OBVIOUS
  <2>1. jobs \in Seq(JobRec) /\ Len(jobs) = 0
    BY DEF AIInit
  <2>2. AITypeOK
    BY <2>1 DEF AIInit, AITypeOK
  <2>3. RequestsInv
    BY DEF AIInit, RequestsInv, Nothing
  <2>4. JobsInv
    BY <2>1 DEF AIInit, JobsInv
  <2>5. UpdatesInv /\ BlocklistSound
    BY DEF AIInit, UpdatesInv, BlocklistSound, OnlyCulpritsBlocked, BlocksStay
  <2> QED BY <2>2, <2>3, <2>4, <2>5 DEF AIIInv
<1>2. AIIInv /\ [AINext]_aiVars => AIIInv'
  <2> SUFFICES ASSUME AIIInv, [AINext]_aiVars PROVE AIIInv'
    OBVIOUS
  <2>1. CASE \/ \E s \in Sites, m \in {"off", "advisory", "block"} : ApplyMode(s, m)
             \/ Configure \/ ConfigureFlag \/ DedupeEnds
    BY <2>1, ConfiguredKeeps
  <2>2. ASSUME NEW r \in Requests, NEW s \in Sites, NEW c \in Clients, NEW u \in URIs, NEW bad \in BOOLEAN,
               Arrive(r, s, c, u, bad)
        PROVE  AIIInv'
    BY <2>2, ArriveKeeps
  <2>3. ASSUME NEW r \in Requests, Match(r) \/ Answered(r) \/ \E sampled \in BOOLEAN : Finish(r, sampled)
        PROVE  AIIInv'
    BY <2>3, MatchKeeps, AnsweredKeeps, FinishKeeps
  <2>4. CASE Prune
    BY <2>4, UnblockKeeps
  <2>5. ASSUME NEW c \in Clients, Unblock(Sites, c) \/ \E s \in Sites : Unblock({s}, c) PROVE AIIInv'
    <3>1. PICK S \in SUBSET Sites : Unblock(S, c)
      BY <2>5
    <3> QED BY <3>1, UnblockKeeps
  <2>6. ASSUME NEW e \in block, Expire(e) PROVE AIIInv'
    BY <2>6, ExpireKeeps
  <2>7. ASSUME NEW u \in Updaters, Store(u) PROVE AIIInv'
    BY <2>7, StoreKeeps
  <2>8. ASSUME NEW w \in Workers, Take(w) \/ Condemn(w) \/ Acquit(w) PROVE AIIInv'
    BY <2>8, WorkerKeeps, CondemnKeeps
  <2>9. CASE UNCHANGED aiVars
    <3>1. UNCHANGED <<mode, cfg, enabled, trafficVars, jobs, job, blockVars, bare>>
      BY <2>9 DEF aiVars, configVars
    <3>2. AITypeOK' /\ RequestsInv'
      BY <3>1 DEF AIIInv, AITypeOK, RequestsInv, trafficVars, blockVars
    <3>3. JobsInv' /\ UpdatesInv' /\ BlocklistSound'
      BY <3>1, EarnedKeeps DEF trafficVars, blockVars
    <3> QED BY <3>2, <3>3 DEF AIIInv
  <2> QED BY <2>1, <2>2, <2>3, <2>4, <2>5, <2>6, <2>7, <2>8, <2>9 DEF AINext
<1> QED BY <1>1, <1>2, PTL DEF AISpec

(* Only a client's own requests, on the very site it used, put it on the   *)
(* blocklist, and no update of the blocklist loses what another added.     *)
THEOREM BlocklistAlwaysSound == AISpec => []BlocklistSound
<1>1. AIIInv => BlocklistSound
  BY DEF AIIInv
<1> QED BY <1>1, AIInvariant, PTL

(***************************************************************************)
(* The dashboard connector's coverage of detections: for any number of     *)
(* readers, items and matches, any limits, failed writes and crashes.      *)
(***************************************************************************)

(* What a queue holds, when one joins it and when the first one leaves.    *)
LEMMA QueueRange ==
  ASSUME NEW S, NEW q \in Seq(S)
  PROVE  /\ \A x \in S : Range(Append(q, x)) = Range(q) \cup {x} /\ Append(q, x) \in Seq(S)
         /\ q # <<>> => Range(q) = {Head(q)} \cup Range(Tail(q)) /\ Tail(q) \in Seq(S)
<1>1. ASSUME NEW x \in S PROVE Range(Append(q, x)) = Range(q) \cup {x} /\ Append(q, x) \in Seq(S)
  <2>1. /\ Append(q, x) \in Seq(S) /\ DOMAIN Append(q, x) = 1..(Len(q) + 1) /\ DOMAIN q = 1..Len(q)
        /\ Len(q) \in Nat /\ Append(q, x)[Len(q) + 1] = x
        /\ \A i \in 1..Len(q) : Append(q, x)[i] = q[i]
    OBVIOUS
  <2>2. 1..(Len(q) + 1) = (1..Len(q)) \cup {Len(q) + 1}
    BY <2>1
  <2> QED BY <2>1, <2>2 DEF Range
<1>2. ASSUME q # <<>> PROVE Range(q) = {Head(q)} \cup Range(Tail(q)) /\ Tail(q) \in Seq(S)
  <2>1. /\ Tail(q) \in Seq(S) /\ DOMAIN Tail(q) = 1..(Len(q) - 1) /\ DOMAIN q = 1..Len(q)
        /\ Len(q) \in Nat /\ Len(q) > 0 /\ Head(q) = q[1]
        /\ \A i \in 1..(Len(q) - 1) : Tail(q)[i] = q[i + 1]
    BY <1>2
  <2>2. ASSUME NEW x \in Range(q) PROVE x \in {Head(q)} \cup Range(Tail(q))
    <3>1. PICK i \in 1..Len(q) : x = q[i]
      BY <2>1 DEF Range
    <3>2. CASE i = 1
      BY <3>1, <3>2, <2>1
    <3>3. CASE i # 1
      <4>1. i - 1 \in 1..(Len(q) - 1) /\ Tail(q)[i - 1] = q[i]
        BY <3>3, <2>1
      <4> QED BY <4>1, <3>1, <2>1 DEF Range
    <3> QED BY <3>2, <3>3
  <2>3. ASSUME NEW x \in {Head(q)} \cup Range(Tail(q)) PROVE x \in Range(q)
    <3>1. CASE x = Head(q)
      BY <3>1, <2>1 DEF Range
    <3>2. CASE x \in Range(Tail(q))
      <4>1. PICK i \in 1..(Len(q) - 1) : x = Tail(q)[i]
        BY <3>2, <2>1 DEF Range
      <4>2. i + 1 \in 1..Len(q) /\ x = q[i + 1]
        BY <4>1, <2>1
      <4> QED BY <4>2, <2>1 DEF Range
    <3> QED BY <3>1, <3>2
  <2> QED BY <2>1, <2>2, <2>3
<1> QED BY <1>1, <1>2

(* What is said of detections: a step that changes nothing else of the     *)
(* store keeps it.                                                         *)
SameCoverage(m, n) == IsStore(m) /\ m.gap = n.gap /\ m.detections = n.detections /\ m.clean = n.clean

(* A page removes old rows and snapshots, never detections.                *)
LEMMA CleanupsKeep ==
  ASSUME NEW n, IsStore(n), NEW m \in Cleanups(n)
  PROVE  SameCoverage(m, n)
<1>1. PICK kept \in SUBSET n.snapshots, k \in 0..Len(n.journal) : m = CutAt(n, kept, k)
  BY DEF Cleanups
<1> QED BY <1>1 DEF SameCoverage, IsStore, CutAt

(* Neither does a change of what is configured.                            *)
LEMMA SyncKeeps ==
  ASSUME NEW n, IsStore(n), NEW rows
  PROVE  SameCoverage(Sync(n, rows), n)
<1>1. PICK a, b, c, m : /\ a = n.seq + Len(rows) /\ b = Exports(n.current, rows) /\ c = n.journal \o rows
                       /\ m = Sync(n, rows)
  OBVIOUS
<1>2. m = [seq |-> a, current |-> b, journal |-> c, snapshots |-> n.snapshots, detections |-> n.detections,
           gap |-> n.gap, clean |-> n.clean]
  BY <1>1 DEF Sync
<1>3. SameCoverage(m, n)
  BY <1>2 DEF SameCoverage, IsStore
<1> QED BY <1>1, <1>3

(* A change of the snapshots alone is no change of coverage.               *)
LEMMA SnapshotsKeep ==
  ASSUME NEW n, IsStore(n), NEW S
  PROVE  SameCoverage([n EXCEPT !.snapshots = S], n)
<1>1. [n EXCEPT !.snapshots = S]
        = [seq |-> n.seq, current |-> n.current, journal |-> n.journal, snapshots |-> S,
           detections |-> n.detections, gap |-> n.gap, clean |-> n.clean]
  BY DEF IsStore
<1> QED BY <1>1 DEF SameCoverage, IsStore

(* A store that is marked, or closed.                                      *)
LEMMA MarkedStore ==
  ASSUME NEW n, IsStore(n), NEW b \in BOOLEAN
  PROVE  /\ /\ IsStore([n EXCEPT !.gap = b]) /\ [n EXCEPT !.gap = b].gap = b
            /\ [n EXCEPT !.gap = b].clean = n.clean /\ [n EXCEPT !.gap = b].detections = n.detections
         /\ /\ IsStore([n EXCEPT !.clean = b]) /\ [n EXCEPT !.clean = b].clean = b
            /\ [n EXCEPT !.clean = b].gap = n.gap /\ [n EXCEPT !.clean = b].detections = n.detections
<1>1. PICK g, c : g = [n EXCEPT !.gap = b] /\ c = [n EXCEPT !.clean = b]
  OBVIOUS
<1>2. g = [seq |-> n.seq, current |-> n.current, journal |-> n.journal, snapshots |-> n.snapshots,
           detections |-> n.detections, gap |-> b, clean |-> n.clean]
  BY <1>1 DEF IsStore
<1>3. c = [seq |-> n.seq, current |-> n.current, journal |-> n.journal, snapshots |-> n.snapshots,
           detections |-> n.detections, gap |-> n.gap, clean |-> b]
  BY <1>1 DEF IsStore
<1>4. IsStore(g) /\ g.gap = b /\ g.clean = n.clean /\ g.detections = n.detections
  BY <1>2 DEF IsStore
<1>5. IsStore(c) /\ c.clean = b /\ c.gap = n.gap /\ c.detections = n.detections
  BY <1>3 DEF IsStore
<1> QED BY <1>1, <1>4, <1>5

(* Coverage is carried from one state of a store to the next.              *)
LEMMA CoverageFollows ==
  ASSUME NEW k, NEW m, NEW n, SameCoverage(k, m), SameCoverage(m, n)
  PROVE  SameCoverage(k, n)
  BY DEF SameCoverage

(* What a reader's step may do to the store.                               *)
MemoryKept == /\ SameCoverage(memory', memory) /\ (stored' = stored \/ SameCoverage(stored', memory))
          /\ latch' \in BOOLEAN

(* Writing a store of the same coverage, or not writing it.                *)
LEMMA PersistCovers ==
  ASSUME DashboardTypeOK, NEW m, SameCoverage(m, memory)
  PROVE  /\ Persist(m) => MemoryKept
         /\ PersistIfChanged(m) => MemoryKept
<1>1. Persist(m) => MemoryKept
  BY DEF Persist, MemoryKept
<1>2. UNCHANGED storeVars => MemoryKept
  BY DEF storeVars, MemoryKept, DashboardTypeOK, SameCoverage
<1> QED BY <1>1, <1>2 DEF PersistIfChanged

(* The steps of a reader leave coverage as it was.                         *)
LEMMA ReaderCovers ==
  ASSUME DashboardIInv, NEW r \in Readers, SyncNativeState(r) \/ Page(r)
  PROVE  MemoryKept
<1>1. DashboardTypeOK /\ IsStore(memory)
  BY DEF DashboardIInv, DashboardTypeOK
<1>2. UNCHANGED storeVars => MemoryKept
  BY <1>1 DEF storeVars, MemoryKept, DashboardTypeOK, SameCoverage
<1>3. CASE SyncNativeState(r)
  <2> DEFINE n == Sync(memory, Rows(memory, seen[r]))
  <2>1. SameCoverage(n, memory) /\ IsStore(n)
    BY <1>1, SyncKeeps DEF SameCoverage
  <2>2. PICK m \in Cleanups(n) : PersistIfChanged(m)
    BY <1>3 DEF SyncNativeState
  <2> HIDE DEF n
  <2>3. SameCoverage(m, n)
    BY <2>1, <2>2, CleanupsKeep
  <2>4. SameCoverage(m, memory)
    BY <2>1, <2>3, CoverageFollows
  <2> QED BY <1>1, <2>2, <2>4, PersistCovers
<1>4. CASE Page(r)
  <2>1. CASE Expired(r) \/ Refused
    BY <2>1, <1>2 DEF Expired, Refused
  <2>2. CASE NextSnapshotPage(r)
    <3>1. \/ UNCHANGED storeVars
          \/ PersistIfChanged([memory EXCEPT !.snapshots = @ \ {cursor[r].of}])
      BY <2>2 DEF NextSnapshotPage
    <3> QED BY <1>1, <1>2, <3>1, SnapshotsKeep, PersistCovers
  <2>3. ASSUME NEW m \in Cleanups(memory), NewSnapshot(r, m) \/ JournalPage(r, m) PROVE MemoryKept
    <3>1. SameCoverage(m, memory) /\ IsStore(m)
      BY <1>1, CleanupsKeep DEF SameCoverage
    <3>2. CASE JournalPage(r, m)
      BY <1>1, <3>1, <3>2, PersistCovers DEF JournalPage
    <3>3. CASE NewSnapshot(r, m)
      <4>1. \/ memory' = m /\ UNCHANGED <<stored, latch>>
            \/ \E S : Persist([m EXCEPT !.snapshots = S])
        BY <3>3 DEF NewSnapshot
      <4>2. CASE memory' = m /\ UNCHANGED <<stored, latch>>
        BY <4>2, <3>1, <1>1 DEF MemoryKept, DashboardTypeOK
      <4>3. CASE \E S : Persist([m EXCEPT !.snapshots = S])
        <5>1. PICK S : Persist([m EXCEPT !.snapshots = S])
          BY <4>3
        <5>2. SameCoverage([m EXCEPT !.snapshots = S], m)
          BY <3>1, SnapshotsKeep
        <5>3. SameCoverage([m EXCEPT !.snapshots = S], memory)
          BY <5>2, <3>1, CoverageFollows
        <5> QED BY <1>1, <5>1, <5>3, PersistCovers
      <4> QED BY <4>1, <4>2, <4>3
    <3> QED BY <2>3, <3>2, <3>3
  <2> QED BY <1>4, <2>1, <2>2, <2>3 DEF Page
<1> QED BY <1>3, <1>4

(* A step of the same coverage keeps what is known of losses, while the    *)
(* queue, the worker and the counter rest.                                 *)
LEMMA CoverKeeps ==
  ASSUME DashboardIInv, MemoryKept, UNCHANGED planeVars, process' = process, process # "down"
  PROVE  LossInv' /\ IsStore(memory') /\ IsStore(stored') /\ latch' \in BOOLEAN
<1>1. LossInv /\ IsStore(memory) /\ IsStore(stored)
  BY DEF DashboardIInv, DashboardTypeOK
<1>2. IsStore(memory') /\ IsStore(stored') /\ latch' \in BOOLEAN
  BY <1>1 DEF MemoryKept, SameCoverage
<1>3. ~memory'.clean /\ ~stored'.clean /\ Accounted'
  BY <1>1 DEF MemoryKept, SameCoverage, LossInv, Accounted, planeVars
<1> QED BY <1>2, <1>3 DEF LossInv

(* The plane that takes detections in.                                     *)
LEMMA PlaneKeepsLoss ==
  ASSUME DashboardIInv,
         (\E x \in Noted : NoteWAFMatch(x)) \/ AppendDetection \/ MarksFailure \/ FlushDrops
  PROVE  DashboardIInv'
<1>1. /\ DashboardTypeOK /\ ReadersInv /\ LossInv
      /\ IsStore(memory) /\ IsStore(stored) /\ backlog \in Seq(Noted) /\ latch \in BOOLEAN
  BY DEF DashboardIInv, DashboardTypeOK
<1>2. process' = process /\ process # "down" /\ UNCHANGED <<configured, readerVars, log>>
  BY DEF NoteWAFMatch, AppendDetection, MarksFailure, FlushDrops, PlaneKeeps
<1>3. ReadersInv'
  BY <1>1, <1>2 DEF ReadersInv, readerVars
<1>4. ~memory.clean /\ ~stored.clean /\ Accounted
  BY <1>1, <1>2 DEF LossInv
<1>5. ASSUME NEW x \in Noted, NoteWAFMatch(x) PROVE DashboardIInv'
  <2>1. UNCHANGED storeVars /\ UNCHANGED hand /\ noted' = noted \cup {x}
    BY <1>5 DEF NoteWAFMatch
  <2>2. \/ backlog' = Append(backlog, x) /\ drops' = drops
        \/ backlog' = backlog /\ drops' = drops + 1
    BY <1>5 DEF NoteWAFMatch
  <2>3. backlog' \in Seq(Noted) /\ drops' \in Nat
        /\ (drops' > 0 \/ (drops' = drops /\ Range(backlog') = Range(backlog) \cup {x}))
    <3>1. drops \in Nat /\ Append(backlog, x) \in Seq(Noted) /\ Range(Append(backlog, x)) = Range(backlog) \cup {x}
      BY <1>1, QueueRange DEF DashboardTypeOK
    <3>2. drops + 1 \in Nat /\ drops + 1 > 0
      BY <3>1
    <3> QED BY <1>1, <2>2, <3>1, <3>2
  <2>4. DashboardTypeOK'
    BY <1>1, <1>2, <2>1, <2>3 DEF DashboardTypeOK, storeVars, readerVars
  <2>5. Accounted'
    BY <1>4, <2>1, <2>3 DEF Accounted, storeVars
  <2>6. LossInv'
    BY <1>4, <2>1, <2>5 DEF LossInv, storeVars
  <2> QED BY <1>3, <2>4, <2>6 DEF DashboardIInv
<1>6. CASE AppendDetection
  <2>1. /\ backlog # <<>> /\ ~hand /\ backlog' = Tail(backlog) /\ UNCHANGED <<process, noted, drops>>
    BY <1>6 DEF AppendDetection
  <2>2. PICK m \in Cleanups(memory) :
          IF Cardinality(m.detections) >= DetectionMaxRows
          THEN memory' = m /\ hand' = TRUE /\ UNCHANGED <<stored, latch, fails>>
          ELSE Persist([m EXCEPT !.detections = @ \cup {Head(backlog)}]) /\ hand' = latch'
    BY <1>6 DEF AppendDetection
  <2>3. SameCoverage(m, memory)
    BY <1>1, CleanupsKeep
  <2>4. Range(backlog) = {Head(backlog)} \cup Range(Tail(backlog)) /\ Tail(backlog) \in Seq(Noted)
    BY <1>1, <2>1, QueueRange
  <2> DEFINE full == [seq |-> m.seq, current |-> m.current, journal |-> m.journal, snapshots |-> m.snapshots,
                      detections |-> m.detections \cup {Head(backlog)}, gap |-> m.gap, clean |-> m.clean]
  <2>5. [m EXCEPT !.detections = @ \cup {Head(backlog)}] = full
    BY <2>3 DEF SameCoverage, IsStore
  <2>6. /\ IsStore(full) /\ full.gap = memory.gap /\ full.clean = memory.clean
        /\ full.detections = memory.detections \cup {Head(backlog)}
    BY <2>3 DEF SameCoverage, IsStore
  <2> HIDE DEF full
  <2>7. \/ memory' = m /\ hand' = TRUE /\ stored' = stored /\ latch' = latch
        \/ memory' = full /\ stored' \in {stored, full} /\ hand' = latch' /\ latch' \in BOOLEAN
    BY <2>2, <2>5 DEF Persist
  <2>8. IsStore(memory') /\ IsStore(stored') /\ latch' \in BOOLEAN /\ hand' \in BOOLEAN
        /\ ~memory'.clean /\ ~stored'.clean
    BY <1>1, <1>4, <2>3, <2>6, <2>7 DEF SameCoverage
  <2>9. DashboardTypeOK'
    BY <1>1, <1>2, <2>1, <2>4, <2>8 DEF DashboardTypeOK, readerVars
  <2>10. Accounted'
    <3>1. CASE hand' = TRUE
      BY <3>1 DEF Accounted
    <3>2. CASE memory' = full
      BY <3>2, <1>4, <2>1, <2>4, <2>6 DEF Accounted
    <3> QED BY <3>1, <3>2, <2>7
  <2>11. LossInv'
    BY <2>8, <2>10 DEF LossInv
  <2> QED BY <1>3, <2>9, <2>11 DEF DashboardIInv
<1>7. CASE MarksFailure \/ FlushDrops
  <2> DEFINE marked == [memory EXCEPT !.gap = TRUE]
  <2>2. IsStore(marked) /\ marked.gap = TRUE /\ marked.clean = memory.clean
    BY <1>1, MarkedStore
  <2>3. memory' = marked /\ stored' \in {stored, marked} /\ latch' \in BOOLEAN
    BY <1>7 DEF MarksFailure, FlushDrops, MarkDetectionDrop, Persist
  <2> HIDE DEF marked
  <2>4. UNCHANGED <<noted, backlog>> /\ hand' \in BOOLEAN /\ drops' \in Nat
    <3>1. hand \in BOOLEAN /\ drops \in Nat
      BY <1>1 DEF DashboardTypeOK
    <3>2. UNCHANGED <<noted, backlog>> /\ (hand' = hand \/ hand' = FALSE) /\ (drops' = drops \/ drops' = 0)
      BY <1>7 DEF MarksFailure, FlushDrops
    <3>3. hand' \in BOOLEAN
      BY <3>1, <3>2
    <3>4. drops' \in Nat
      BY <3>1, <3>2
    <3> QED BY <3>2, <3>3, <3>4
  <2>5. DashboardTypeOK'
    BY <1>1, <1>2, <2>2, <2>3, <2>4 DEF DashboardTypeOK, readerVars
  <2>6. ~memory'.clean /\ ~stored'.clean /\ Accounted'
    BY <1>4, <2>2, <2>3 DEF Accounted
  <2>7. LossInv'
    BY <2>6 DEF LossInv
  <2> QED BY <1>3, <2>5, <2>7 DEF DashboardIInv
<1> QED BY <1>5, <1>6, <1>7

(* The steps of a reader, and a change of what is configured.              *)
LEMMA ReadersKeepLoss ==
  ASSUME DashboardIInv,
         Configures \/ \E r \in Readers : ReadRuntime(r) \/ SyncNativeState(r) \/ Page(r)
  PROVE  DashboardIInv'
<1>1. /\ DashboardTypeOK /\ ReadersInv /\ LossInv /\ reading \in [Readers -> {"idle", "sync", "page"}]
      /\ IsStore(memory) /\ IsStore(stored) /\ latch \in BOOLEAN
  BY DEF DashboardIInv, DashboardTypeOK
<1>2. process' = process /\ UNCHANGED planeVars /\ process = "up"
  BY <1>1 DEF Configures, ReadRuntime, SyncNativeState, Page, ReaderKeeps, ReadersInv
<1>3. MemoryKept
  <2>1. ASSUME UNCHANGED storeVars PROVE MemoryKept
    BY <1>1, <2>1 DEF storeVars, MemoryKept, SameCoverage
  <2> QED BY <2>1, ReaderCovers DEF Configures, ReadRuntime
<1>4. LossInv' /\ IsStore(memory') /\ IsStore(stored') /\ latch' \in BOOLEAN
  BY <1>2, <1>3, CoverKeeps
<1>5. reading' \in [Readers -> {"idle", "sync", "page"}]
  BY <1>1 DEF Configures, ReadRuntime, SyncNativeState, Page, Ends, readerVars
<1>6. DashboardTypeOK' /\ ReadersInv'
  BY <1>1, <1>2, <1>4, <1>5 DEF DashboardTypeOK, ReadersInv, planeVars
<1> QED BY <1>4, <1>6 DEF DashboardIInv

(* Shutdown, crash and boot.                                               *)
LEMMA LifeKeepsLoss ==
  ASSUME DashboardIInv, StopExport \/ CloseClean \/ Dies \/ Boots
  PROVE  DashboardIInv'
<1>1. /\ DashboardTypeOK /\ ReadersInv /\ LossInv /\ reading \in [Readers -> {"idle", "sync", "page"}]
      /\ IsStore(memory) /\ IsStore(stored) /\ latch \in BOOLEAN
  BY DEF DashboardIInv, DashboardTypeOK
<1>2. CASE StopExport
  <2>1. /\ process' = "draining" /\ process = "up" /\ \A r \in Readers : reading[r] = "idle"
        /\ UNCHANGED <<storeVars, planeVars, configured, readerVars, log>>
    BY <1>2 DEF StopExport, PlaneKeeps
  <2>2. DashboardTypeOK' /\ ReadersInv'
    BY <1>1, <2>1 DEF DashboardTypeOK, ReadersInv, storeVars, planeVars, readerVars
  <2>3. LossInv'
    BY <1>1, <2>1 DEF LossInv, Accounted, storeVars, planeVars
  <2> QED BY <2>2, <2>3 DEF DashboardIInv
<1>3. CASE CloseClean
  <2> DEFINE closed == [memory EXCEPT !.clean = TRUE]
  <2>2. IsStore(closed) /\ closed.gap = memory.gap /\ closed.detections = memory.detections
    BY <1>1, MarkedStore
  <2>3. /\ process = "draining" /\ process' = "down" /\ backlog = <<>> /\ ~hand /\ drops = 0
        /\ UNCHANGED <<planeVars, configured, readerVars, log>>
        /\ memory' = closed /\ stored' \in {stored, closed} /\ latch' \in BOOLEAN
    BY <1>3 DEF CloseClean, Drained, Persist, PlaneKeeps
  <2> HIDE DEF closed
  <2>4. DashboardTypeOK' /\ ReadersInv'
    BY <1>1, <2>2, <2>3 DEF DashboardTypeOK, ReadersInv, planeVars, readerVars
  <2>5. Range(<<>>) = {}
    BY DEF Range
  <2>6. ~stored.clean /\ (memory.gap \/ noted \subseteq memory.detections)
    BY <1>1, <2>3, <2>5 DEF LossInv, Accounted
  <2>7. LossInv'
    BY <2>2, <2>3, <2>6 DEF LossInv, planeVars
  <2> QED BY <2>4, <2>7 DEF DashboardIInv
<1>4. CASE Dies
  <2>1. /\ process' = "down" /\ process # "down" /\ UNCHANGED <<storeVars, planeVars>>
        /\ reading' = [r \in Readers |-> "idle"]
    BY <1>4 DEF Dies
  <2>2. DashboardTypeOK' /\ ReadersInv'
    BY <1>1, <2>1 DEF DashboardTypeOK, ReadersInv, storeVars, planeVars
  <2>3. LossInv'
    BY <1>1, <2>1 DEF LossInv, storeVars
  <2> QED BY <2>2, <2>3 DEF DashboardIInv
<1>5. CASE Boots
  <2> DEFINE opened == Reopened(stored)
  <2>1. /\ IsStore(opened) /\ opened.gap = (stored.gap \/ ~stored.clean) /\ opened.clean = FALSE
        /\ opened.detections = stored.detections
    BY <1>1 DEF IsStore, Reopened
  <2>2. PICK m \in Cleanups(opened) : Persist(m)
    BY <1>5 DEF Boots
  <2> HIDE DEF opened
  <2>3. IsStore(m) /\ m.gap = opened.gap /\ m.clean = FALSE /\ m.detections = stored.detections
    BY <2>1, <2>2, CleanupsKeep DEF SameCoverage
  <2>4. /\ memory' = m
        /\ (stored' = m /\ latch' = FALSE) \/ (stored' = stored /\ latch' = TRUE)
    BY <2>2 DEF Persist
  <2>5. /\ process = "down" /\ process' = IF latch' THEN "down" ELSE "up"
        /\ backlog' = <<>> /\ hand' = FALSE /\ drops' = 0 /\ UNCHANGED <<noted, reading, seen, cursor, held>>
    BY <1>5 DEF Boots
  <2>6. backlog' \in Seq(Noted)
    BY <2>5
  <2>7. DashboardTypeOK'
    BY <1>1, <2>3, <2>4, <2>5, <2>6 DEF DashboardTypeOK
  <2>8. ReadersInv'
    BY <1>1, <2>5 DEF ReadersInv
  <2>9. m.gap \/ noted \subseteq m.detections
    BY <1>1, <2>1, <2>3 DEF LossInv
  <2>10. LossInv'
    <3>1. CASE stored' = m /\ latch' = FALSE
      BY <3>1, <2>3, <2>4, <2>5, <2>9 DEF LossInv, Accounted
    <3>2. CASE stored' = stored /\ latch' = TRUE
      BY <3>2, <1>1, <2>5 DEF LossInv
    <3> QED BY <3>1, <3>2, <2>4
  <2> QED BY <2>7, <2>8, <2>10 DEF DashboardIInv
<1> QED BY <1>2, <1>3, <1>4, <1>5

(* The connector, from its first boot.                                     *)
THEOREM DashboardInvariant == DashboardSpec => []DashboardIInv
<1>1. DashboardInit => DashboardIInv
  <2> SUFFICES ASSUME DashboardInit PROVE DashboardIInv
    OBVIOUS
  <2>1. IsStore(EmptyStore) /\ EmptyStore.clean = FALSE /\ EmptyStore.gap = FALSE
    BY DEF IsStore, EmptyStore
  <2>2. backlog \in Seq(Noted)
    BY DEF DashboardInit
  <2>3. DashboardTypeOK /\ ReadersInv
    BY <2>1, <2>2 DEF DashboardInit, DashboardTypeOK, ReadersInv
  <2>4. LossInv
    BY <2>1 DEF DashboardInit, LossInv, Accounted
  <2> QED BY <2>3, <2>4 DEF DashboardIInv
<1>2. DashboardIInv /\ [DashboardNext]_dashboardVars => DashboardIInv'
  <2> SUFFICES ASSUME DashboardIInv, [DashboardNext]_dashboardVars PROVE DashboardIInv'
    OBVIOUS
  <2>1. CASE UNCHANGED dashboardVars
    <3>1. UNCHANGED <<process, storeVars, reading, planeVars>>
      BY <2>1 DEF dashboardVars, readerVars
    <3> QED BY <3>1 DEF DashboardIInv, DashboardTypeOK, ReadersInv, LossInv, Accounted, storeVars, planeVars
  <2> QED BY <2>1, ReadersKeepLoss, PlaneKeepsLoss, LifeKeepsLoss DEF DashboardNext
<1> QED BY <1>1, <1>2, PTL DEF DashboardSpec

(* Every detection that is lost is marked.                                 *)
THEOREM LossAlwaysMarked == DashboardSpec => []LossIsMarked
<1>1. DashboardIInv => LossIsMarked
  BY DEF DashboardIInv, DashboardTypeOK, LossInv, Accounted, LossIsMarked
<1> QED BY <1>1, DashboardInvariant, PTL

(***************************************************************************)
(* Readers of the connector: for any items, readers, pages, limits, cuts   *)
(* of the journal, failed writes and restarts.                             *)
(***************************************************************************)

(* A set of numbers has a least one.                                       *)
LEMMA MinIs ==
  ASSUME NEW S, S \subseteq Nat, S # {}
  PROVE  Min(S) \in S /\ \A j \in S : Min(S) <= j
<1> DEFINE R == {ss \in Nat \X Nat : ss[1] < ss[2]}
<1>1. IsWellFoundedOn(R, Nat)
  BY NatLessThanWellFounded DEF OpToRel
<1>2. PICK x \in S : \A y \in S : ~(<<y, x>> \in R)
  <2> HIDE DEF R
  <2> QED BY <1>1, WFMin
<1>3. ASSUME NEW y \in S, y < x PROVE FALSE
  <2>1. <<y, x>> \in R
    BY <1>3
  <2> QED BY <1>2, <2>1
<1>4. x \in S /\ \A j \in S : x <= j
  BY <1>3
<1> QED BY <1>4 DEF Min

(* A set of numbers below a bound has a greatest one.                      *)
LEMMA MaxIs ==
  ASSUME NEW n \in Nat, NEW S, S \subseteq 1..n, S # {}
  PROVE  Max(S) \in S /\ \A j \in S : Max(S) >= j
<1> DEFINE T == {n - j : j \in S}
<1>1. T \subseteq Nat /\ T # {}
  <2>1. ASSUME NEW j \in S PROVE n - j \in Nat
    <3>1. j \in 1..n
      OBVIOUS
    <3> QED BY <3>1
  <2> QED BY <2>1
<1>2. PICK k \in S : Min(T) = n - k
  BY <1>1, MinIs
<1>3. \A j \in S : n - k <= n - j
  BY <1>1, <1>2, MinIs
<1>4. k \in S /\ \A j \in S : k >= j
  BY <1>2, <1>3
<1> QED BY <1>4 DEF Max

(* The greatest is the one that no other exceeds.                          *)
LEMMA MaxOf ==
  ASSUME NEW n \in Nat, NEW S, S \subseteq 1..n, NEW k \in S, \A j \in S : k >= j
  PROVE  Max(S) = k
<1>1. S # {}
  OBVIOUS
<1>2. Max(S) \in S /\ \A j \in S : Max(S) >= j
  BY <1>1, MaxIs
<1>3. Max(S) \in 1..n /\ k \in 1..n /\ Max(S) >= k /\ k >= Max(S)
  BY <1>2
<1> QED BY <1>3

(* Rows, and what they make.                                               *)

(* The last row about an item.                                             *)
LEMMA LatestIs ==
  ASSUME NEW rows \in Seq(Row), NEW i
  PROVE  /\ About(rows, i) \subseteq 1..Len(rows)
         /\ About(rows, i) # {} => \E k \in About(rows, i) : Latest(rows, i) = rows[k] /\ \A j \in About(rows, i) : k >= j
<1>1. About(rows, i) \subseteq 1..Len(rows) /\ Len(rows) \in Nat
  BY DEF About
<1> QED BY <1>1, MaxIs DEF Latest

(* A row about an item that no later one is about is its last.             *)
LEMMA LatestOf ==
  ASSUME NEW rows \in Seq(Row), NEW i, NEW k \in About(rows, i), \A j \in About(rows, i) : k >= j
  PROVE  Latest(rows, i) = rows[k]
<1>1. About(rows, i) \subseteq 1..Len(rows) /\ Len(rows) \in Nat
  BY DEF About
<1>2. Max(About(rows, i)) = k
  BY <1>1, MaxOf
<1> QED BY <1>2 DEF Latest

(* Of two parts the later one decides.                                     *)
LEMMA LatestOfConcat ==
  ASSUME NEW a \in Seq(Row), NEW b \in Seq(Row), NEW i
  PROVE  /\ About(b, i) # {} => About(a \o b, i) # {} /\ Latest(a \o b, i) = Latest(b, i)
         /\ About(b, i) = {} => /\ About(a \o b, i) = About(a, i)
                                /\ About(a, i) # {} => Latest(a \o b, i) = Latest(a, i)
<1>1. /\ a \o b \in Seq(Row) /\ Len(a \o b) = Len(a) + Len(b) /\ Len(a) \in Nat /\ Len(b) \in Nat
      /\ \A j \in 1..Len(a) + Len(b) : (a \o b)[j] = IF j <= Len(a) THEN a[j] ELSE b[j - Len(a)]
  BY ConcatProperties
<1> DEFINE c == a \o b
<1>2. /\ \A j \in 1..Len(a) : j \in About(c, i) <=> j \in About(a, i)
      /\ \A j \in 1..Len(b) : j + Len(a) \in About(c, i) <=> j \in About(b, i)
      /\ About(c, i) \subseteq 1..Len(a) + Len(b)
  <2>1. DOMAIN c = 1..Len(a) + Len(b) /\ DOMAIN a = 1..Len(a) /\ DOMAIN b = 1..Len(b)
    BY <1>1
  <2>2. ASSUME NEW j \in 1..Len(a) PROVE j \in About(c, i) <=> j \in About(a, i)
    <3>1. c[j] = a[j] /\ j \in DOMAIN c
      BY <1>1, <2>1
    <3> QED BY <2>1, <3>1 DEF About
  <2>3. ASSUME NEW j \in 1..Len(b) PROVE j + Len(a) \in About(c, i) <=> j \in About(b, i)
    <3>1. PICK x \in 1..Len(a) + Len(b) : x = j + Len(a) /\ ~(x <= Len(a)) /\ x - Len(a) = j
      BY <1>1
    <3>2. c[x] = b[j] /\ x \in DOMAIN c
      BY <1>1, <2>1, <3>1
    <3> QED BY <2>1, <3>1, <3>2 DEF About
  <2>4. About(c, i) \subseteq 1..Len(a) + Len(b)
    BY <2>1 DEF About
  <2> QED BY <2>2, <2>3, <2>4
<1>3. About(a, i) \subseteq 1..Len(a) /\ About(b, i) \subseteq 1..Len(b)
  BY LatestIs
<1>4. ASSUME About(b, i) # {} PROVE About(c, i) # {} /\ Latest(c, i) = Latest(b, i)
  <2>1. PICK k \in About(b, i) : Latest(b, i) = b[k] /\ \A j \in About(b, i) : k >= j
    BY <1>4, LatestIs
  <2>2. k + Len(a) \in About(c, i) /\ c[k + Len(a)] = b[k]
    BY <1>1, <1>2, <1>3
  <2>3. ASSUME NEW j \in About(c, i) PROVE k + Len(a) >= j
    <3>1. j \in 1..Len(a) + Len(b) /\ k \in 1..Len(b)
      BY <1>2, <1>3
    <3>2. CASE j <= Len(a)
      BY <1>1, <3>1, <3>2
    <3>3. CASE j > Len(a)
      <4>1. PICK x \in 1..Len(b) : x + Len(a) = j
        BY <1>1, <3>1, <3>3
      <4>2. x \in About(b, i)
        BY <1>2, <4>1
      <4>3. k >= x
        BY <2>1, <4>2
      <4> QED BY <1>1, <3>1, <4>1, <4>3
    <3> QED BY <1>1, <3>1, <3>2, <3>3
  <2> HIDE DEF c
  <2> QED BY <1>1, <2>1, <2>2, <2>3, LatestOf DEF c
<1>5. ASSUME About(b, i) = {} PROVE About(c, i) = About(a, i) /\ (About(a, i) # {} => Latest(c, i) = Latest(a, i))
  <2>1. About(c, i) = About(a, i)
    <3>1. ASSUME NEW j \in About(c, i) PROVE j \in About(a, i)
      <4>1. j \in 1..Len(a) + Len(b)
        BY <1>2
      <4>2. CASE j > Len(a)
        <5>1. j - Len(a) \in 1..Len(b) /\ (j - Len(a)) + Len(a) = j
          BY <1>1, <4>1, <4>2
        <5> HIDE DEF c
        <5> QED BY <1>2, <1>5, <5>1
      <4>3. CASE j <= Len(a)
        <5>1. j \in 1..Len(a)
          BY <1>1, <4>1, <4>3
        <5> HIDE DEF c
        <5> QED BY <1>2, <5>1
      <4> QED BY <1>1, <4>1, <4>2, <4>3
    <3>2. About(a, i) \subseteq About(c, i)
      BY <1>2, <1>3
    <3> QED BY <3>1, <3>2
  <2>2. Max(About(c, i)) = Max(About(a, i))
    BY <2>1
  <2>3. About(a, i) # {} => Max(About(a, i)) \in 1..Len(a)
    BY <1>1, <1>3, MaxIs
  <2> QED BY <1>1, <2>1, <2>2, <2>3 DEF Latest
<1> QED BY <1>4, <1>5

(* Rows may be applied in parts.                                           *)
LEMMA AppliedConcat ==
  ASSUME NEW a \in Seq(Row), NEW b \in Seq(Row), NEW known
  PROVE  Applied(Applied(known, a), b) = Applied(known, a \o b)
<1>1. ASSUME NEW i \in Items PROVE Applied(Applied(known, a), b)[i] = Applied(known, a \o b)[i]
  BY LatestOfConcat DEF Applied
<1> QED BY <1>1 DEF Applied

(* What is exported goes on in the same way.                               *)
LEMMA ExportsConcat ==
  ASSUME NEW a \in Seq(Row), NEW b \in Seq(Row), NEW known
  PROVE  Exports(Exports(known, a), b) = Exports(known, a \o b)
<1>1. ASSUME NEW i \in Items PROVE Exports(Exports(known, a), b)[i] = Exports(known, a \o b)[i]
  BY LatestOfConcat DEF Exports
<1> QED BY <1>1 DEF Exports

(* No rows change nothing.                                                 *)
LEMMA NothingApplied ==
  /\ Applied(NoItems, <<>>) = NoItems /\ Exports(NoItems, <<>>) = NoItems
<1>1. \A i : About(<<>>, i) = {}
  BY DEF About
<1> QED BY <1>1 DEF Applied, Exports, NoItems

(* A part of a sequence of rows.                                           *)
LEMMA Piece ==
  ASSUME NEW l \in Seq(Row), NEW n \in 0..Len(l), NEW k \in 0..n
  PROVE  /\ SubSeq(l, k + 1, n) \in Seq(Row) /\ Len(SubSeq(l, k + 1, n)) = n - k
         /\ \A j \in 1..n - k : SubSeq(l, k + 1, n)[j] = l[k + j]
<1>1. \A j \in k + 1..n : l[j] \in Row
  BY ElementOfSeq
<1>2. /\ SubSeq(l, k + 1, n) \in Seq(Row)
      /\ Len(SubSeq(l, k + 1, n)) = IF k + 1 <= n THEN n - (k + 1) + 1 ELSE 0
      /\ \A j \in 1..n - (k + 1) + 1 : SubSeq(l, k + 1, n)[j] = l[k + 1 + j - 1]
  BY <1>1, SubSeqProperties
<1> QED BY <1>2

(* Two logs that agree for their first n rows have the same parts there.   *)
Agree(l, t, n) ==
  /\ l \in Seq(Row) /\ t \in Seq(Row) /\ n \in 0..Len(l) /\ n <= Len(t)
  /\ \A j \in 1..n : l[j] = t[j]

(* Logs that agree for n rows have the same parts there.                   *)
LEMMA SamePiece ==
  ASSUME NEW l, NEW t, NEW n, Agree(l, t, n), NEW h \in 0..n, NEW k \in 0..h
  PROVE  SubSeq(l, k + 1, h) = SubSeq(t, k + 1, h)
<1>1. l \in Seq(Row) /\ t \in Seq(Row) /\ Len(l) \in Nat /\ Len(t) \in Nat /\ h \in 0..Len(l) /\ h \in 0..Len(t)
  BY DEF Agree
<1>2. PICK u, v : u = SubSeq(l, k + 1, h) /\ v = SubSeq(t, k + 1, h)
  OBVIOUS
<1>3. u \in Seq(Row) /\ Len(u) = h - k /\ \A j \in 1..h - k : u[j] = l[k + j]
  BY <1>1, <1>2, Piece
<1>4. v \in Seq(Row) /\ Len(v) = h - k /\ \A j \in 1..h - k : v[j] = t[k + j]
  BY <1>1, <1>2, Piece
<1>5. \A j \in 1..Len(u) : u[j] = v[j]
  BY <1>3, <1>4 DEF Agree
<1>6. u = v
  BY <1>3, <1>4, <1>5, SeqEqual
<1> QED BY <1>2, <1>6

(* And the same beginnings.                                                *)
LEMMA SameUpto ==
  ASSUME NEW l, NEW t, NEW n, Agree(l, t, n), NEW h \in 0..n
  PROVE  Upto(l, h) = Upto(t, h)
<1>1. n \in Nat /\ SubSeq(l, 0 + 1, h) = SubSeq(t, 0 + 1, h)
  BY SamePiece DEF Agree
<1> QED BY <1>1 DEF Upto

(* Stores.                                                                 *)

(* A snapshot of a log is one of every log that agrees up to its bound.    *)
LEMMA SnapshotStays ==
  ASSUME NEW l, NEW t, NEW n, Agree(l, t, n), NEW s, SnapshotOf(s, l, n)
  PROVE  SnapshotOf(s, t, n)
<1>1. s.mark \in 0..n /\ Upto(l, s.mark) = Upto(t, s.mark)
  BY SameUpto DEF SnapshotOf
<1> QED BY <1>1 DEF SnapshotOf

(* A store keeps what it is when the log goes on, or is cut behind it.     *)
LEMMA StoreStays ==
  ASSUME NEW l, NEW t, NEW n, Agree(l, t, n), NEW m, StoreOf(m, l), m.seq <= n
  PROVE  StoreOf(m, t)
<1>1. m.seq \in Nat /\ n \in Nat /\ m.seq \in 0..n /\ m.seq \in 0..Len(t) /\ Agree(l, t, m.seq)
  BY DEF Agree, StoreOf
<1>2. m.current = Exports(NoItems, Upto(t, m.seq))
  BY <1>1, SameUpto DEF StoreOf
<1>3. PICK k \in 0..m.seq : m.journal = SubSeq(l, k + 1, m.seq)
  BY DEF StoreOf
<1>4. m.journal = SubSeq(t, k + 1, m.seq)
  <2>1. PICK n2 : n2 = m.seq /\ n2 \in 0..n /\ k \in 0..n2
    BY <1>1
  <2>2. \A h \in 0..n : \A i \in 0..h : SubSeq(l, i + 1, h) = SubSeq(t, i + 1, h)
    <3>1. SUFFICES ASSUME NEW h \in 0..n, NEW i \in 0..h PROVE SubSeq(l, i + 1, h) = SubSeq(t, i + 1, h)
      OBVIOUS
    <3> QED BY SamePiece
  <2> QED BY <1>3, <2>1, <2>2
<1>5. \A s \in m.snapshots : SnapshotOf(s, t, m.seq)
  BY <1>1, SnapshotStays DEF StoreOf
<1> QED BY <1>1, <1>2, <1>4, <1>5 DEF StoreOf

(* So does what a reader has.                                              *)
LEMMA CursorStays ==
  ASSUME NEW l, NEW t, NEW n, Agree(l, t, n), NEW c, NEW known, CursorOf(c, known, l, n)
  PROVE  CursorOf(c, known, t, n)
<1>1. CASE c = Start
  BY <1>1 DEF CursorOf
<1>2. CASE /\ c.mode = "incremental" /\ c = Incremental(c.mark)
           /\ c.mark \in 0..n /\ known = Applied(NoItems, Upto(l, c.mark))
  BY <1>2, SameUpto DEF CursorOf
<1>3. CASE /\ c.mode = "snapshot" /\ c = [mode |-> "snapshot", of |-> c.of, offset |-> c.offset]
           /\ SnapshotOf(c.of, l, n) /\ c.offset \in 0..Len(c.of.rows)
           /\ known = Applied(NoItems, Upto(c.of.rows, c.offset))
  BY <1>3, SnapshotStays DEF CursorOf
<1> QED BY <1>1, <1>2, <1>3 DEF CursorOf

(* A later bound allows what an earlier one does.                          *)
LEMMA BoundGrows ==
  ASSUME NEW l, NEW n \in Nat, NEW k \in Nat, n <= k
  PROVE  /\ \A s : SnapshotOf(s, l, n) => SnapshotOf(s, l, k)
         /\ \A c, known : CursorOf(c, known, l, n) => CursorOf(c, known, l, k)
<1>1. ASSUME NEW s, SnapshotOf(s, l, n) PROVE SnapshotOf(s, l, k)
  BY <1>1 DEF SnapshotOf
<1>2. ASSUME NEW c, NEW known, CursorOf(c, known, l, n) PROVE CursorOf(c, known, l, k)
  <2>1. c.mark \in 0..n => c.mark \in 0..k
    OBVIOUS
  <2> QED BY <1>1, <1>2, <2>1 DEF CursorOf
<1> QED BY <1>1, <1>2

(* Cleaning up takes snapshots and first rows away.                        *)
LEMMA CleanedStore ==
  ASSUME NEW l \in Seq(Row), NEW m, StoreOf(m, l), NEW x \in Cleanups(m)
  PROVE  StoreOf(x, l) /\ x.seq = m.seq /\ x.current = m.current
<1>1. PICK kept \in SUBSET m.snapshots, n \in 0..Len(m.journal) : x = CutAt(m, kept, n)
  BY DEF Cleanups
<1>2. x.seq = m.seq /\ x.current = m.current /\ x.snapshots = kept
      /\ x.journal = SubSeq(m.journal, n + 1, Len(m.journal))
  BY <1>1 DEF CutAt
<1>3. PICK k \in 0..m.seq : m.journal = SubSeq(l, k + 1, m.seq)
  BY DEF StoreOf
<1>4. m.seq \in 0..Len(l) /\ Len(l) \in Nat
  BY DEF StoreOf
<1>5. /\ m.journal \in Seq(Row) /\ Len(m.journal) = m.seq - k
      /\ \A j \in 1..m.seq - k : m.journal[j] = l[k + j]
  <2>1. PICK h : h = m.seq /\ h \in 0..Len(l) /\ k \in 0..h
    BY <1>4
  <2> QED BY <1>3, <2>1, Piece
<1>6. k + n \in 0..m.seq
  BY <1>4, <1>5
<1>7. x.journal = SubSeq(l, k + n + 1, m.seq)
  <2>1. PICK u, v : u = SubSeq(m.journal, n + 1, Len(m.journal)) /\ v = SubSeq(l, k + n + 1, m.seq)
    OBVIOUS
  <2>2. Len(m.journal) \in 0..Len(m.journal)
    BY <1>5
  <2>3. u \in Seq(Row) /\ Len(u) = m.seq - k - n /\ \A j \in 1..m.seq - k - n : u[j] = m.journal[n + j]
    <3>1. PICK h : h = Len(m.journal) /\ h \in 0..Len(m.journal) /\ n \in 0..h
      BY <2>2
    <3>2. u \in Seq(Row) /\ Len(u) = h - n /\ \A j \in 1..h - n : u[j] = m.journal[n + j]
      BY <1>5, <2>1, <3>1, Piece
    <3> QED BY <1>5, <3>1, <3>2
  <2>4. v \in Seq(Row) /\ Len(v) = m.seq - (k + n) /\ \A j \in 1..m.seq - (k + n) : v[j] = l[k + n + j]
    BY <1>4, <1>6, <2>1, Piece
  <2>5. \A j \in 1..Len(u) : u[j] = v[j]
    <3> SUFFICES ASSUME NEW j \in 1..Len(u) PROVE u[j] = v[j]
      OBVIOUS
    <3>1. j \in 1..m.seq - k - n /\ n + j \in 1..m.seq - k /\ j \in 1..m.seq - (k + n)
      BY <1>4, <1>5, <2>3
    <3>2. u[j] = m.journal[n + j] /\ m.journal[n + j] = l[k + (n + j)] /\ v[j] = l[k + n + j]
      BY <1>5, <2>3, <2>4, <3>1
    <3>3. k + (n + j) = k + n + j
      BY <3>1
    <3> QED BY <3>2, <3>3
  <2>6. Len(u) = Len(v)
    BY <1>4, <2>3, <2>4
  <2>7. u = v
    BY <2>3, <2>4, <2>5, <2>6, SeqEqual
  <2> QED BY <1>2, <2>1, <2>7
<1>8. \E h \in 0..x.seq : x.journal = SubSeq(l, h + 1, x.seq)
  BY <1>2, <1>6, <1>7
<1>9. \A s \in x.snapshots : SnapshotOf(s, l, x.seq)
  BY <1>2 DEF StoreOf
<1> QED BY <1>2, <1>4, <1>8, <1>9 DEF StoreOf

(* The order of a finite set.                                              *)
LEMMA OrderOf ==
  ASSUME NEW S, S \subseteq Items
  PROVE  SetToSeq(S) \in Seq(S)
<1>1. IsFiniteSet(S)
  BY FS_Subset, DashboardAssumption
<1>2. Cardinality(S) \in Nat /\ ExistsBijection(1..Cardinality(S), S)
  BY <1>1, FS_CardinalityType
<1>3. \E f \in [1..Cardinality(S) -> S] : IsInjective(f)
  BY <1>2 DEF ExistsBijection, Bijection, Injection
<1>4. SetToSeq(S) \in [1..Cardinality(S) -> S]
  BY <1>3 DEF SetToSeq
<1> QED BY <1>2, <1>4

(* The rows of a synchronization carry the next numbers.                   *)
LEMMA RowsAre ==
  ASSUME NEW m, m.seq \in Nat, NEW want \in [Items -> Contents \cup {Absent}]
  PROVE  Rows(m, want) \in Seq(Row) /\ \A j \in 1..Len(Rows(m, want)) : Rows(m, want)[j].seq = m.seq + j
<1> DEFINE differ == {i \in Items : IF m.current[i] = Absent THEN want[i] # Absent
                                    ELSE want[i] # m.current[i].content}
           up == {i \in differ : want[i] # Absent}
           gone == {i \in differ : want[i] = Absent}
           order == SetToSeq(up) \o SetToSeq(gone)
           rows == [j \in DOMAIN order |-> [seq |-> m.seq + j, item |-> order[j], content |-> want[order[j]]]]
<1>1. SetToSeq(up) \in Seq(Items) /\ SetToSeq(gone) \in Seq(Items)
  <2>1. up \subseteq Items /\ gone \subseteq Items
    OBVIOUS
  <2>2. SetToSeq(up) \in Seq(up) /\ SetToSeq(gone) \in Seq(gone)
    BY <2>1, OrderOf
  <2> HIDE DEF up, gone
  <2> QED BY <2>1, <2>2, SeqMonotonic
<1>2. order \in Seq(Items)
  <2> HIDE DEF up, gone
  <2> QED BY <1>1, ConcatProperties
<1>3. Rows(m, want) = rows
  BY DEF Rows
<1> HIDE DEF order
<1>4. DOMAIN order = 1..Len(order) /\ Len(order) \in Nat
  BY <1>2
<1>5. \A j \in 1..Len(order) : [seq |-> m.seq + j, item |-> order[j], content |-> want[order[j]]] \in Row
  BY <1>2, <1>4 DEF Row
<1>6. rows \in [1..Len(order) -> Row]
  BY <1>4, <1>5
<1>7. rows \in Seq(Row) /\ Len(rows) = Len(order)
  BY <1>4, <1>6
<1>8. \A j \in 1..Len(rows) : rows[j].seq = m.seq + j
  BY <1>4, <1>7
<1> QED BY <1>3, <1>7, <1>8

(* The log goes on by rows that carry the next numbers.                    *)
LEMMA LogGrows ==
  ASSUME NEW n \in Nat, NEW l, LogOf(l, n), NEW rows \in Seq(Row),
         \A j \in 1..Len(rows) : rows[j].seq = n + j
  PROVE  /\ LogOf(l \o rows, n + Len(rows)) /\ Agree(l, l \o rows, n) /\ Upto(l \o rows, n) = l
         /\ Upto(l \o rows, n + Len(rows)) = l \o rows /\ Len(l \o rows) = n + Len(rows)
<1> DEFINE t == l \o rows
<1>1. l \in Seq(Row) /\ Len(l) = n
  BY DEF LogOf
<1>2. /\ t \in Seq(Row) /\ Len(t) = n + Len(rows) /\ Len(rows) \in Nat
      /\ \A j \in 1..n + Len(rows) : t[j] = IF j <= n THEN l[j] ELSE rows[j - n]
  BY <1>1, ConcatProperties
<1> HIDE DEF t
<1>3. \A j \in 1..Len(t) : t[j].seq = j
  <2> SUFFICES ASSUME NEW j \in 1..n + Len(rows) PROVE t[j].seq = j
    BY <1>2
  <2>1. CASE j <= n
    BY <1>1, <1>2, <2>1 DEF LogOf
  <2>2. CASE j > n
    <3>1. j - n \in 1..Len(rows) /\ t[j] = rows[j - n]
      BY <1>2, <2>2
    <3> QED BY <3>1
  <2> QED BY <2>1, <2>2
<1>4. Agree(l, t, n)
  BY <1>1, <1>2 DEF Agree
<1>5. Upto(l, n) = l
  BY <1>1, SubSeqFull DEF Upto
<1>6. Upto(l, n) = Upto(t, n)
  BY <1>4, SameUpto
<1>7. Upto(t, n + Len(rows)) = t
  BY <1>2, SubSeqFull DEF Upto
<1>8. LogOf(t, n + Len(rows))
  BY <1>2, <1>3 DEF LogOf
<1> QED BY <1>2, <1>4, <1>5, <1>6, <1>7, <1>8 DEF t

(* A synchronized store is of the longer log.                              *)
LEMMA SyncedStore ==
  ASSUME NEW l, NEW m, LogOf(l, m.seq), StoreOf(m, l), NEW rows \in Seq(Row),
         \A j \in 1..Len(rows) : rows[j].seq = m.seq + j
  PROVE  StoreOf(Sync(m, rows), l \o rows) /\ Sync(m, rows).seq = m.seq + Len(rows)
<1> DEFINE t == l \o rows
           x == Sync(m, rows)
<1>1. m.seq \in Nat /\ l \in Seq(Row) /\ Len(l) = m.seq /\ Len(rows) \in Nat
  BY DEF LogOf, StoreOf
<1>2. /\ LogOf(t, m.seq + Len(rows)) /\ Agree(l, t, m.seq) /\ Upto(t, m.seq) = l
      /\ Upto(t, m.seq + Len(rows)) = t /\ Len(t) = m.seq + Len(rows)
  BY <1>1, LogGrows
<1>3. x.seq = m.seq + Len(rows) /\ x.current = Exports(m.current, rows) /\ x.journal = m.journal \o rows
      /\ x.snapshots = m.snapshots
  BY DEF Sync
<1>4. Upto(l, m.seq) = l
  BY <1>1, SubSeqFull DEF Upto
<1>5. x.current = Exports(NoItems, Upto(t, x.seq))
  <2>1. x.current = Exports(Exports(NoItems, l), rows)
    BY <1>3, <1>4 DEF StoreOf
  <2> QED BY <1>1, <1>2, <1>3, <2>1, ExportsConcat
<1>6. \E k \in 0..x.seq : x.journal = SubSeq(t, k + 1, x.seq)
  <2>1. PICK k \in 0..m.seq : m.journal = SubSeq(l, k + 1, m.seq)
    BY DEF StoreOf
  <2>2. PICK u, v : u = m.journal \o rows /\ v = SubSeq(t, k + 1, m.seq + Len(rows))
    OBVIOUS
  <2>3. /\ m.journal \in Seq(Row) /\ Len(m.journal) = m.seq - k
        /\ \A j \in 1..m.seq - k : m.journal[j] = l[k + j]
    BY <1>1, <2>1, Piece
  <2>4. /\ u \in Seq(Row) /\ Len(u) = m.seq - k + Len(rows)
        /\ \A j \in 1..m.seq - k + Len(rows) : u[j] = IF j <= m.seq - k THEN m.journal[j] ELSE rows[j - (m.seq - k)]
    BY <2>2, <2>3, ConcatProperties
  <2>5. /\ v \in Seq(Row) /\ Len(v) = m.seq + Len(rows) - k
        /\ \A j \in 1..m.seq + Len(rows) - k : v[j] = t[k + j]
    <3>1. t \in Seq(Row) /\ m.seq + Len(rows) \in 0..Len(t) /\ k \in 0..m.seq + Len(rows)
      BY <1>1, <1>2 DEF LogOf
    <3> HIDE DEF t
    <3>2. PICK h : h = m.seq + Len(rows) /\ h \in 0..Len(t) /\ k \in 0..h
      BY <3>1
    <3>3. /\ SubSeq(t, k + 1, h) \in Seq(Row) /\ Len(SubSeq(t, k + 1, h)) = h - k
          /\ \A j \in 1..h - k : SubSeq(t, k + 1, h)[j] = t[k + j]
      BY <3>1, <3>2, Piece
    <3>4. v = SubSeq(t, k + 1, h)
      BY <2>2, <3>2
    <3>5. v \in Seq(Row) /\ Len(v) = h - k /\ \A j \in 1..h - k : v[j] = t[k + j]
      BY <3>3, <3>4
    <3>6. h = m.seq + Len(rows) /\ m.seq \in Nat /\ Len(rows) \in Nat /\ k \in Nat
          /\ h - k = m.seq + Len(rows) - k
      BY <1>1, <3>2
    <3> HIDE DEF x
    <3> QED BY <3>5, <3>6
  <2>6. \A j \in 1..m.seq + Len(rows) : t[j] = IF j <= m.seq THEN l[j] ELSE rows[j - m.seq]
    BY <1>1, ConcatProperties
  <2> HIDE DEF t
  <2>7. ASSUME NEW j \in 1..Len(u) PROVE u[j] = v[j]
    <3>1. j \in Int /\ j \in 1..m.seq - k + Len(rows) /\ k + j \in 1..m.seq + Len(rows) /\ v[j] = t[k + j]
      BY <1>1, <2>4, <2>5
    <3>2. CASE j <= m.seq - k
      <4>1. u[j] = m.journal[j] /\ j \in 1..m.seq - k /\ t[k + j] = l[k + j]
        BY <1>1, <2>4, <2>6, <3>1, <3>2
      <4> QED BY <2>3, <3>1, <4>1
    <3>3. CASE j > m.seq - k
      <4>1. u[j] = rows[j - (m.seq - k)] /\ t[k + j] = rows[k + j - m.seq]
        BY <1>1, <2>4, <2>6, <3>1, <3>3
      <4>2. j - (m.seq - k) = k + j - m.seq
        BY <1>1, <3>1
      <4> QED BY <3>1, <4>1, <4>2
    <3> QED BY <1>1, <3>1, <3>2, <3>3
  <2>8. Len(u) = Len(v)
    BY <1>1, <2>4, <2>5
  <2>9. u = v
    BY <2>4, <2>5, <2>7, <2>8, SeqEqual
  <2>10. k \in 0..m.seq + Len(rows)
    BY <1>1
  <2> HIDE DEF x
  <2> QED BY <1>3, <2>2, <2>9, <2>10
<1>7. \A s \in x.snapshots : SnapshotOf(s, t, x.seq)
  <2>1. \A s \in m.snapshots : SnapshotOf(s, t, m.seq)
    BY <1>2, SnapshotStays DEF StoreOf
  <2>2. m.seq + Len(rows) \in Nat /\ m.seq <= m.seq + Len(rows)
    BY <1>1
  <2> HIDE DEF t
  <2> QED BY <1>1, <1>3, <2>1, <2>2, BoundGrows
<1>8. x.seq \in 0..Len(t)
  BY <1>1, <1>2, <1>3
<1> QED BY <1>3, <1>5, <1>6, <1>7, <1>8 DEF StoreOf

(* Snapshots.                                                              *)

(* Rows of different numbers, in their order: each of them once.           *)
LEMMA Ordered ==
  ASSUME NEW S, IsFiniteSet(S), \A x \in S : x.seq \in Nat,
         \A x, y \in S : x.seq = y.seq => x = y
  PROVE  /\ InOrder(S) \in [1..Cardinality(S) -> S] /\ Cardinality(S) \in Nat
         /\ \A x \in S : \E j \in 1..Cardinality(S) : InOrder(S)[j] = x
         /\ \A i, j \in 1..Cardinality(S) : InOrder(S)[i] = InOrder(S)[j] => i = j
<1> DEFINE n == Cardinality(S)
           below(x) == {y \in S : y.seq <= x.seq}
           f == [x \in S |-> RowRank(S, x)]
<1>1. n \in Nat /\ IsFiniteSet(1..n) /\ Cardinality(1..n) = n
  <2>1. n \in Nat
    BY FS_CardinalityType
  <2> HIDE DEF n
  <2> QED BY <2>1, FS_Interval
<1>2. ASSUME NEW x \in S
      PROVE  IsFiniteSet(below(x)) /\ Cardinality(below(x)) \in 1..n
  <2>1. below(x) \in SUBSET S /\ x \in below(x)
    OBVIOUS
  <2>2. IsFiniteSet(below(x)) /\ Cardinality(below(x)) <= n
    BY <2>1, FS_Subset
  <2>3. Cardinality(below(x)) \in Nat /\ Cardinality(below(x)) # 0
    BY <2>1, <2>2, FS_CardinalityType, FS_EmptySet
  <2> HIDE DEF below, n
  <2> QED BY <1>1, <2>2, <2>3
<1>3. ASSUME NEW x \in S, NEW y \in S, Cardinality(below(x)) = Cardinality(below(y)), x.seq <= y.seq PROVE x = y
  <2>1. below(x) \in SUBSET below(y)
    BY <1>3
  <2>2. below(x) = below(y)
    <3>1. IsFiniteSet(below(y))
      BY <1>2
    <3> HIDE DEF below
    <3> QED BY <1>3, <2>1, <3>1, FS_Subset
  <2>3. y \in below(x)
    BY <2>2
  <2> QED BY <1>3, <2>3
<1>4. f \in Injection(S, 1..n)
  <2>1. f \in [S -> 1..n]
    BY <1>2 DEF RowRank
  <2>2. ASSUME NEW x \in S, NEW y \in S, f[x] = f[y] PROVE x = y
    <3>1. Cardinality(below(x)) = Cardinality(below(y))
      BY <2>2 DEF RowRank
    <3>2. x.seq <= y.seq \/ y.seq <= x.seq
      OBVIOUS
    <3> HIDE DEF below
    <3> QED BY <1>3, <3>1, <3>2
  <2> HIDE DEF f
  <2> QED BY <2>1, <2>2 DEF Injection, IsInjective
<1>5. f \in Surjection(S, 1..n)
  <2> HIDE DEF f
  <2> QED BY <1>1, <1>4, FS_Injection
<1>6. ASSUME NEW j \in 1..n PROVE InOrder(S)[j] \in S /\ RowRank(S, InOrder(S)[j]) = j
  <2>1. \E x \in S : RowRank(S, x) = j
    BY <1>5 DEF Surjection
  <2>2. InOrder(S)[j] = CHOOSE x \in S : RowRank(S, x) = j
    BY DEF InOrder
  <2> QED BY <2>1, <2>2
<1>7. DOMAIN InOrder(S) = 1..n /\ InOrder(S) = [j \in 1..n |-> InOrder(S)[j]]
  BY DEF InOrder
<1>8. InOrder(S) \in [1..n -> S]
  <2> HIDE DEF n
  <2> QED BY <1>6, <1>7
<1>9. ASSUME NEW x \in S PROVE \E j \in 1..n : InOrder(S)[j] = x
  <2>1. PICK j \in 1..n : RowRank(S, x) = j
    BY <1>2 DEF RowRank
  <2>2. InOrder(S)[j] \in S /\ RowRank(S, InOrder(S)[j]) = RowRank(S, x)
    BY <1>6, <2>1
  <2>3. f[InOrder(S)[j]] = f[x]
    BY <2>2
  <2>4. InOrder(S)[j] = x
    <3> HIDE DEF f
    <3> QED BY <1>4, <2>2, <2>3 DEF Injection, IsInjective
  <2> QED BY <2>4
<1>10. ASSUME NEW i \in 1..n, NEW j \in 1..n, InOrder(S)[i] = InOrder(S)[j] PROVE i = j
  BY <1>6, <1>10
<1> QED BY <1>1, <1>8, <1>9, <1>10

(* What is exported of an item is its last row.                            *)
LEMMA ExportedIs ==
  ASSUME NEW l, NEW n, LogOf(l, n), NEW i \in Items
  PROVE  LET x == Exports(NoItems, l)[i]
             c == Applied(NoItems, l)[i] IN
         /\ x = Absent <=> c = Absent
         /\ x # Absent => /\ x = [content |-> c, seq |-> x.seq] /\ c \in Contents
                          /\ x.seq \in 1..Len(l) /\ l[x.seq].item = i
<1> DEFINE x == Exports(NoItems, l)[i]
           c == Applied(NoItems, l)[i]
<1>1. CASE About(l, i) = {}
  <2>1. x = Absent /\ c = Absent
    BY <1>1 DEF Exports, Applied, NoItems
  <2> QED BY <2>1
<1>2. CASE About(l, i) # {}
  <2>1. l \in Seq(Row) /\ \A j \in 1..Len(l) : l[j].seq = j
    BY DEF LogOf
  <2>2. PICK k \in About(l, i) : Latest(l, i) = l[k]
    BY <1>2, <2>1, LatestIs
  <2>3. k \in 1..Len(l) /\ l[k].item = i /\ l[k].seq = k /\ l[k] \in Row
    BY <2>1, <2>2 DEF About
  <2>4. c = l[k].content /\ x = Exported(l[k])
    BY <1>2, <2>2 DEF Exports, Applied
  <2>5. CASE c = Absent
    <3>1. x = Absent
      BY <2>4, <2>5 DEF Exported
    <3> QED BY <2>5, <3>1
  <2>6. CASE c # Absent
    <3>1. x = [content |-> c, seq |-> k] /\ c \in Contents /\ k \in Nat
      BY <2>3, <2>4, <2>6 DEF Exported, Row
    <3>2. x # Absent
      BY <3>1, DashboardAssumption
    <3> HIDE DEF x, c
    <3>3. x.seq = k
      BY <3>1
    <3> QED BY <2>3, <2>6, <3>1, <3>2, <3>3 DEF x, c
  <2> QED BY <2>5, <2>6
<1> QED BY <1>1, <1>2

(* A snapshot has what the log makes.                                      *)
LEMMA SnapshotMade ==
  ASSUME NEW l, NEW m, LogOf(l, m.seq), StoreOf(m, l)
  PROVE  SnapshotOf([mark |-> m.seq, rows |-> InOrder(LiveRows(m))], l, m.seq)
<1> DEFINE is == {j \in Items : m.current[j] # Absent}
           row(i) == [seq |-> m.current[i].seq, item |-> i, content |-> m.current[i].content]
           rows == InOrder(LiveRows(m))
<1>1. m.seq \in Nat /\ l \in Seq(Row) /\ Len(l) = m.seq /\ Upto(l, m.seq) = l
  BY SubSeqFull DEF LogOf, StoreOf, Upto
<1>2. m.current = Exports(NoItems, l)
  BY <1>1 DEF StoreOf
<1>3. \A i \in Items : /\ m.current[i] = Absent <=> Applied(NoItems, l)[i] = Absent
                       /\ m.current[i] # Absent =>
                            /\ m.current[i].content = Applied(NoItems, l)[i] /\ m.current[i].content \in Contents
                            /\ m.current[i].seq \in 1..m.seq /\ l[m.current[i].seq].item = i
  <2> SUFFICES ASSUME NEW i \in Items
               PROVE  /\ m.current[i] = Absent <=> Applied(NoItems, l)[i] = Absent
                      /\ m.current[i] # Absent =>
                            /\ m.current[i].content = Applied(NoItems, l)[i] /\ m.current[i].content \in Contents
                            /\ m.current[i].seq \in 1..m.seq /\ l[m.current[i].seq].item = i
    OBVIOUS
  <2>1. PICK x, c : x = m.current[i] /\ c = Applied(NoItems, l)[i]
    OBVIOUS
  <2>2. /\ x = Absent <=> c = Absent
        /\ x # Absent => /\ x = [content |-> c, seq |-> x.seq] /\ c \in Contents
                         /\ x.seq \in 1..Len(l) /\ l[x.seq].item = i
    BY <1>2, <2>1, ExportedIs
  <2>3. x # Absent => x.content = c
    BY <2>2
  <2> QED BY <1>1, <2>1, <2>2, <2>3
<1>4. LiveRows(m) = {row(i) : i \in is}
  BY DEF LiveRows
<1>5. \A i \in is : row(i).seq = m.current[i].seq /\ row(i).item = i /\ row(i).content = m.current[i].content
                    /\ row(i) \in Row /\ row(i).seq \in Nat
  BY <1>1, <1>3 DEF Row
<1>6. IsFiniteSet(LiveRows(m))
  <2>1. IsFiniteSet(is)
    BY FS_Subset, DashboardAssumption
  <2>2. [i \in is |-> row(i)] \in Surjection(is, LiveRows(m))
    BY <1>4 DEF Surjection
  <2> HIDE DEF is
  <2> QED BY <2>1, <2>2, FS_Surjection
<1>7. \A x \in LiveRows(m) : x.seq \in Nat /\ x \in Row
  BY <1>4, <1>5
<1>8. ASSUME NEW x \in LiveRows(m), NEW y \in LiveRows(m), x.seq = y.seq PROVE x = y
  <2>1. PICK i \in is, j \in is : x = row(i) /\ y = row(j)
    BY <1>4
  <2>2. m.current[i].seq = m.current[j].seq
    BY <1>5, <1>8, <2>1
  <2>3. i = j
    BY <1>3, <2>2
  <2> QED BY <2>1, <2>3
<1>9. PICK n \in Nat : /\ rows \in [1..n -> LiveRows(m)]
                       /\ \A x \in LiveRows(m) : \E j \in 1..n : rows[j] = x
                       /\ \A i, j \in 1..n : rows[i] = rows[j] => i = j
  BY <1>6, <1>7, <1>8, Ordered
<1> HIDE DEF rows
<1>10. rows \in Seq(Row) /\ Len(rows) = n /\ DOMAIN rows = 1..n
  <2>1. rows \in [1..n -> Row]
    BY <1>7, <1>9
  <2> QED BY <1>9, <2>1
<1>11. ASSUME NEW i \in Items PROVE Applied(NoItems, rows)[i] = Applied(NoItems, l)[i]
  <2>1. CASE m.current[i] = Absent
    <3>1. About(rows, i) = {}
      BY <1>4, <1>5, <1>9, <1>10, <2>1 DEF About
    <3>2. Applied(NoItems, rows)[i] = Absent
      BY <3>1 DEF Applied, NoItems
    <3> QED BY <1>3, <2>1, <3>2
  <2>2. CASE m.current[i] # Absent
    <3>1. PICK k \in 1..n : rows[k] = row(i)
      BY <1>4, <1>9, <2>2
    <3>2. i \in is
      BY <2>2
    <3>3. k \in About(rows, i)
      BY <1>5, <1>10, <3>1, <3>2 DEF About
    <3>4. ASSUME NEW j \in About(rows, i) PROVE j = k
      <4>1. j \in 1..n /\ rows[j] \in LiveRows(m) /\ rows[j].item = i
        BY <1>9, <1>10 DEF About
      <4>2. PICK h \in is : rows[j] = row(h)
        BY <1>4, <4>1
      <4>3. h = i
        BY <1>5, <4>1, <4>2
      <4> QED BY <1>9, <3>1, <4>1, <4>2, <4>3
    <3>5. \A j \in About(rows, i) : k >= j
      BY <3>1, <3>4
    <3>6. Latest(rows, i) = rows[k]
      BY <1>10, <3>3, <3>5, LatestOf
    <3>7. Applied(NoItems, rows)[i] = row(i).content
      BY <3>1, <3>3, <3>6 DEF Applied
    <3> QED BY <1>3, <1>5, <2>2, <3>2, <3>7
  <2> QED BY <2>1, <2>2
<1>12. Applied(NoItems, rows) = Applied(NoItems, l)
  BY <1>11 DEF Applied
<1>13. PICK s : s = [mark |-> m.seq, rows |-> rows]
  OBVIOUS
<1>14. s.mark = m.seq /\ s.rows = rows
  BY <1>13
<1>15. SnapshotOf(s, l, m.seq)
  BY <1>1, <1>10, <1>12, <1>14 DEF SnapshotOf
<1> QED BY <1>13, <1>15 DEF rows

(* Steps.                                                                  *)

(* What a step that leaves the readers alone must keep.                    *)
StoresKept ==
  /\ (LogOf(log, memory.seq) /\ StoreOf(memory, log) /\ StoreOf(stored, log))'
  /\ (~latch => stored.seq = memory.seq)'
  /\ Agree(log, log', stored.seq) /\ stored.seq <= stored'.seq

(* A log agrees with itself.                                               *)
LEMMA Same ==
  ASSUME MirrorInv
  PROVE  /\ Agree(log, log, stored.seq) /\ Agree(log, log, memory.seq)
         /\ stored.seq \in Nat /\ memory.seq \in Nat /\ stored.seq <= memory.seq /\ log \in Seq(Row)
BY DEF MirrorInv, LogOf, StoreOf, Agree

(* The stores after a write, a failed write, or a change in memory only.   *)
LEMMA StoreStep ==
  ASSUME MirrorInv, NEW m, NEW l, LogOf(l, m.seq), StoreOf(m, l),
         Agree(log, l, stored.seq), stored.seq <= m.seq, memory' = m, log' = l,
         \/ stored' = m /\ latch' = FALSE
         \/ UNCHANGED stored /\ latch' = TRUE
         \/ UNCHANGED <<stored, latch>> /\ m.seq = memory.seq
  PROVE  StoresKept
<1>1. StoreOf(stored, l)
  <2>1. PICK n, s : n = stored.seq /\ s = stored
    OBVIOUS
  <2>2. n <= n
    BY <2>1, Same
  <2>3. StoreOf(s, log) /\ s.seq <= n /\ Agree(log, l, n)
    BY <2>1, <2>2 DEF MirrorInv
  <2>4. StoreOf(s, l)
    BY <2>3, StoreStays
  <2> QED BY <2>1, <2>4
<1>2. (LogOf(log, memory.seq) /\ StoreOf(memory, log))'
  OBVIOUS
<1>3. StoreOf(stored, log)'
  BY <1>1
<1>4. (~latch => stored.seq = memory.seq)'
  BY DEF MirrorInv
<1>5. Agree(log, log', stored.seq) /\ stored.seq <= stored'.seq
  BY Same
<1> QED BY <1>2, <1>3, <1>4, <1>5 DEF StoresKept

(* A store of the new log is written, or its write fails.                  *)
LEMMA Persisted ==
  ASSUME MirrorInv, NEW m, NEW l, LogOf(l, m.seq), StoreOf(m, l), Agree(log, l, stored.seq),
         stored.seq <= m.seq, log' = l, Persist(m)
  PROVE  StoresKept
BY StoreStep DEF Persist

(* Or it was the same and is not written.                                  *)
LEMMA PersistedIfChanged ==
  ASSUME MirrorInv, NEW m, NEW l, LogOf(l, m.seq), StoreOf(m, l), Agree(log, l, stored.seq),
         stored.seq <= m.seq, log' = l, PersistIfChanged(m)
  PROVE  StoresKept
<1>1. CASE m # memory \/ latch
  BY <1>1, Persisted DEF PersistIfChanged
<1>2. CASE m = memory /\ ~latch
  <2>1. UNCHANGED storeVars
    BY <1>2 DEF PersistIfChanged
  <2> QED BY <1>2, <2>1, StoreStep DEF storeVars
<1> QED BY <1>1, <1>2

(* A store with the same rows, and no snapshots added.                     *)
LEMMA StoreLike ==
  ASSUME NEW l, NEW m, NEW x, StoreOf(m, l), x.seq = m.seq, x.current = m.current,
         x.journal = m.journal, x.snapshots \subseteq m.snapshots
  PROVE  StoreOf(x, l)
BY DEF StoreOf

(* A reader keeps what it has while the stores are kept.                   *)
LEMMA CursorsKept ==
  ASSUME MirrorInv, StoresKept, NEW c, NEW known, CursorOf(c, known, log, stored.seq)
  PROVE  CursorOf(c, known, log', stored'.seq)
<1>1. PICK n, k, l, t : n = stored.seq /\ k = stored'.seq /\ l = log /\ t = log'
  OBVIOUS
<1>2. n \in Nat /\ k \in Nat /\ n <= k /\ Agree(l, t, n)
  BY <1>1, Same DEF StoresKept, StoreOf
<1>3. CursorOf(c, known, t, n)
  BY <1>1, <1>2, CursorStays
<1>4. CursorOf(c, known, t, k)
  BY <1>2, <1>3, BoundGrows
<1> QED BY <1>1, <1>4

ConfiguredKept ==
  (/\ configured \in [Items -> Contents \cup {Absent}]
   /\ seen \in [Readers -> [Items -> Contents \cup {Absent}]])'

(* Readers that stay where they are have what they had.                    *)
LEMMA NobodyMoves ==
  ASSUME MirrorInv, StoresKept, ConfiguredKept, UNCHANGED <<cursor, held>>
  PROVE  MirrorInv'
<1>1. ASSUME NEW r \in Readers PROVE CursorOf(cursor[r], held[r], log, stored.seq)'
  <2>1. CursorOf(cursor[r], held[r], log', stored'.seq)
    BY CursorsKept DEF MirrorInv
  <2> QED BY <2>1
<1>2. (DOMAIN cursor = Readers /\ DOMAIN held = Readers)'
  BY DEF MirrorInv
<1> QED BY <1>1, <1>2 DEF MirrorInv, StoresKept, ConfiguredKept

(* One reader moves to what the stores bear out.                           *)
LEMMA OneMoves ==
  ASSUME MirrorInv, StoresKept, ConfiguredKept, NEW r \in Readers,
         (DOMAIN cursor = Readers /\ DOMAIN held = Readers)',
         \A s \in Readers \ {r} : cursor'[s] = cursor[s] /\ held'[s] = held[s],
         CursorOf(cursor'[r], held'[r], log', stored'.seq)
  PROVE  MirrorInv'
<1>1. ASSUME NEW s \in Readers PROVE CursorOf(cursor[s], held[s], log, stored.seq)'
  <2>1. CASE s = r
    BY <2>1
  <2>2. CASE s # r
    <3>1. cursor'[s] = cursor[s] /\ held'[s] = held[s]
      BY <2>2
    <3>2. CursorOf(cursor[s], held[s], log', stored'.seq)
      BY CursorsKept DEF MirrorInv
    <3> QED BY <3>1, <3>2
  <2> QED BY <2>1, <2>2
<1> QED BY <1>1 DEF MirrorInv, StoresKept, ConfiguredKept

(* Pages.                                                                  *)
LEMMA Least2 ==
  ASSUME NEW a \in Nat, NEW b \in Nat
  PROVE  Min({a, b}) \in {a, b} /\ Min({a, b}) <= a /\ Min({a, b}) <= b
<1>1. {a, b} \subseteq Nat /\ {a, b} # {}
  OBVIOUS
<1>2. Min({a, b}) \in {a, b} /\ \A j \in {a, b} : Min({a, b}) <= j
  BY <1>1, MinIs
<1> QED BY <1>2

(* What comes up to n is what comes up to k and then the rest.             *)
LEMMA UptoGrows ==
  ASSUME NEW l \in Seq(Row), NEW n \in 0..Len(l), NEW k \in 0..n
  PROVE  /\ Upto(l, n) = Upto(l, k) \o SubSeq(l, k + 1, n)
         /\ Upto(l, k) \in Seq(Row) /\ SubSeq(l, k + 1, n) \in Seq(Row) /\ Upto(l, n) \in Seq(Row)
<1>1. 1 \in 1..Len(l) + 1 /\ k \in 1 - 1..Len(l) /\ n \in k..Len(l) /\ k \in 0..Len(l) /\ 0 \in 0..k /\ 0 \in 0..n
  OBVIOUS
<1>2. SubSeq(l, 1, k) \o SubSeq(l, k + 1, n) = SubSeq(l, 1, n)
  BY <1>1, ConcatAdjacentSubSeq
<1>3. SubSeq(l, 0 + 1, k) \in Seq(Row) /\ SubSeq(l, 0 + 1, n) \in Seq(Row) /\ SubSeq(l, k + 1, n) \in Seq(Row)
  BY <1>1, Piece
<1>4. 0 + 1 = 1
  OBVIOUS
<1> QED BY <1>2, <1>3, <1>4 DEF Upto

(* A page of a snapshot.                                                   *)
LEMMA SnapshotPageMakes ==
  ASSUME NEW l, NEW n, NEW s, SnapshotOf(s, l, n), NEW offset \in 0..Len(s.rows),
         NEW known, known = Applied(NoItems, Upto(s.rows, offset)),
         NEW end, end = Min({offset + PageSize, Len(s.rows)})
  PROVE  CursorOf(IF end < Len(s.rows)
                    THEN [mode |-> "snapshot", of |-> s, offset |-> end] ELSE Incremental(s.mark),
                  Applied(known, SubSeq(s.rows, offset + 1, end)), l, n)
<1>1. s.rows \in Seq(Row) /\ Len(s.rows) \in Nat /\ PageSize \in Nat
  BY DashboardAssumption DEF SnapshotOf
<1>2. end \in 0..Len(s.rows) /\ offset \in 0..end
  <2>1. offset + PageSize \in Nat
    BY <1>1
  <2>2. end \in {offset + PageSize, Len(s.rows)} /\ end <= offset + PageSize /\ end <= Len(s.rows)
    BY <1>1, <2>1, Least2
  <2> QED BY <1>1, <2>2
<1>3. PICK now : now = Applied(known, SubSeq(s.rows, offset + 1, end))
  OBVIOUS
<1>4. now = Applied(NoItems, Upto(s.rows, end))
  <2>1. /\ Upto(s.rows, end) = Upto(s.rows, offset) \o SubSeq(s.rows, offset + 1, end)
        /\ Upto(s.rows, offset) \in Seq(Row) /\ SubSeq(s.rows, offset + 1, end) \in Seq(Row)
    BY <1>1, <1>2, UptoGrows
  <2>2. PICK a, b : a = Upto(s.rows, offset) /\ b = SubSeq(s.rows, offset + 1, end)
    OBVIOUS
  <2>3. Applied(Applied(NoItems, a), b) = Applied(NoItems, a \o b)
    BY <2>1, <2>2, AppliedConcat
  <2> QED BY <1>3, <2>1, <2>2, <2>3
<1>5. CASE end < Len(s.rows)
  <2>1. PICK c : c = [mode |-> "snapshot", of |-> s, offset |-> end]
    OBVIOUS
  <2>2. c.mode = "snapshot" /\ c.of = s /\ c.offset = end
    BY <2>1
  <2>3. CursorOf(c, now, l, n)
    BY <1>2, <1>4, <2>1, <2>2 DEF CursorOf
  <2> QED BY <1>3, <1>5, <2>1, <2>3
<1>6. CASE ~(end < Len(s.rows))
  <2>1. end = Len(s.rows)
    BY <1>1, <1>2, <1>6
  <2>2. Upto(s.rows, end) = s.rows
    BY <1>1, <2>1, SubSeqFull DEF Upto
  <2>3. now = Applied(NoItems, Upto(l, s.mark)) /\ s.mark \in 0..n
    BY <1>4, <2>2 DEF SnapshotOf
  <2>4. PICK c : c = Incremental(s.mark)
    OBVIOUS
  <2>5. c.mode = "incremental" /\ c.mark = s.mark
    BY <2>4 DEF Incremental
  <2>6. CursorOf(c, now, l, n)
    BY <2>3, <2>4, <2>5 DEF CursorOf
  <2> QED BY <1>3, <1>6, <2>4, <2>6
<1> QED BY <1>5, <1>6

(* A page of the journal.                                                  *)
LEMMA JournalPageMakes ==
  ASSUME NEW l, NEW m, LogOf(l, m.seq), StoreOf(m, l), NEW mark \in 0..m.seq,
         NEW known, known = Applied(NoItems, Upto(l, mark)), ~TooOld(m.journal, mark),
         NEW rows, rows = RowsAfter(m.journal, mark),
         NEW page, page = SubSeq(rows, 1, Min({PageSize, Len(rows)})), page # <<>>
  PROVE  CursorOf(Incremental(Last(page).seq), Applied(known, page), l, m.seq)
<1> DEFINE J == m.journal
           later == {j \in DOMAIN J : J[j].seq > mark}
<1>1. m.seq \in Nat /\ l \in Seq(Row) /\ Len(l) = m.seq /\ \A j \in 1..m.seq : l[j].seq = j
  BY DEF LogOf, StoreOf
<1>2. PICK h : h = m.seq
  OBVIOUS
<1>3. PICK k \in 0..h : J = SubSeq(l, k + 1, h)
  BY <1>2 DEF StoreOf
<1>4. J \in Seq(Row) /\ Len(J) = h - k /\ \A j \in 1..h - k : J[j] = l[k + j] /\ J[j].seq = k + j
  <2>1. J \in Seq(Row) /\ Len(J) = h - k /\ \A j \in 1..h - k : J[j] = l[k + j]
    <3>1. h \in 0..Len(l) /\ k \in 0..h /\ l \in Seq(Row)
      BY <1>1, <1>2
    <3>2. SubSeq(l, k + 1, h) \in Seq(Row) /\ Len(SubSeq(l, k + 1, h)) = h - k
          /\ \A j \in 1..h - k : SubSeq(l, k + 1, h)[j] = l[k + j]
      BY <3>1, Piece
    <3> QED BY <3>2, <1>3
  <2>2. \A j \in 1..h - k : k + j \in 1..h
    BY <1>1, <1>2
  <2> HIDE DEF J
  <2> QED BY <1>1, <1>2, <2>1, <2>2
<1>5. later = {j \in 1..h - k : k + j > mark}
  BY <1>4
<1>7. later # {}
  <2>1. SUFFICES ASSUME later = {} PROVE FALSE
    OBVIOUS
  <2>2. rows = <<>>
    BY <2>1 DEF RowsAfter
  <2>3. Len(rows) = 0 /\ PageSize \in Nat
    BY <2>2, DashboardAssumption
  <2>4. Min({PageSize, Len(rows)}) \in {PageSize, 0} /\ Min({PageSize, Len(rows)}) <= 0
    BY <2>3, Least2
  <2>5. page = <<>>
    BY <2>2, <2>3, <2>4
  <2> QED BY <2>5
<1>8. rows = SubSeq(J, Min(later), Len(J))
  BY <1>7 DEF RowsAfter
<1> HIDE DEF later
<1>9. J # <<>> /\ k <= mark /\ h - k \in Nat /\ 1 \in 1..h - k
  <2>1. PICK j \in 1..h - k : k + j > mark
    BY <1>5, <1>7
  <2>2. 1 \in 1..h - k /\ J[1].seq = k + 1 /\ h - k \in Nat
    BY <1>1, <1>2, <1>4, <2>1
  <2>3. J # <<>>
    BY <1>4, <2>2
  <2>4. ~(mark + 1 < J[1].seq)
    BY <2>3 DEF TooOld
  <2> QED BY <1>1, <1>2, <2>2, <2>3, <2>4
<1>10. Min(later) = mark - k + 1 /\ mark < h
  <2>1. later \subseteq Nat
    BY <1>5
  <2>2. Min(later) \in later /\ \A j \in later : Min(later) <= j
    BY <1>7, <2>1, MinIs
  <2>3. Min(later) \in 1..h - k /\ k + Min(later) > mark
    BY <1>5, <2>2
  <2>4. mark \in Nat /\ k \in Nat /\ h \in Nat
    BY <1>1, <1>2
  <2>5. mark - k + 1 \in 1..h - k /\ k + (mark - k + 1) > mark
    BY <1>9, <2>3, <2>4
  <2>6. mark - k + 1 \in later
    BY <1>5, <2>5
  <2>7. Min(later) <= mark - k + 1
    BY <2>2, <2>6
  <2> QED BY <2>3, <2>4, <2>5, <2>7
<1>11. rows \in Seq(Row) /\ Len(rows) = h - mark /\ \A j \in 1..h - mark : rows[j] = l[mark + j]
  <2>1. PICK d : d = mark - k
    OBVIOUS
  <2>2. d \in 0..Len(J) /\ Len(J) \in 0..Len(J) /\ mark = k + d /\ k \in Nat /\ h \in Nat /\ d \in Nat /\ Len(J) = h - k
    <3>1. h \in Nat /\ k \in Nat /\ mark \in Nat /\ k <= mark /\ mark < h
      BY <1>1, <1>2, <1>9, <1>10
    <3>2. Len(J) = h - k /\ h - k \in Nat
      BY <1>4, <1>9
    <3> HIDE DEF J
    <3> QED BY <2>1, <3>1, <3>2
  <2>3. rows = SubSeq(J, d + 1, Len(J))
    BY <1>8, <1>10, <2>1
  <2>4. PICK e : e = Len(J) /\ e \in 0..Len(J) /\ d \in 0..e
    BY <2>2
  <2>5. rows \in Seq(Row) /\ Len(rows) = e - d /\ \A j \in 1..e - d : rows[j] = J[d + j]
    <3>1. rows = SubSeq(J, d + 1, e) /\ J \in Seq(Row)
      BY <1>4, <2>3, <2>4
    <3> HIDE DEF J
    <3> QED BY <2>4, <3>1, Piece
  <2>6. e - d = h - mark
    BY <2>2, <2>4
  <2>7. ASSUME NEW j \in 1..h - mark PROVE rows[j] = l[mark + j]
    <3>1. d + j \in 1..h - k /\ k + (d + j) = mark + j
      BY <2>2
    <3>2. rows[j] = J[d + j] /\ J[d + j] = l[k + (d + j)]
      BY <1>4, <2>5, <2>6, <3>1
    <3> QED BY <3>1, <3>2
  <2> QED BY <2>5, <2>6, <2>7
<1>12. PICK e : e = Min({PageSize, Len(rows)})
  OBVIOUS
<1>13. e \in 1..h - mark
  <2>1. PageSize \in Nat \ {0} /\ Len(rows) \in Nat \ {0} /\ Len(rows) = h - mark
    BY <1>1, <1>2, <1>10, <1>11, DashboardAssumption
  <2>2. e \in {PageSize, Len(rows)} /\ e <= Len(rows)
    BY <1>12, <2>1, Least2
  <2> QED BY <2>1, <2>2
<1>14. page \in Seq(Row) /\ Len(page) = e /\ \A j \in 1..e : page[j] = rows[j]
  <2>1. e \in 0..Len(rows) /\ e \in Nat
    BY <1>1, <1>2, <1>10, <1>11, <1>13
  <2>2. PICK z : z = 0
    OBVIOUS
  <2>3. z \in 0..e /\ page = SubSeq(rows, z + 1, e)
    BY <1>12, <2>1, <2>2
  <2>4. page \in Seq(Row) /\ Len(page) = e - z /\ \A j \in 1..e - z : page[j] = rows[z + j]
    <3>1. rows \in Seq(Row) /\ e \in 0..Len(rows) /\ z \in 0..e
      BY <1>11, <2>1, <2>3
    <3>2. /\ SubSeq(rows, z + 1, e) \in Seq(Row) /\ Len(SubSeq(rows, z + 1, e)) = e - z
          /\ \A j \in 1..e - z : SubSeq(rows, z + 1, e)[j] = rows[z + j]
      BY ONLY <3>1, Piece
    <3> QED BY <2>3, <3>2
  <2>5. e - z = e /\ \A j \in 1..e : z + j = j
    BY <2>1, <2>2
  <2> QED BY <2>4, <2>5
<1>15. mark \in Nat /\ mark + e \in 0..Len(l) /\ mark \in 0..mark + e /\ mark + e \in 1..h
  BY <1>1, <1>2, <1>13
<1>16. page = SubSeq(l, mark + 1, mark + e)
  <2>1. PICK v : v = SubSeq(l, mark + 1, mark + e)
    OBVIOUS
  <2>2. PICK g : g = mark + e
    OBVIOUS
  <2>3. v \in Seq(Row) /\ Len(v) = g - mark /\ \A j \in 1..g - mark : v[j] = l[mark + j]
    BY <1>1, <1>15, <2>1, <2>2, Piece
  <2>4. g - mark = e
    BY <1>13, <1>15, <2>2
  <2>5. \A j \in 1..e : page[j] = v[j]
    <3>1. \A j \in 1..e : j \in 1..h - mark
      BY <1>1, <1>2, <1>10, <1>13
    <3> QED BY <1>11, <1>14, <2>3, <2>4, <3>1
  <2>6. page = v
    BY <1>14, <2>3, <2>4, <2>5, SeqEqual
  <2> QED BY <2>1, <2>6
<1>17. Last(page).seq = mark + e
  <2>1. Last(page) = page[e]
    BY <1>14 DEF Last
  <2>2. h - mark \in Int
    BY <1>1, <1>2
  <2>3. e \in 1..e /\ e \in 1..h - mark
    BY <1>13, <2>2
  <2>4. page[e] = l[mark + e]
    BY <1>11, <1>14, <2>3
  <2> QED BY <1>1, <1>2, <1>15, <2>1, <2>4
<1>18. Applied(known, page) = Applied(NoItems, Upto(l, mark + e))
  <2>1. /\ Upto(l, mark + e) = Upto(l, mark) \o SubSeq(l, mark + 1, mark + e)
        /\ Upto(l, mark) \in Seq(Row) /\ SubSeq(l, mark + 1, mark + e) \in Seq(Row)
    BY <1>1, <1>15, UptoGrows
  <2>2. PICK a, b : a = Upto(l, mark) /\ b = SubSeq(l, mark + 1, mark + e)
    OBVIOUS
  <2>3. Applied(Applied(NoItems, a), b) = Applied(NoItems, a \o b)
    BY <2>1, <2>2, AppliedConcat
  <2> QED BY <1>16, <2>1, <2>2, <2>3
<1>19. PICK c : c = Incremental(mark + e)
  OBVIOUS
<1>20. c.mode = "incremental" /\ c.mark = mark + e
  BY <1>19 DEF Incremental
<1>21. CursorOf(c, Applied(known, page), l, m.seq)
  BY <1>2, <1>15, <1>18, <1>19, <1>20 DEF CursorOf
<1> QED BY <1>17, <1>19, <1>21

(* A cleaned store of the log is one, and may become the store.            *)
LEMMA CleanedMemory ==
  ASSUME MirrorInv, NEW x \in Cleanups(memory)
  PROVE  /\ StoreOf(x, log) /\ x.seq = memory.seq /\ x.current = memory.current /\ LogOf(log, x.seq)
         /\ Agree(log, log, stored.seq) /\ stored.seq <= x.seq /\ x.seq \in Nat
<1>1. log \in Seq(Row) /\ StoreOf(memory, log)
  BY Same DEF MirrorInv
<1>2. StoreOf(x, log) /\ x.seq = memory.seq /\ x.current = memory.current
  BY <1>1, CleanedStore
<1> QED BY <1>2, Same DEF MirrorInv

(* Cleaning up keeps the form of a store.                                  *)
LEMMA CleanedForm ==
  ASSUME NEW m, NEW x \in Cleanups(m)
  PROVE  x = [seq |-> x.seq, current |-> x.current, journal |-> x.journal, snapshots |-> x.snapshots,
              detections |-> x.detections, gap |-> x.gap, clean |-> x.clean]
BY DEF Cleanups, CutAt

(* Stores that differ in what the mirror does not read.                    *)
LEMMA NotedKeeps ==
  ASSUME MirrorInv, NEW x, StoreOf(x, log), x.seq = memory.seq,
         \/ Persist(x)
         \/ memory' = x /\ UNCHANGED <<stored, latch, fails>>,
         UNCHANGED <<configured, readerVars, log>>
  PROVE  MirrorInv'
<1>1. LogOf(log, x.seq) /\ Agree(log, log, stored.seq) /\ stored.seq <= x.seq
  BY Same DEF MirrorInv
<1>2. CASE Persist(x)
  <2>1. StoresKept
    BY <1>1, <1>2, Persisted DEF readerVars
  <2> QED BY <2>1, NobodyMoves DEF MirrorInv, ConfiguredKept, readerVars
<1>3. CASE memory' = x /\ UNCHANGED <<stored, latch, fails>>
  <2>1. StoresKept
    BY <1>1, <1>3, StoreStep DEF readerVars
  <2> QED BY <2>1, NobodyMoves DEF MirrorInv, ConfiguredKept, readerVars
<1> QED BY <1>2, <1>3

(* A detection changes no row.                                             *)
LEMMA AppendKeepsMirror ==
  ASSUME MirrorInv, AppendDetection
  PROVE  MirrorInv'
<1>1. PICK m \in Cleanups(memory) :
        IF Cardinality(m.detections) >= DetectionMaxRows
          THEN memory' = m /\ hand' = TRUE /\ UNCHANGED <<stored, latch, fails>>
          ELSE Persist([m EXCEPT !.detections = @ \cup {Head(backlog)}]) /\ hand' = latch'
  BY DEF AppendDetection
<1>2. StoreOf(m, log) /\ m.seq = memory.seq
  BY CleanedMemory
<1>3. UNCHANGED <<configured, readerVars, log>>
  BY DEF AppendDetection, PlaneKeeps
<1>4. PICK x : x = [m EXCEPT !.detections = @ \cup {Head(backlog)}]
  OBVIOUS
<1>5. x.seq = m.seq /\ x.current = m.current /\ x.journal = m.journal /\ x.snapshots = m.snapshots
  BY <1>4, CleanedForm
<1>6. StoreOf(x, log)
  BY <1>2, <1>5, StoreLike
<1>7. Persist(x) \/ (memory' = m /\ UNCHANGED <<stored, latch, fails>>)
  BY <1>1, <1>4
<1>8. CASE Persist(x)
  BY <1>2, <1>3, <1>5, <1>6, <1>8, NotedKeeps
<1>9. CASE memory' = m /\ UNCHANGED <<stored, latch, fails>>
  BY <1>2, <1>3, <1>9, NotedKeeps
<1> QED BY <1>7, <1>8, <1>9

(* Nor does the mark of a gap.                                             *)
LEMMA MarkKeepsMirror ==
  ASSUME MirrorInv, IsStore(memory), MarkDetectionDrop, UNCHANGED <<configured, readerVars, log>>
  PROVE  MirrorInv'
<1>1. PICK x : x = [memory EXCEPT !.gap = TRUE]
  OBVIOUS
<1>2. x.seq = memory.seq /\ x.current = memory.current /\ x.journal = memory.journal /\ x.snapshots = memory.snapshots
  BY <1>1 DEF IsStore
<1>3. StoreOf(x, log)
  BY <1>2, StoreLike DEF MirrorInv
<1>4. Persist(x)
  BY <1>1 DEF MarkDetectionDrop
<1> QED BY <1>2, <1>3, <1>4, NotedKeeps

(* Nor a clean shutdown.                                                   *)
LEMMA CloseKeepsMirror ==
  ASSUME MirrorInv, IsStore(memory), CloseClean
  PROVE  MirrorInv'
<1>1. PICK x : x = [memory EXCEPT !.clean = TRUE]
  OBVIOUS
<1>2. x.seq = memory.seq /\ x.current = memory.current /\ x.journal = memory.journal /\ x.snapshots = memory.snapshots
  BY <1>1 DEF IsStore
<1>3. StoreOf(x, log)
  BY <1>2, StoreLike DEF MirrorInv
<1>4. Persist(x) /\ UNCHANGED <<configured, readerVars, log>>
  BY <1>1 DEF CloseClean, PlaneKeeps
<1> QED BY <1>2, <1>3, <1>4, NotedKeeps

(* Steps that touch no store.                                              *)
LEMMA RestKeepsMirror ==
  ASSUME MirrorInv, UNCHANGED <<memory, stored, latch, cursor, held, log>>, ConfiguredKept
  PROVE  MirrorInv'
<1>1. StoresKept
  BY Same, StoreStep DEF MirrorInv
<1> QED BY <1>1, NobodyMoves

(* A file that is read again: the log is what it has.                      *)
LEMMA BootKeepsMirror ==
  ASSUME MirrorInv, Boots
  PROVE  MirrorInv'
<1>1. PICK m \in Cleanups(Reopened(stored)) : Persist(m)
  BY DEF Boots
<1>2. PICK n, l : n = stored.seq /\ l = Upto(log, n)
  OBVIOUS
<1>3. log \in Seq(Row) /\ n \in 0..Len(log) /\ n \in Nat /\ Len(log) \in Nat /\ n <= n
  <2>1. log \in Seq(Row) /\ stored.seq \in Nat /\ stored.seq \in 0..Len(log)
    BY Same DEF MirrorInv, StoreOf
  <2>2. Len(log) \in Nat
    BY <2>1
  <2> QED BY <1>2, <2>1, <2>2
<1>4. l \in Seq(Row) /\ Len(l) = n /\ \A j \in 1..n : l[j] = log[j]
  <2>1. PICK z : z = 0
    OBVIOUS
  <2>2. z \in 0..n /\ l = SubSeq(log, z + 1, n)
    BY <1>2, <1>3, <2>1 DEF Upto
  <2>3. l \in Seq(Row) /\ Len(l) = n - z /\ \A j \in 1..n - z : l[j] = log[z + j]
    BY <1>3, <2>2, Piece
  <2>4. n - z = n /\ \A j \in 1..n : z + j = j
    BY <1>3, <2>1
  <2> QED BY <2>3, <2>4
<1>5. Agree(log, l, n)
  BY <1>3, <1>4 DEF Agree
<1>6. LogOf(l, n)
  BY <1>3, <1>4 DEF LogOf, MirrorInv
<1>7. StoreOf(stored, l)
  <2>1. PICK s : s = stored
    OBVIOUS
  <2>2. StoreOf(s, log) /\ s.seq <= n
    BY <1>2, <1>3, <2>1 DEF MirrorInv
  <2>3. StoreOf(s, l)
    BY <1>5, <2>2, StoreStays
  <2> QED BY <2>1, <2>3
<1>8. PICK x : x = Reopened(stored)
  OBVIOUS
<1>9. x.seq = stored.seq /\ x.current = stored.current /\ x.journal = stored.journal /\ x.snapshots = stored.snapshots
  BY <1>8 DEF Reopened
<1>10. StoreOf(x, l)
  BY <1>7, <1>9, StoreLike
<1>11. StoreOf(m, l) /\ m.seq = x.seq
  BY <1>1, <1>4, <1>8, <1>10, CleanedStore
<1>12. log' = l
  BY <1>2 DEF Boots, Upto
<1>13. StoresKept
  BY <1>1, <1>2, <1>3, <1>5, <1>6, <1>9, <1>11, <1>12, Persisted
<1>14. ConfiguredKept /\ UNCHANGED <<cursor, held>>
  BY DEF ConfiguredKept, Boots, MirrorInv
<1> QED BY <1>13, <1>14, NobodyMoves

(* The store follows the runtime.                                          *)
LEMMA SyncKeepsMirror ==
  ASSUME MirrorInv, NEW r \in Readers, SyncNativeState(r)
  PROVE  MirrorInv'
<1>1. PICK rows : rows = Rows(memory, seen[r])
  OBVIOUS
<1>2. PICK m \in Cleanups(Sync(memory, rows)) : PersistIfChanged(m)
  BY <1>1 DEF SyncNativeState
<1>3. memory.seq \in Nat /\ seen[r] \in [Items -> Contents \cup {Absent}]
  BY Same DEF MirrorInv
<1>4. rows \in Seq(Row) /\ \A j \in 1..Len(rows) : rows[j].seq = memory.seq + j
  BY <1>1, <1>3, RowsAre
<1>5. PICK x, l, t : x = Sync(memory, rows) /\ l = log /\ t = l \o rows
  OBVIOUS
<1>6. LogOf(l, memory.seq) /\ StoreOf(memory, l)
  BY <1>5 DEF MirrorInv
<1>7. /\ LogOf(t, memory.seq + Len(rows)) /\ Agree(l, t, memory.seq)
  BY <1>3, <1>4, <1>5, <1>6, LogGrows
<1>8. StoreOf(x, t) /\ x.seq = memory.seq + Len(rows)
  <2>1. PICK y : y = memory
    OBVIOUS
  <2>2. StoreOf(Sync(y, rows), l \o rows) /\ Sync(y, rows).seq = y.seq + Len(rows)
    BY <1>4, <1>6, <2>1, SyncedStore
  <2> QED BY <1>5, <2>1, <2>2
<1>9. t \in Seq(Row) /\ m \in Cleanups(x)
  BY <1>2, <1>5, <1>7 DEF LogOf
<1>10. StoreOf(m, t) /\ m.seq = x.seq
  BY <1>8, <1>9, CleanedStore
<1>11. log' = t
  BY <1>1, <1>5 DEF SyncNativeState
<1>12. Agree(log, t, stored.seq) /\ stored.seq <= m.seq /\ LogOf(t, m.seq)
  BY <1>4, <1>5, <1>7, <1>8, <1>10, Same DEF Agree
<1>13. StoresKept
  BY <1>2, <1>10, <1>11, <1>12, PersistedIfChanged
<1>14. ConfiguredKept /\ UNCHANGED <<cursor, held>>
  <2>1. NoItems \in [Items -> Contents \cup {Absent}]
    BY DEF NoItems
  <2> QED BY <2>1 DEF ConfiguredKept, SyncNativeState, ReaderKeeps, MirrorInv
<1> QED BY <1>13, <1>14, NobodyMoves

(* What a reader's answer, if it arrives, leaves.                          *)
LEMMA ArrivesKeeps ==
  ASSUME MirrorInv, StoresKept, ConfiguredKept, NEW r \in Readers, NEW c, NEW known, Arrives(r, c, known),
         CursorOf(c, known, log', stored'.seq)
  PROVE  MirrorInv'
<1>1. CASE cursor' = [cursor EXCEPT ![r] = c] /\ held' = [held EXCEPT ![r] = known]
  <2>1. (DOMAIN cursor = Readers /\ DOMAIN held = Readers)' /\ cursor'[r] = c /\ held'[r] = known
    BY <1>1 DEF MirrorInv
  <2>2. \A s \in Readers \ {r} : cursor'[s] = cursor[s] /\ held'[s] = held[s]
    BY <1>1 DEF MirrorInv
  <2> QED BY <2>1, <2>2, OneMoves
<1>2. CASE UNCHANGED <<cursor, held>>
  BY <1>2, NobodyMoves
<1> QED BY <1>1, <1>2 DEF Arrives

(* A reader that is told to begin again has nothing to be wrong about.     *)
LEMMA ResetsKeeps ==
  ASSUME MirrorInv, StoresKept, ConfiguredKept, NEW r \in Readers, Resets(r)
  PROVE  MirrorInv'
<1>1. (DOMAIN cursor = Readers /\ DOMAIN held = Readers)' /\ cursor'[r] = Start
  BY DEF Resets, MirrorInv
<1>2. \A s \in Readers \ {r} : cursor'[s] = cursor[s] /\ held'[s] = held[s]
  BY DEF Resets, MirrorInv
<1>3. CursorOf(cursor'[r], held'[r], log', stored'.seq)
  BY <1>1 DEF CursorOf
<1> QED BY <1>1, <1>2, <1>3, OneMoves

(* A page of a snapshot that the stores bear out.                          *)
LEMMA SnapshotPageKeeps ==
  ASSUME MirrorInv, StoresKept, ConfiguredKept, NEW r \in Readers, NEW s, NEW offset, NEW known,
         SnapshotOf(s, log', stored'.seq), offset \in 0..Len(s.rows),
         known = Applied(NoItems, Upto(s.rows, offset)), SnapshotPage(r, s, offset, known)
  PROVE  MirrorInv'
<1>1. PICK end : end = Min({offset + PageSize, Len(s.rows)})
  OBVIOUS
<1>2. PICK c, now : /\ c = IF end < Len(s.rows)
                             THEN [mode |-> "snapshot", of |-> s, offset |-> end] ELSE Incremental(s.mark)
                    /\ now = Applied(known, SubSeq(s.rows, offset + 1, end))
  OBVIOUS
<1>3. Arrives(r, c, now)
  BY <1>1, <1>2 DEF SnapshotPage
<1>4. PICK l, n : l = log' /\ n = stored'.seq
  OBVIOUS
<1>5. CursorOf(c, now, l, n)
  BY <1>1, <1>2, <1>4, SnapshotPageMakes
<1> QED BY <1>3, <1>4, <1>5, ArrivesKeeps

(* Each kind of page.                                                      *)
PageKeeps == UNCHANGED <<configured, seen, log>>

(* The first page of a new snapshot, if it could be written.               *)
LEMMA NewSnapshotKeeps ==
  ASSUME MirrorInv, NEW r \in Readers, NEW m \in Cleanups(memory), NewSnapshot(r, m), PageKeeps
  PROVE  MirrorInv'
<1>1. /\ StoreOf(m, log) /\ m.seq = memory.seq /\ LogOf(log, m.seq) /\ Agree(log, log, stored.seq)
      /\ stored.seq <= m.seq /\ m.seq \in Nat
  BY CleanedMemory
<1>2. ConfiguredKept /\ log' = log
  BY DEF ConfiguredKept, MirrorInv, PageKeeps
<1>3. CASE Cardinality(m.snapshots) >= SnapshotMax
  <2>1. memory' = m /\ UNCHANGED <<stored, latch, fails, cursor, held>>
    BY <1>3 DEF NewSnapshot
  <2>2. StoresKept
    BY <1>1, <1>2, <2>1, StoreStep
  <2> QED BY <1>2, <2>1, <2>2, NobodyMoves
<1>4. CASE ~(Cardinality(m.snapshots) >= SnapshotMax)
  <2>1. PICK s : s = [mark |-> m.seq, rows |-> InOrder(LiveRows(m))]
    OBVIOUS
  <2>2. PICK x : x = [m EXCEPT !.snapshots = @ \cup {s}]
    OBVIOUS
  <2>3. Persist(x) /\ IF latch' THEN UNCHANGED <<cursor, held>> ELSE SnapshotPage(r, s, 0, NoItems)
    BY <1>4, <2>1, <2>2 DEF NewSnapshot
  <2>4. x.seq = m.seq /\ x.current = m.current /\ x.journal = m.journal /\ x.snapshots = m.snapshots \cup {s}
    BY <2>2, CleanedForm
  <2>5. SnapshotOf(s, log, m.seq)
    BY <1>1, <2>1, SnapshotMade
  <2>6. StoreOf(x, log)
    BY <1>1, <2>4, <2>5 DEF StoreOf
  <2>7. StoresKept
    BY <1>1, <1>2, <2>3, <2>4, <2>6, Persisted
  <2>8. CASE latch'
    BY <1>2, <2>3, <2>7, <2>8, NobodyMoves
  <2>9. CASE ~latch'
    <3>1. stored'.seq = m.seq
      BY <2>3, <2>4, <2>9 DEF Persist
    <3>2. SnapshotOf(s, log', stored'.seq)
      BY <1>2, <2>5, <3>1
    <3>3. PICK offset, known : offset = 0 /\ known = NoItems
      OBVIOUS
    <3>4. s.rows \in Seq(Row) /\ Len(s.rows) \in Nat /\ offset \in 0..Len(s.rows)
      BY <2>5, <3>3 DEF SnapshotOf
    <3>5. Upto(s.rows, offset) = <<>>
      BY <3>3, <3>4 DEF Upto
    <3>6. known = Applied(NoItems, Upto(s.rows, offset))
      BY <3>3, <3>5, NothingApplied
    <3>7. SnapshotPage(r, s, offset, known)
      BY <2>3, <2>9, <3>3
    <3> QED BY <1>2, <2>7, <3>2, <3>4, <3>6, <3>7, SnapshotPageKeeps
  <2> QED BY <2>8, <2>9
<1> QED BY <1>3, <1>4

(* The modes of cursors.                                                   *)
LEMMA CursorModes ==
  ASSUME MirrorInv, NEW r \in Readers
  PROVE  /\ cursor[r].mode = "snapshot" =>
              /\ SnapshotOf(cursor[r].of, log, stored.seq) /\ cursor[r].offset \in 0..Len(cursor[r].of.rows)
              /\ held[r] = Applied(NoItems, Upto(cursor[r].of.rows, cursor[r].offset))
         /\ cursor[r].mode = "incremental" =>
              /\ cursor[r].mark \in 0..stored.seq /\ held[r] = Applied(NoItems, Upto(log, cursor[r].mark))
<1>1. PICK c, known : c = cursor[r] /\ known = held[r]
  OBVIOUS
<1>2. CursorOf(c, known, log, stored.seq)
  BY <1>1 DEF MirrorInv
<1>3. Start.mode = "none"
  BY DEF Start
<1>4. c = Start => c.mode = "none"
  BY <1>3
<1> QED BY <1>1, <1>2, <1>4 DEF CursorOf

(* A later page, or the end of a snapshot that has expired.                *)
LEMMA NextSnapshotPageKeeps ==
  ASSUME MirrorInv, NEW r \in Readers, IsStore(memory), NextSnapshotPage(r), PageKeeps
  PROVE  MirrorInv'
<1>1. ConfiguredKept /\ log' = log
  BY DEF ConfiguredKept, MirrorInv, PageKeeps
<1>2. PICK s, offset, known : s = cursor[r].of /\ offset = cursor[r].offset /\ known = held[r]
  OBVIOUS
<1>3. cursor[r].mode = "snapshot"
  BY DEF NextSnapshotPage
<1>4. CASE SnapshotPage(r, s, offset, known) /\ UNCHANGED storeVars
  <2>1. StoresKept
    BY <1>1, <1>4, Same, StoreStep DEF MirrorInv, storeVars
  <2>2. /\ SnapshotOf(s, log', stored'.seq) /\ offset \in 0..Len(s.rows)
        /\ known = Applied(NoItems, Upto(s.rows, offset))
    <3>1. log' = log /\ stored' = stored
      BY <1>1, <1>4 DEF storeVars
    <3> QED BY <1>2, <1>3, <3>1, CursorModes
  <2> QED BY <1>1, <1>4, <2>1, <2>2, SnapshotPageKeeps
<1>5. CASE Resets(r) /\ PersistIfChanged([memory EXCEPT !.snapshots = @ \ {s}])
  <2>1. PICK x : x = [memory EXCEPT !.snapshots = @ \ {s}]
    OBVIOUS
  <2>2. x.seq = memory.seq /\ x.current = memory.current /\ x.journal = memory.journal /\ x.snapshots \subseteq memory.snapshots
    BY <2>1 DEF IsStore
  <2>3. StoreOf(x, log)
    BY <2>2, StoreLike DEF MirrorInv
  <2>4. StoresKept
    BY <1>1, <1>5, <2>1, <2>2, <2>3, Same, PersistedIfChanged DEF MirrorInv
  <2> QED BY <1>1, <1>5, <2>4, ResetsKeeps
<1>6. \/ SnapshotPage(r, s, offset, known) /\ UNCHANGED storeVars
      \/ Resets(r) /\ PersistIfChanged([memory EXCEPT !.snapshots = @ \ {s}])
  BY <1>2 DEF NextSnapshotPage
<1> QED BY <1>4, <1>5, <1>6

(* A page of the journal, unless rows the reader needs have gone.          *)
LEMMA JournalPageKeeps ==
  ASSUME MirrorInv, NEW r \in Readers, NEW m \in Cleanups(memory), JournalPage(r, m), PageKeeps
  PROVE  MirrorInv'
<1>1. /\ StoreOf(m, log) /\ m.seq = memory.seq /\ LogOf(log, m.seq) /\ Agree(log, log, stored.seq)
      /\ stored.seq <= m.seq /\ m.seq \in Nat
  BY CleanedMemory
<1>2. ConfiguredKept /\ log' = log
  BY DEF ConfiguredKept, MirrorInv, PageKeeps
<1>3. PICK mark, known : mark = cursor[r].mark /\ known = held[r]
  OBVIOUS
<1>4. PICK rows : rows = RowsAfter(m.journal, mark)
  OBVIOUS
<1>5. PICK page : page = SubSeq(rows, 1, Min({PageSize, Len(rows)}))
  OBVIOUS
<1>6. /\ cursor[r].mode = "incremental" /\ PersistIfChanged(m)
      /\ IF latch' \/ page = <<>> THEN UNCHANGED <<cursor, held>>
         ELSE IF TooOld(m.journal, mark) THEN Resets(r)
         ELSE Arrives(r, Incremental(Last(page).seq), Applied(held[r], page))
  BY <1>3, <1>4, <1>5 DEF JournalPage
<1>7. StoresKept
  BY <1>1, <1>2, <1>6, PersistedIfChanged
<1>8. CASE latch' \/ page = <<>>
  BY <1>2, <1>6, <1>7, <1>8, NobodyMoves
<1>9. CASE ~latch' /\ page # <<>> /\ TooOld(m.journal, mark)
  BY <1>2, <1>6, <1>7, <1>9, ResetsKeeps
<1>10. CASE ~latch' /\ page # <<>> /\ ~TooOld(m.journal, mark)
  <2>1. mark \in 0..stored.seq /\ known = Applied(NoItems, Upto(log, mark))
    BY <1>3, <1>6, CursorModes
  <2>2. mark \in 0..m.seq
    BY <1>1, <2>1, Same
  <2>3. PICK l : l = log
    OBVIOUS
  <2>4. CursorOf(Incremental(Last(page).seq), Applied(known, page), l, m.seq)
    BY <1>1, <1>4, <1>5, <1>10, <2>1, <2>2, <2>3, JournalPageMakes
  <2>5. memory'.seq = m.seq
    BY <1>1, <1>6 DEF PersistIfChanged, Persist, storeVars
  <2>6. stored'.seq = m.seq
    BY <1>7, <1>10, <2>5 DEF StoresKept
  <2>7. PICK c, now : c = Incremental(Last(page).seq) /\ now = Applied(known, page)
    OBVIOUS
  <2>8. CursorOf(c, now, log', stored'.seq)
    BY <1>2, <2>3, <2>4, <2>6, <2>7
  <2>9. Arrives(r, c, now)
    BY <1>3, <1>6, <1>10, <2>7
  <2> QED BY <1>2, <1>7, <2>8, <2>9, ArrivesKeeps
<1> QED BY <1>8, <1>9, <1>10

(* Every page leaves the reader with what the log makes.                   *)
LEMMA PageKeepsMirror ==
  ASSUME MirrorInv, IsStore(memory), NEW r \in Readers, Page(r)
  PROVE  MirrorInv'
<1>1. PageKeeps /\ ConfiguredKept
  BY DEF Page, ReaderKeeps, PageKeeps, ConfiguredKept, MirrorInv
<1>2. CASE Expired(r)
  <2>1. StoresKept
    BY <1>1, <1>2, Same, StoreStep DEF MirrorInv, Expired, storeVars, PageKeeps
  <2> QED BY <1>1, <1>2, <2>1, ResetsKeeps DEF Expired
<1>3. CASE Refused
  BY <1>1, <1>3, RestKeepsMirror DEF Refused, storeVars, PageKeeps
<1>4. CASE NextSnapshotPage(r)
  BY <1>1, <1>4, NextSnapshotPageKeeps
<1>5. ASSUME NEW m \in Cleanups(memory), NewSnapshot(r, m) PROVE MirrorInv'
  BY <1>1, <1>5, NewSnapshotKeeps
<1>6. ASSUME NEW m \in Cleanups(memory), JournalPage(r, m) PROVE MirrorInv'
  BY <1>1, <1>6, JournalPageKeeps
<1> QED BY <1>2, <1>3, <1>4, <1>5, <1>6 DEF Page

(* Readers and stores, from the first boot.                                *)
THEOREM MirrorInvariant == DashboardSpec => []MirrorInv
<1>1. DashboardInit => MirrorInv
  <2> SUFFICES ASSUME DashboardInit PROVE MirrorInv
    OBVIOUS
  <2>1. PICK m : m = EmptyStore
    OBVIOUS
  <2>2. m.seq = 0 /\ m.current = NoItems /\ m.journal = <<>> /\ m.snapshots = {} /\ memory = m /\ stored = m
    BY <2>1 DEF DashboardInit, EmptyStore
  <2>3. log = <<>> /\ Len(log) = 0 /\ log \in Seq(Row)
    BY DEF DashboardInit
  <2>4. Upto(log, 0) = <<>> /\ SubSeq(log, 0 + 1, 0) = <<>>
    BY <2>3 DEF Upto
  <2>5. StoreOf(m, log)
    <3>1. m.current = Exports(NoItems, Upto(log, m.seq))
      BY <2>2, <2>4, NothingApplied
    <3>2. 0 \in 0..m.seq /\ m.journal = SubSeq(log, 0 + 1, m.seq)
      BY <2>2, <2>4
    <3> QED BY <2>2, <2>3, <3>1, <3>2 DEF StoreOf
  <2>6. LogOf(log, 0)
    BY <2>3 DEF LogOf
  <2>7. NoItems \in [Items -> Contents \cup {Absent}]
    BY DEF NoItems
  <2>8. \A r \in Readers : CursorOf(cursor[r], held[r], log, stored.seq)
    BY DEF DashboardInit, CursorOf
  <2> QED BY <2>2, <2>5, <2>6, <2>7, <2>8 DEF DashboardInit, MirrorInv
<1>2. DashboardIInv /\ MirrorInv /\ [DashboardNext]_dashboardVars => MirrorInv'
  <2> SUFFICES ASSUME DashboardIInv, MirrorInv, [DashboardNext]_dashboardVars PROVE MirrorInv'
    OBVIOUS
  <2>1. IsStore(memory)
    BY DEF DashboardIInv, DashboardTypeOK
  <2>2. CASE UNCHANGED dashboardVars
    BY <2>2, RestKeepsMirror DEF dashboardVars, storeVars, readerVars, ConfiguredKept, MirrorInv
  <2>3. CASE Configures
    BY <2>3, RestKeepsMirror DEF Configures, storeVars, readerVars, ConfiguredKept, MirrorInv
  <2>4. ASSUME NEW r \in Readers, ReadRuntime(r) PROVE MirrorInv'
    BY <2>4, RestKeepsMirror DEF ReadRuntime, ReaderKeeps, storeVars, ConfiguredKept, MirrorInv
  <2>5. ASSUME NEW r \in Readers, SyncNativeState(r) PROVE MirrorInv'
    BY <2>5, SyncKeepsMirror
  <2>6. ASSUME NEW r \in Readers, Page(r) PROVE MirrorInv'
    BY <2>1, <2>6, PageKeepsMirror
  <2>7. ASSUME NEW x \in Noted, NoteWAFMatch(x) PROVE MirrorInv'
    BY <2>7, RestKeepsMirror DEF NoteWAFMatch, PlaneKeeps, storeVars, readerVars, ConfiguredKept, MirrorInv
  <2>8. CASE AppendDetection
    BY <2>8, AppendKeepsMirror
  <2>9. CASE MarksFailure \/ FlushDrops
    BY <2>1, <2>9, MarkKeepsMirror DEF MarksFailure, FlushDrops, PlaneKeeps
  <2>10. CASE StopExport
    BY <2>10, RestKeepsMirror DEF StopExport, PlaneKeeps, storeVars, readerVars, ConfiguredKept, MirrorInv
  <2>11. CASE CloseClean
    BY <2>1, <2>11, CloseKeepsMirror
  <2>12. CASE Dies
    <3>1. NoItems \in [Items -> Contents \cup {Absent}]
      BY DEF NoItems
    <3> QED BY <2>12, <3>1, RestKeepsMirror DEF Dies, storeVars, ConfiguredKept, MirrorInv
  <2>13. CASE Boots
    BY <2>13, BootKeepsMirror
  <2> QED BY <2>2, <2>3, <2>4, <2>5, <2>6, <2>7, <2>8, <2>9, <2>10, <2>11, <2>12, <2>13 DEF DashboardNext
<1> QED BY <1>1, <1>2, DashboardInvariant, PTL DEF DashboardSpec

(* Every reader holds what the rows up to its watermark make.              *)
THEOREM MirrorAlwaysExact == DashboardSpec => []MirrorIsExact
<1>1. MirrorInv => MirrorIsExact
  <2> SUFFICES ASSUME MirrorInv, NEW r \in Readers, cursor[r].mode = "incremental"
               PROVE  cursor[r].mark <= Len(log) /\ held[r] = Applied(NoItems, SubSeq(log, 1, cursor[r].mark))
    BY DEF MirrorIsExact
  <2>1. cursor[r].mark \in 0..stored.seq /\ held[r] = Applied(NoItems, Upto(log, cursor[r].mark))
    BY CursorModes
  <2>2. stored.seq \in 0..Len(log) /\ log \in Seq(Row)
    BY Same DEF MirrorInv, StoreOf
  <2> QED BY <2>1, <2>2 DEF Upto
<1> QED BY <1>1, MirrorInvariant, PTL

(***************************************************************************)
(* Notifications and syslog: for any number of pushers, workers, keys and  *)
(* collectors, and any limits.                                             *)
(***************************************************************************)

(* The items of the console, each of its type, with ids that go up to n.   *)
Ascending(s, n) ==
  /\ s \in Seq(ItemRec) /\ Len(s) <= ItemCap
  /\ \A i, j \in 1..Len(s) : i < j => s[i].id < s[j].id
  /\ \A i \in 1..Len(s) : s[i].id <= n

(* A notification is added, and the oldest makes room.                     *)
LEMMA CappedAscends ==
  ASSUME NEW n \in Nat, NEW s, Ascending(s, n), NEW x \in ItemRec, x.id = n + 1
  PROVE  Ascending(Capped(Append(s, x)), n + 1)
<1> USE EventAssumption
<1> DEFINE all == Append(s, x)
<1>1. /\ s \in Seq(ItemRec) /\ Len(s) \in Nat /\ all \in Seq(ItemRec) /\ Len(all) = Len(s) + 1
      /\ all[Len(s) + 1] = x /\ \A i \in 1..Len(s) : all[i] = s[i]
  BY DEF Ascending
<1>2. \A i \in 1..Len(s) : s[i].id \in Nat
  <2>1. \A i \in 1..Len(s) : s[i] \in ItemRec
    BY <1>1
  <2> QED BY <2>1 DEF ItemRec
<1>3. \A i, j \in 1..Len(all) : i < j => all[i].id < all[j].id
  <2>1. ASSUME NEW i \in 1..Len(all), NEW j \in 1..Len(all), i < j PROVE all[i].id < all[j].id
    <3>1. i \in 1..Len(s) /\ all[i] = s[i] /\ s[i].id <= n
      BY <1>1, <2>1 DEF Ascending
    <3>2. CASE j \in 1..Len(s)
      BY <3>1, <3>2, <1>1, <2>1 DEF Ascending
    <3>3. CASE j = Len(s) + 1
      BY <3>1, <3>3, <1>1, <1>2
    <3> QED BY <3>2, <3>3, <1>1
  <2> QED BY <2>1
<1>4. \A i \in 1..Len(all) : all[i].id <= n + 1
  BY <1>1, <1>2 DEF Ascending
<1> HIDE DEF all
<1>5. CASE Len(all) > ItemCap
  <2> DEFINE cut == SubSeq(all, Len(all) - ItemCap + 1, Len(all))
  <2>1. /\ cut \in Seq(ItemRec) /\ Len(cut) = ItemCap
        /\ \A i \in 1..ItemCap : cut[i] = all[Len(all) - ItemCap + i] /\ Len(all) - ItemCap + i \in 1..Len(all)
    <3>1. PICK n1, n2 : n1 = Len(all) /\ n2 = n1 - ItemCap + 1
      OBVIOUS
    <3>2. n1 \in Int /\ n2 \in Int /\ 1 <= n2 /\ n2 <= n1 /\ n1 - n2 + 1 = ItemCap
      BY <1>1, <1>5, <3>1
    <3>3. \A i \in n2..n1 : all[i] \in ItemRec
      BY <1>1, <3>1, <3>2
    <3>4. /\ SubSeq(all, n2, n1) \in Seq(ItemRec)
          /\ Len(SubSeq(all, n2, n1)) = IF n2 <= n1 THEN n1 - n2 + 1 ELSE 0
          /\ \A i \in 1..n1 - n2 + 1 : SubSeq(all, n2, n1)[i] = all[n2 + i - 1]
      BY <3>2, <3>3, SubSeqProperties
    <3>5. cut = SubSeq(all, n2, n1)
      BY <3>1
    <3> HIDE DEF cut
    <3>6. \A i \in 1..ItemCap : n2 + i - 1 = n1 - ItemCap + i /\ n1 - ItemCap + i \in 1..n1
      BY <3>1, <3>2
    <3>7. cut \in Seq(ItemRec) /\ Len(cut) = ItemCap
      BY <3>2, <3>4, <3>5
    <3>8. \A i \in 1..ItemCap : cut[i] = all[n1 - ItemCap + i]
      BY <3>2, <3>4, <3>5, <3>6
    <3> QED BY <3>1, <3>6, <3>7, <3>8
  <2>2. Ascending(cut, n + 1)
    <3> HIDE DEF cut
    <3>1. ASSUME NEW i \in 1..Len(cut), NEW j \in 1..Len(cut), i < j PROVE cut[i].id < cut[j].id
      <4>1. Len(all) - ItemCap + i < Len(all) - ItemCap + j
        BY <2>1, <1>1, <3>1
      <4>2. /\ cut[i] = all[Len(all) - ItemCap + i] /\ Len(all) - ItemCap + i \in 1..Len(all)
            /\ cut[j] = all[Len(all) - ItemCap + j] /\ Len(all) - ItemCap + j \in 1..Len(all)
        BY <2>1, <3>1
      <4> QED BY <1>3, <4>1, <4>2
    <3>2. \A i \in 1..Len(cut) : cut[i].id <= n + 1
      BY <2>1, <1>4
    <3> QED BY <2>1, <3>1, <3>2 DEF Ascending
  <2> QED BY <1>5, <2>2 DEF Capped, all
<1>6. CASE ~(Len(all) > ItemCap)
  <2>1. Ascending(all, n + 1)
    BY <1>1, <1>3, <1>4, <1>6 DEF Ascending
  <2> QED BY <1>6, <2>1 DEF Capped, all
<1> QED BY <1>5, <1>6

(* A notification is dismissed.                                            *)
LEMMA DismissAscends ==
  ASSUME NEW n \in Nat, NEW s, Ascending(s, n), NEW k \in 1..Len(s)
  PROVE  Ascending(SubSeq(s, 1, k - 1) \o SubSeq(s, k + 1, Len(s)), n)
<1> USE EventAssumption
<1> DEFINE left == SubSeq(s, 1, k - 1)
           right == SubSeq(s, k + 1, Len(s))
<1>1. s \in Seq(ItemRec) /\ Len(s) \in Nat /\ k \in Nat
  BY DEF Ascending
<1>2. left \in Seq(ItemRec) /\ Len(left) = k - 1 /\ \A i \in 1..(k - 1) : left[i] = s[i] /\ i \in 1..Len(s)
  BY <1>1
<1>3. /\ right \in Seq(ItemRec) /\ Len(right) = Len(s) - k
      /\ \A i \in 1..(Len(s) - k) : right[i] = s[k + i] /\ k + i \in 1..Len(s)
  BY <1>1
<1> HIDE DEF left, right
<1> DEFINE rest == left \o right
<1>4. /\ rest \in Seq(ItemRec) /\ Len(rest) = Len(s) - 1
      /\ \A i \in 1..Len(rest) : rest[i] = IF i <= k - 1 THEN left[i] ELSE right[i - (k - 1)]
  <2>1. /\ left \o right \in Seq(ItemRec) /\ Len(left \o right) = Len(left) + Len(right)
        /\ \A i \in 1..Len(left) + Len(right) :
              (left \o right)[i] = IF i <= Len(left) THEN left[i] ELSE right[i - Len(left)]
    <3>1. left \in Seq(ItemRec) /\ right \in Seq(ItemRec)
      BY <1>2, <1>3
    <3> QED BY <3>1, ConcatProperties, Zenon
  <2>2. Len(left) = k - 1 /\ Len(left) + Len(right) = Len(s) - 1
    BY <1>1, <1>2, <1>3
  <2>3. /\ rest \in Seq(ItemRec) /\ Len(rest) = Len(s) - 1
        /\ \A i \in 1..Len(s) - 1 : rest[i] = IF i <= k - 1 THEN left[i] ELSE right[i - (k - 1)]
    BY <2>1, <2>2, Zenon
  <2> QED BY <2>3
<1>5. \A i \in 1..Len(rest) : rest[i] = IF i <= k - 1 THEN s[i] ELSE s[i + 1]
  <2>1. ASSUME NEW i \in 1..Len(rest) PROVE rest[i] = IF i <= k - 1 THEN s[i] ELSE s[i + 1]
    <3>1. rest[i] = IF i <= k - 1 THEN left[i] ELSE right[i - (k - 1)]
      BY <1>4
    <3>2. CASE i <= k - 1
      BY <3>1, <3>2, <1>1, <1>2
    <3>3. CASE ~(i <= k - 1)
      <4>1. i - (k - 1) \in 1..(Len(s) - k) /\ k + (i - (k - 1)) = i + 1
        BY <3>3, <1>1, <1>4
      <4> QED BY <3>1, <3>3, <4>1, <1>3
    <3> QED BY <3>2, <3>3
  <2> QED BY <2>1
<1> HIDE DEF rest
<1>6. Ascending(rest, n)
  <2>1. ASSUME NEW i \in 1..Len(rest), NEW j \in 1..Len(rest), i < j PROVE rest[i].id < rest[j].id
    <3> DEFINE a == IF i <= k - 1 THEN i ELSE i + 1
               b == IF j <= k - 1 THEN j ELSE j + 1
    <3>1. a \in 1..Len(s) /\ b \in 1..Len(s) /\ a < b
      BY <1>1, <1>4, <2>1
    <3>2. rest[i] = s[a] /\ rest[j] = s[b]
      BY <1>5
    <3> HIDE DEF a, b
    <3> QED BY <3>1, <3>2 DEF Ascending
  <2>2. ASSUME NEW i \in 1..Len(rest) PROVE rest[i].id <= n
    <3> DEFINE a == IF i <= k - 1 THEN i ELSE i + 1
    <3>1. a \in 1..Len(s)
      BY <1>1, <1>4
    <3>2. rest[i] = s[a]
      BY <1>5
    <3> HIDE DEF a
    <3> QED BY <3>1, <3>2 DEF Ascending
  <2>3. Len(rest) <= ItemCap
    BY <1>1, <1>4 DEF Ascending
  <2> QED BY <1>4, <2>1, <2>2, <2>3 DEF Ascending
<1> QED BY <1>6 DEF rest, left, right

(* A notification is read.                                                 *)
LEMMA ReadAscends ==
  ASSUME NEW n \in Nat, NEW s, Ascending(s, n), NEW k \in 1..Len(s)
  PROVE  Ascending([s EXCEPT ![k].read = TRUE], n)
<1> DEFINE new == [s EXCEPT ![k].read = TRUE]
<1>1. s \in Seq(ItemRec) /\ s[k] \in ItemRec
  BY DEF Ascending
<1>2. [s[k] EXCEPT !.read = TRUE] \in ItemRec /\ [s[k] EXCEPT !.read = TRUE].id = s[k].id
  BY <1>1 DEF ItemRec
<1>3. new \in Seq(ItemRec) /\ Len(new) = Len(s) /\ \A i \in 1..Len(s) : new[i].id = s[i].id
  BY <1>1, <1>2
<1> HIDE DEF new
<1>4. Ascending(new, n)
  BY <1>3 DEF Ascending
<1> QED BY <1>4 DEF new

(* What the invariant says of the console.                                 *)
LEMMA ItemsFacts ==
  EventTypeOK /\ NotifierInv /\ ForwardingSound => Ascending(items, nextID) /\ nextID \in Nat
<1> SUFFICES ASSUME EventTypeOK, NotifierInv, ForwardingSound PROVE Ascending(items, nextID) /\ nextID \in Nat
  OBVIOUS
<1>1. items \in Seq(ItemRec) /\ nextID \in Nat /\ DOMAIN items = 1..Len(items)
  BY DEF EventTypeOK
<1> QED BY <1>1 DEF NotifierInv, ForwardingSound, NotifiedOnce, Ascending

(* The syslog writer, and what it shares with configure.                   *)
LEMMA SyslogKeeps ==
  ASSUME EventIInv,
         \/ (\E e \in Collectors \cup {Unset} : ConfigureSyslog(e))
         \/ EmitLine \/ TakeLine \/ LookAtConn \/ Dialled \/ Written
  PROVE  EventIInv'
<1>1. EventTypeOK /\ WriterInv /\ NotifierInv /\ SentWhereConfigured /\ NotifiedOnce
  BY DEF EventIInv, ForwardingSound
<1>2. UNCHANGED notifyVars
  BY DEF ConfigureSyslog, EmitLine, TakeLine, LookAtConn, Dialled, Written
<1>3. /\ writer.step \in {"idle", "took", "dial", "write"} /\ writer.cfg \in Collectors \cup {Unset}
      /\ writer.to \in Collectors \cup {Unset} /\ conn \in Collectors \cup {Unset}
      /\ endpoint \in Collectors \cup {Unset} /\ overtaken \in BOOLEAN
  BY <1>1 DEF EventTypeOK
<1> DEFINE SyslogOK == /\ endpoint \in Collectors \cup {Unset} /\ conn \in Collectors \cup {Unset}
                       /\ overtaken \in BOOLEAN
                       /\ writer \in [step : {"idle", "took", "dial", "write"}, cfg : Collectors \cup {Unset},
                                      to : Collectors \cup {Unset}]
<1>4. SyslogOK' /\ WriterInv' /\ SentWhereConfigured'
  <2> USE <1>1, <1>3, EventAssumption DEF WriterInv, SentWhereConfigured
  <2>1. ASSUME NEW e \in Collectors \cup {Unset}, ConfigureSyslog(e) PROVE SyslogOK' /\ WriterInv' /\ SentWhereConfigured'
    BY <2>1 DEF ConfigureSyslog, DropConn, EventTypeOK
  <2>2. CASE EmitLine
    BY <2>2 DEF EmitLine, EventTypeOK
  <2>3. CASE TakeLine
    BY <2>3 DEF TakeLine, EventTypeOK, Idle
  <2>4. CASE LookAtConn
    BY <2>4 DEF LookAtConn, EventTypeOK
  <2>5. CASE Dialled
    <3>1. overtaken' \in BOOLEAN
      <4>1. (endpoint # writer.cfg) \in BOOLEAN
        OBVIOUS
      <4>2. overtaken' = (endpoint # writer.cfg) \/ overtaken' = overtaken
        BY <2>5 DEF Dialled
      <4> QED BY <4>1, <4>2
    <3>2. CASE writer' = Idle
      BY <2>5, <3>1, <3>2 DEF Dialled, EventTypeOK, Idle
    <3>3. CASE conn' = writer.cfg /\ overtaken' = (endpoint # writer.cfg)
               /\ writer' = [step |-> "write", cfg |-> writer.cfg, to |-> writer.cfg]
      BY <2>5, <3>1, <3>3 DEF Dialled, EventTypeOK
    <3> QED BY <2>5, <3>2, <3>3 DEF Dialled
  <2>6. CASE Written
    BY <2>6 DEF Written, EventTypeOK, Idle
  <2> QED BY <2>1, <2>2, <2>3, <2>4, <2>5, <2>6
<1>5. EventTypeOK'
  BY <1>1, <1>2, <1>4 DEF EventTypeOK, notifyVars
<1>6. NotifierInv' /\ NotifiedOnce'
  BY <1>1, <1>2 DEF NotifierInv, NotifiedOnce, notifyVars
<1> QED BY <1>4, <1>5, <1>6 DEF EventIInv, ForwardingSound

(* A step of the notifier leaves the writer and the connection alone.      *)
LEMMA WriterRests ==
  ASSUME EventIInv, UNCHANGED <<endpoint, conn, writer, overtaken>>
  PROVE  WriterInv' /\ SentWhereConfigured'
  BY DEF EventIInv, ForwardingSound, WriterInv, SentWhereConfigured

(* The rest of a push: unless it is suppressed, its key was not open.      *)
LEMMA RaiseKeeps ==
  ASSUME EventIInv, NEW p \in Pushers, Raise(p)
  PROVE  EventIInv'
<1> DEFINE k == pushing[p]
           item == [id |-> nextID + 1, key |-> k, read |-> FALSE]
           suppressed == k \in DOMAIN recentKeys /\ recentKeys[k] = "fresh"
           fresh == Fresh(recentKeys)
           room == Cardinality(DOMAIN fresh) < DedupeMax
<1>1. EventTypeOK /\ WriterInv /\ NotifierInv /\ ForwardingSound
  BY DEF EventIInv
<1>2. /\ k # Unset /\ pushing' = [pushing EXCEPT ![p] = Unset]
      /\ UNCHANGED <<endpoint, conn, writer, started, overtaken, notify, posting, reconfigured>>
      /\ IF suppressed THEN UNCHANGED <<lines, items, nextID, recentKeys, hookQ, open, again>>
         ELSE /\ recentKeys' = Remembered(fresh, k) /\ nextID' = nextID + 1
              /\ items' = Capped(Append(items, item))
              /\ hookQ' = IF notify.hook = Unset \/ Len(hookQ) >= HookQueue THEN hookQ
                          ELSE Append(hookQ, [url |-> notify.hook, item |-> item.id, attempt |-> 1])
              /\ open' = IF room THEN open \cup {k} ELSE open
              /\ again' = (again \/ k \in open)
  BY DEF Raise
<1>3. k \in EventKeys /\ pushing' \in [Pushers -> EventKeys \cup {Unset}]
  BY <1>1, <1>2 DEF EventTypeOK
<1>4. Ascending(items, nextID) /\ nextID \in Nat
  BY <1>1, ItemsFacts
<1>5. WriterInv' /\ SentWhereConfigured'
  BY <1>2, WriterRests
<1>6. CASE suppressed
  <2>1. UNCHANGED <<items, nextID, recentKeys, hookQ, open, again>>
    BY <1>2, <1>6
  <2>2. EventTypeOK'
    BY <1>1, <1>2, <1>3, <2>1 DEF EventTypeOK
  <2>3. NotifierInv' /\ NotifiedOnce'
    BY <1>1, <1>2, <2>1 DEF NotifierInv, ForwardingSound, NotifiedOnce
  <2> QED BY <1>5, <2>2, <2>3 DEF EventIInv, ForwardingSound
<1>7. CASE ~suppressed
  <2>1. item \in ItemRec /\ item.id = nextID + 1
    BY <1>3, <1>4 DEF ItemRec
  <2>2. PICK x \in ItemRec : x = item /\ x.id = nextID + 1
    BY <2>1
  <2>3. Ascending(items', nextID') /\ nextID' \in Nat
    <3>1. PICK n \in Nat : n = nextID
      BY <1>4
    <3>2. PICK s : s = items
      OBVIOUS
    <3>3. Ascending(s, n) /\ x.id = n + 1
      BY <1>4, <2>2, <3>1, <3>2
    <3>4. Ascending(Capped(Append(s, x)), n + 1)
      BY <3>3, CappedAscends
    <3>5. items' = Capped(Append(s, x)) /\ nextID' = n + 1
      BY <1>2, <1>7, <2>2, <3>1, <3>2
    <3> QED BY <3>4, <3>5
  <2>4. hookQ' \in Seq(HookRec)
    <3>1. hookQ \in Seq(HookRec)
      BY <1>1 DEF EventTypeOK
    <3>2. CASE notify.hook = Unset \/ Len(hookQ) >= HookQueue
      BY <1>2, <1>7, <3>1, <3>2
    <3>3. CASE ~(notify.hook = Unset \/ Len(hookQ) >= HookQueue)
      <4>1. notify.hook \in Webhooks
        BY <1>1, <3>3 DEF EventTypeOK
      <4>2. [url |-> notify.hook, item |-> nextID + 1, attempt |-> 1] \in HookRec
        BY <4>1, <1>4 DEF HookRec
      <4>3. hookQ' = Append(hookQ, [url |-> notify.hook, item |-> nextID + 1, attempt |-> 1])
        BY <1>2, <1>7, <3>3
      <4> QED BY <3>1, <4>2, <4>3
    <3> QED BY <3>2, <3>3
  <2>5. /\ DOMAIN fresh = {y \in DOMAIN recentKeys : recentKeys[y] = "fresh"}
        /\ \A y \in DOMAIN fresh : fresh[y] = "fresh"
    BY DEF Fresh, Restrict
  <2>6. open = DOMAIN fresh /\ ~again /\ k \notin open /\ open \subseteq EventKeys
    BY <1>1, <1>7, <2>5 DEF NotifierInv, EventTypeOK
  <2>7. /\ recentKeys' = IF room THEN With(fresh, k) ELSE fresh
        /\ open' = (IF room THEN open \cup {k} ELSE open) /\ again' = (again \/ k \in open)
    BY <1>2, <1>7 DEF Remembered
  <2> HIDE DEF fresh, room
  <2>8. fresh = [y \in DOMAIN fresh |-> fresh[y]]
    BY DEF fresh, Fresh, Restrict
  <2>9. /\ DOMAIN recentKeys' = open' /\ (\A y \in DOMAIN recentKeys' : recentKeys'[y] = "fresh")
        /\ recentKeys' = [y \in DOMAIN recentKeys' |-> recentKeys'[y]]
    <3>1. CASE room
      BY <3>1, <2>5, <2>6, <2>7 DEF With
    <3>2. CASE ~room
      BY <3>2, <2>5, <2>6, <2>7, <2>8
    <3> QED BY <3>1, <3>2
  <2>10. recentKeys' \in [DOMAIN recentKeys' -> {"fresh", "expired"}]
    BY <2>9
  <2>11. open' \subseteq EventKeys /\ ~again'
    BY <2>6, <2>7, <1>3
  <2>12. open' = {y \in DOMAIN recentKeys' : recentKeys'[y] = "fresh"}
    BY <2>9
  <2>13. EventTypeOK'
    BY <1>1, <1>2, <1>3, <2>3, <2>4, <2>9, <2>10, <2>11 DEF EventTypeOK, Ascending
  <2>14. DOMAIN items' = 1..Len(items')
    BY <2>3 DEF Ascending
  <2>15. NotifierInv'
    BY <2>3, <2>11, <2>12, <2>14 DEF NotifierInv, Ascending
  <2>16. NotifiedOnce'
    BY <1>1, <1>2, <2>3, <2>11, <2>14 DEF NotifiedOnce, ForwardingSound, Ascending
  <2> QED BY <1>5, <2>13, <2>15, <2>16 DEF EventIInv, ForwardingSound
<1> QED BY <1>6, <1>7

(* The configuration of the notifier, a push that begins, a minute that    *)
(* passes.                                                                 *)
LEMMA PushKeeps ==
  ASSUME EventIInv,
         \/ (\E on \in BOOLEAN, hook \in Webhooks \cup {Unset} : ConfigureNotify(on, hook))
         \/ (\E p \in Pushers, k \in EventKeys : Push(p, k))
         \/ (\E k \in EventKeys : MinutePasses(k))
  PROVE  EventIInv'
<1>1. EventTypeOK /\ WriterInv /\ NotifierInv /\ ForwardingSound
  BY DEF EventIInv
<1>2. UNCHANGED <<syslogVars, items, nextID, hookQ, posting, again>>
  BY DEF ConfigureNotify, Push, MinutePasses
<1>3. WriterInv' /\ SentWhereConfigured'
  BY <1>2, WriterRests DEF syslogVars
<1>4. /\ notify' \in [on : BOOLEAN, hook : Webhooks \cup {Unset}]
      /\ pushing' \in [Pushers -> EventKeys \cup {Unset}]
  <2>1. ASSUME NEW on \in BOOLEAN, NEW hook \in Webhooks \cup {Unset}, ConfigureNotify(on, hook)
        PROVE  /\ notify' \in [on : BOOLEAN, hook : Webhooks \cup {Unset}]
               /\ pushing' \in [Pushers -> EventKeys \cup {Unset}]
    BY <1>1, <2>1 DEF EventTypeOK, ConfigureNotify
  <2>2. ASSUME NEW p \in Pushers, NEW k \in EventKeys, Push(p, k)
        PROVE  /\ notify' \in [on : BOOLEAN, hook : Webhooks \cup {Unset}]
               /\ pushing' \in [Pushers -> EventKeys \cup {Unset}]
    BY <1>1, <2>2 DEF EventTypeOK, Push
  <2>3. ASSUME NEW k \in EventKeys, MinutePasses(k)
        PROVE  /\ notify' \in [on : BOOLEAN, hook : Webhooks \cup {Unset}]
               /\ pushing' \in [Pushers -> EventKeys \cup {Unset}]
    BY <1>1, <2>3 DEF EventTypeOK, MinutePasses
  <2> QED BY <2>1, <2>2, <2>3
<1>5. /\ recentKeys' \in [DOMAIN recentKeys' -> {"fresh", "expired"}] /\ DOMAIN recentKeys' \subseteq EventKeys
      /\ open' \subseteq EventKeys /\ open' = {k \in DOMAIN recentKeys' : recentKeys'[k] = "fresh"}
  <2>1. CASE UNCHANGED <<recentKeys, open>>
    BY <1>1, <2>1 DEF EventTypeOK, NotifierInv
  <2>2. ASSUME NEW k \in EventKeys, MinutePasses(k)
        PROVE  /\ recentKeys' \in [DOMAIN recentKeys' -> {"fresh", "expired"}] /\ DOMAIN recentKeys' \subseteq EventKeys
               /\ open' \subseteq EventKeys /\ open' = {y \in DOMAIN recentKeys' : recentKeys'[y] = "fresh"}
    BY <1>1, <2>2 DEF MinutePasses, EventTypeOK, NotifierInv
  <2> QED BY <2>1, <2>2 DEF ConfigureNotify, Push
<1>6. EventTypeOK'
  BY <1>1, <1>2, <1>4, <1>5 DEF EventTypeOK, syslogVars
<1>7. NotifierInv' /\ NotifiedOnce'
  BY <1>1, <1>2, <1>5 DEF NotifierInv, ForwardingSound, NotifiedOnce
<1> QED BY <1>3, <1>6, <1>7 DEF EventIInv, ForwardingSound

(* A webhook is posted, and posted again, at most three times.             *)
LEMMA HookKeeps ==
  ASSUME EventIInv, NEW w \in HookWorkers, TakeHook(w) \/ PostHook(w)
  PROVE  EventIInv'
<1>1. EventTypeOK /\ WriterInv /\ NotifierInv /\ ForwardingSound
  BY DEF EventIInv
<1>2. UNCHANGED <<syslogVars, notify, items, nextID, recentKeys, pushing, open, again>>
  BY DEF TakeHook, PostHook
<1>3. WriterInv' /\ SentWhereConfigured'
  BY <1>2, WriterRests DEF syslogVars
<1>4. hookQ \in Seq(HookRec) /\ posting \in [HookWorkers -> {Unset} \cup HookRec]
  BY <1>1 DEF EventTypeOK
<1>5. hookQ' \in Seq(HookRec) /\ posting' \in [HookWorkers -> {Unset} \cup HookRec]
  <2>1. CASE TakeHook(w)
    <3>1. hookQ # <<>> /\ hookQ' = Tail(hookQ) /\ posting' = [posting EXCEPT ![w] = Head(hookQ)]
      BY <2>1 DEF TakeHook
    <3>2. Head(hookQ) \in HookRec /\ Tail(hookQ) \in Seq(HookRec)
      BY <1>4, <3>1
    <3> QED BY <1>4, <3>1, <3>2
  <2>2. CASE PostHook(w)
    <3>1. hookQ' = hookQ /\ posting[w] \in HookRec
      BY <2>2, <1>4 DEF PostHook
    <3>2. posting[w].attempt < 3 => NextAttempt(posting[w]) \in HookRec
      BY <3>1 DEF HookRec, NextAttempt
    <3>3. posting' = [posting EXCEPT ![w] = Unset]
          \/ (posting[w].attempt < 3 /\ posting' = [posting EXCEPT ![w] = NextAttempt(posting[w])])
      BY <2>2 DEF PostHook
    <3> QED BY <1>4, <3>1, <3>2, <3>3
  <2> QED BY <2>1, <2>2
<1>6. EventTypeOK'
  BY <1>1, <1>2, <1>5 DEF EventTypeOK, syslogVars
<1>7. \A v \in HookWorkers : posting'[v] # Unset => posting'[v].attempt <= 3
  <2>1. \A v \in HookWorkers : posting'[v] # Unset => posting'[v] \in HookRec
    BY <1>5
  <2> QED BY <2>1 DEF HookRec
<1>8. NotifierInv' /\ NotifiedOnce'
  BY <1>1, <1>2, <1>7 DEF NotifierInv, ForwardingSound, NotifiedOnce
<1> QED BY <1>3, <1>6, <1>8 DEF EventIInv, ForwardingSound

(* The console's own actions.                                              *)
LEMMA ConsoleKeeps ==
  ASSUME EventIInv, NEW k \in 1..ItemCap, MarkRead(k) \/ Dismiss(k)
  PROVE  EventIInv'
<1>1. EventTypeOK /\ WriterInv /\ NotifierInv /\ ForwardingSound
  BY DEF EventIInv
<1>2. /\ UNCHANGED <<syslogVars, notify, nextID, recentKeys, pushing, hookQ, posting, open, again>>
      /\ k \in DOMAIN items
      /\ items' = [items EXCEPT ![k].read = TRUE]
           \/ items' = SubSeq(items, 1, k - 1) \o SubSeq(items, k + 1, Len(items))
  BY DEF MarkRead, Dismiss
<1>3. WriterInv' /\ SentWhereConfigured'
  BY <1>2, WriterRests DEF syslogVars
<1>4. Ascending(items, nextID) /\ nextID \in Nat
  BY <1>1, ItemsFacts
<1>5. Ascending(items', nextID)
  <2>0. PICK n \in Nat : n = nextID
    BY <1>4
  <2>00. PICK s : s = items
    OBVIOUS
  <2>1. n = nextID /\ s = items
    BY <2>0, <2>00
  <2>2. Ascending(s, n) /\ k \in 1..Len(s)
    BY <1>2, <1>4, <2>1 DEF Ascending
  <2>3. Ascending([s EXCEPT ![k].read = TRUE], n) /\ Ascending(SubSeq(s, 1, k - 1) \o SubSeq(s, k + 1, Len(s)), n)
    BY <2>2, ReadAscends, DismissAscends
  <2> QED BY <1>2, <2>1, <2>3
<1>6. items' \in Seq(ItemRec) /\ DOMAIN items' = 1..Len(items')
  BY <1>5 DEF Ascending
<1>7. EventTypeOK'
  BY <1>1, <1>2, <1>6 DEF EventTypeOK, syslogVars
<1>8. NotifierInv' /\ NotifiedOnce'
  BY <1>1, <1>2, <1>5, <1>6 DEF NotifierInv, ForwardingSound, NotifiedOnce, Ascending
<1> QED BY <1>3, <1>7, <1>8 DEF EventIInv, ForwardingSound

(* Notifications and the forwarder, from the start of the process.         *)
THEOREM EventInvariant == EventSpec => []EventIInv
<1>1. EventInit => EventIInv
  <2> SUFFICES ASSUME EventInit PROVE EventIInv
    OBVIOUS
  <2>1. items \in Seq(ItemRec) /\ hookQ \in Seq(HookRec) /\ Len(items) = 0 /\ DOMAIN items = 1..Len(items)
    BY DEF EventInit
  <2>2. writer.step = "idle" /\ conn = Unset /\ posting = [w \in HookWorkers |-> Unset]
    BY DEF EventInit, Idle
  <2>3. /\ recentKeys = [k \in {} |-> "fresh"] /\ DOMAIN recentKeys = {} /\ open = {} /\ again = FALSE
    BY DEF EventInit
  <2>4. EventTypeOK
    BY <2>1, <2>3 DEF EventInit, EventTypeOK, Idle
  <2>5. WriterInv /\ SentWhereConfigured
    BY <2>2 DEF WriterInv, SentWhereConfigured
  <2>6. NotifierInv
    BY <2>1, <2>3 DEF NotifierInv
  <2>7. NotifiedOnce
    BY <2>1, <2>2, <2>3, EventAssumption DEF NotifiedOnce
  <2> QED BY <2>4, <2>5, <2>6, <2>7 DEF EventIInv, ForwardingSound
<1>2. EventIInv /\ [EventNext]_eventVars => EventIInv'
  <2> SUFFICES ASSUME EventIInv, [EventNext]_eventVars PROVE EventIInv'
    OBVIOUS
  <2>1. CASE UNCHANGED eventVars
    <3>1. UNCHANGED <<syslogVars, notifyVars>>
      BY <2>1 DEF eventVars
    <3>2. WriterInv' /\ SentWhereConfigured'
      BY <3>1, WriterRests DEF syslogVars
    <3>3. EventTypeOK' /\ NotifierInv' /\ NotifiedOnce'
      BY <3>1 DEF EventIInv, ForwardingSound, EventTypeOK, NotifierInv, NotifiedOnce, syslogVars, notifyVars
    <3> QED BY <3>2, <3>3 DEF EventIInv, ForwardingSound
  <2> QED BY <2>1, SyslogKeeps, RaiseKeeps, PushKeeps, HookKeeps, ConsoleKeeps DEF EventNext
<1> QED BY <1>1, <1>2, PTL DEF EventSpec

(* Lines go where they are configured to go, and a notification that was   *)
(* remembered is given once.                                               *)
THEOREM ForwardingAlwaysSound == EventSpec => []ForwardingSound
<1>1. EventIInv => ForwardingSound
  BY DEF EventIInv
<1> QED BY <1>1, EventInvariant, PTL
=============================================================================
