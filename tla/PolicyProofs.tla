---------------------------- MODULE PolicyProofs ----------------------------
(* Proofs about configurations and the policies that inspect requests: the *)
(* checks a configuration passes, how a request finds its site while       *)
(* configurations change, GraphQL and identity policies.                   *)
EXTENDS SiteRouting, GraphQLPolicy, IdentityPolicy, WellFoundedInduction, TLAPS

(***************************************************************************)
(* The checks of a configuration: for any configuration whatever.          *)
(***************************************************************************)

(* A name that exists in a list without duplicates is found, and is the    *)
(* only one.                                                               *)
LEMMA FoundOnce ==
  ASSUME NEW objects, DOMAIN objects \subseteq Nat, Distinct(objects), NEW name \in NamesOf(objects)
  PROVE  Only(objects, name)
<1> DEFINE found == {i \in DOMAIN objects : objects[i].name = name}
<1>1. PICK i \in DOMAIN objects : objects[i].name = name
  BY DEF NamesOf
<1>2. found = {i} /\ i \in Nat
  BY <1>1 DEF Distinct
<1>3. Resolve(objects, name) = i
  <2>1. \A j \in found : j <= i
    BY <1>2
  <2>2. \A k \in found : k = i
    BY <1>2
  <2> HIDE DEF found
  <2>3. found # {} /\ (CHOOSE k \in found : \A j \in found : j <= k) = i
    BY <1>2, <2>1, <2>2
  <2> QED BY <2>3 DEF Resolve, found
<1> QED BY <1>2, <1>3 DEF Only

(* What validate accepts, buildRuntime finds.                              *)
LEMMA ValidBuilds ==
  ASSUME NEW c \in Configs, Valid(c)
  PROVE  Builds(c)
<1>1. /\ DOMAIN c.pools \subseteq Nat /\ DOMAIN c.policies \subseteq Nat /\ DOMAIN c.nodes \subseteq Nat
      /\ \A i \in DOMAIN c.pools : c.pools[i] \in PoolRec
  BY DEF Configs
<1>2. Distinct(c.pools) /\ Distinct(c.policies) /\ Distinct(c.nodes)
  BY DEF Valid, ValidPolicies, ValidNodes, ValidPools
<1>3. ASSUME NEW i \in DOMAIN c.sites
      PROVE  Only(c.pools, c.sites[i].pool) /\ Only(c.policies, c.sites[i].policy)
  <2>1. c.sites[i].pool \in NamesOf(c.pools) /\ c.sites[i].policy \in NamesOf(c.policies)
    BY DEF Valid, ValidSites
  <2> QED BY <2>1, <1>1, <1>2, FoundOnce
<1>4. ASSUME NEW i \in DOMAIN c.pools, NEW k \in DOMAIN c.pools[i].members
      PROVE  Only(c.nodes, c.pools[i].members[k])
  <2>1. c.pools[i].members[k] \in NamesOf(c.nodes)
    BY DEF Valid, ValidPools, Range
  <2> QED BY <2>1, <1>1, <1>2, FoundOnce
<1> QED BY <1>3, <1>4 DEF Builds

(* What validate accepts is the same after it was loaded.                  *)
LEMMA ValidSettled ==
  ASSUME NEW c \in Configs, Valid(c)
  PROVE  Migrate(c) = c
<1>1. c.policies # <<>>
  BY DEF Valid, ValidPolicies
<1>2. ASSUME NEW i \in DOMAIN c.sites, NEW n PROVE Upgraded(c.sites[i], n) = c.sites[i]
  <2>1. c.sites[i].listen # Blank /\ c.sites[i].policy # Blank
    BY DEF Valid, ValidSites
  <2>2. c.sites[i] \in SiteRec
    BY DEF Configs
  <2> QED BY <2>1, <2>2 DEF Upgraded, SiteRec
<1>3. c.sites = [i \in DOMAIN c.sites |-> c.sites[i]]
  BY DEF Configs
<1>4. ASSUME NEW n PROVE [i \in DOMAIN c.sites |-> Upgraded(c.sites[i], n)] = c.sites
  <2>1. [i \in DOMAIN c.sites |-> Upgraded(c.sites[i], n)] = [i \in DOMAIN c.sites |-> c.sites[i]]
    BY <1>2
  <2> QED BY <1>3, <2>1
<1>5. c = [fields |-> c.fields, frontend |-> c.frontend, policies |-> c.policies, nodes |-> c.nodes, pools |-> c.pools,
           sites |-> c.sites]
  BY DEF Configs
<1> QED BY <1>1, <1>4, <1>5 DEF Migrate

(* It can be saved as a draft if its sites have names of their own.        *)
LEMMA ValidDrafts ==
  ASSUME NEW c \in Configs, Valid(c), Distinct(c.sites)
  PROVE  DraftValid(c)
<1>1. /\ Distinct(c.pools) /\ Distinct(c.policies) /\ Distinct(c.nodes)
      /\ ValidObjects(c.pools) /\ ValidObjects(c.policies) /\ ValidObjects(c.nodes) /\ ValidObjects(c.sites)
      /\ c.fields = "good"
  BY DEF Valid, ValidPolicies, ValidNodes, ValidPools, ValidSites
<1>2. ASSUME NEW objects, Distinct(objects), ValidObjects(objects)
      PROVE  DistinctOrBlank(objects) /\ \A i \in DOMAIN objects : objects[i].fields # "bad"
  BY <1>2 DEF Distinct, DistinctOrBlank, ValidObjects
<1>3. \A i \in DOMAIN c.sites : TLSKeyValid(c.sites[i], c.frontend)
  BY DEF Valid, ValidSites
<1> QED BY <1>1, <1>2, <1>3 DEF DraftValid

(* A draft that could be saved can be saved after it was loaded.           *)
LEMMA DraftSettled ==
  ASSUME NEW c \in Configs, DraftValid(c)
  PROVE  DraftValid(Migrate(c))
<1> DEFINE ps == IF c.policies = <<>> THEN <<DefaultPolicy>> ELSE c.policies
           sites == [i \in DOMAIN c.sites |-> Upgraded(c.sites[i], ps[1].name)]
           Fine(objects) == DistinctOrBlank(objects) /\ \A i \in DOMAIN objects : objects[i].fields # "bad"
<1>1. Fine(c.policies) /\ Fine(c.nodes) /\ Fine(c.pools) /\ Fine(c.sites)
  BY DEF DraftValid
<1>2. Fine(ps)
  <2>1. CASE c.policies = <<>>
    <3>1. ps = <<DefaultPolicy>> /\ DOMAIN ps = {1} /\ ps[1] = DefaultPolicy
      BY <2>1
    <3> QED BY <3>1, ConfigAssumption DEF DistinctOrBlank
  <2>2. CASE c.policies # <<>>
    BY <1>1, <2>2
  <2> QED BY <2>1, <2>2
<1>3. /\ DOMAIN sites = DOMAIN c.sites
      /\ \A i \in DOMAIN sites : /\ sites[i].name = c.sites[i].name /\ sites[i].fields = c.sites[i].fields
                                 /\ sites[i].tls = c.sites[i].tls
  BY DEF Upgraded
<1>4. Fine(sites) /\ \A i \in DOMAIN sites : TLSKeyValid(sites[i], c.frontend)
  <2> HIDE DEF sites
  <2> QED BY <1>1, <1>3 DEF DistinctOrBlank, DraftValid, TLSKeyValid
<1>5. /\ Migrate(c).fields = c.fields /\ Migrate(c).frontend = c.frontend /\ Migrate(c).nodes = c.nodes
      /\ Migrate(c).pools = c.pools /\ Migrate(c).policies = ps /\ Migrate(c).sites = sites
  BY DEF Migrate
<1> HIDE DEF ps, sites
<1> QED BY <1>1, <1>2, <1>4, <1>5 DEF DraftValid

(* Whatever configuration is looked at, the checks, the migration and the  *)
(* builder agree on it.                                                    *)
THEOREM AcceptedAlwaysBuilds == ValidationSpec => []AcceptedBuilds
<1>1. ASSUME NEW c \in Configs PROVE Agreed(c)
  BY ValidBuilds, ValidSettled, ValidDrafts, DraftSettled DEF Agreed
<1>2. ValidationInit => candidate \in Drafts
  BY DEF ValidationInit
<1>3. candidate \in Drafts /\ [UNCHANGED candidate]_candidate => (candidate \in Drafts)'
  OBVIOUS
<1>4. candidate \in Drafts => AcceptedBuilds
  BY <1>1, ConfigAssumption DEF AcceptedBuilds
<1> QED BY <1>2, <1>3, <1>4, PTL DEF ValidationSpec

(***************************************************************************)
(* The way to a site and a certificate: for any configurations, hosts,     *)
(* sockets and moments of an apply.                                        *)
(***************************************************************************)

(* What hostnames are made of; the provers do not know that a word is a    *)
(* string.                                                                 *)
Words == STRING \cup {"*"}

LEMMA MoreWords ==
  ASSUME NEW p \in Seq(STRING)
  PROVE  p \in Seq(Words)
<1>1. p \in [1..Len(p) -> STRING] /\ Len(p) \in Nat
  OBVIOUS
<1>2. p \in [1..Len(p) -> Words]
  BY <1>1 DEF Words
<1> QED BY <1>1, <1>2

(* What a site of a configuration is.                                      *)
LEMMA SiteFacts ==
  ASSUME NEW c, Validated(c), NEW i \in DOMAIN c.sites
  PROVE  /\ i \in Nat /\ i # 0 /\ c.sites[i] \in SiteRec
         /\ \A k \in DOMAIN c.sites[i].hosts :
              /\ c.sites[i].hosts[k] \in Hostnames
              /\ Normalized(c.sites[i].hosts[k]) \in Seq(Words) /\ Normalized(c.sites[i].hosts[k]) # <<>>
<1>1. c.sites \in Seq(SiteRec)
  BY DEF Validated, Configs
<1>2. i \in Nat /\ i # 0 /\ c.sites[i] \in SiteRec
  BY <1>1
<1>3. c.sites[i].hosts \in Seq(Hostnames)
  BY <1>2 DEF SiteRec
<1>4. \A k \in DOMAIN c.sites[i].hosts : Normalized(c.sites[i].hosts[k]) # <<>>
  BY DEF Validated, Valid, ValidSites
<1>5. ASSUME NEW k \in DOMAIN c.sites[i].hosts
      PROVE  c.sites[i].hosts[k] \in Hostnames /\ c.sites[i].hosts[k].labels \in Seq(Words)
  <2>1. c.sites[i].hosts[k] \in Hostnames
    BY <1>3
  <2>2. c.sites[i].hosts[k].labels \in Seq(STRING)
    BY <2>1 DEF Hostnames
  <2> QED BY <2>1, <2>2, MoreWords
<1> QED BY <1>2, <1>4, <1>5 DEF Normalized

(* A hostname has one site on an address.                                  *)
LEMMA OneClaim ==
  ASSUME NEW c, Validated(c), NEW a, NEW t, NEW i \in Claiming(c, a, t)
  PROVE  Claiming(c, a, t) = {i} /\ i \in On(c, a) /\ i \in Nat /\ i # 0 /\ LastWith(c, a, t) = i
<1>1. i \in DOMAIN c.sites /\ c.sites[i].listen = a /\ i \in On(c, a)
  BY DEF Claiming, On
<1>2. ClaimedOnce(c, a)
  BY <1>1 DEF Validated, Valid, ValidSites
<1>3. ASSUME NEW j \in Claiming(c, a, t) PROVE j = i
  <2>1. PICK k \in DOMAIN c.sites[i].hosts : Normalized(c.sites[i].hosts[k]) = t
    BY DEF Claiming
  <2>2. PICK l \in DOMAIN c.sites[j].hosts : Normalized(c.sites[j].hosts[l]) = t
    BY DEF Claiming
  <2>3. j \in DOMAIN c.sites /\ c.sites[j].listen = a
    BY DEF Claiming, On
  <2>4. <<i, k>> \in Claims(c, a) /\ <<j, l>> \in Claims(c, a)
    BY <1>1, <2>3 DEF Claims
  <2>5. <<i, k>> = <<j, l>>
    BY <1>2, <2>1, <2>2, <2>4 DEF ClaimedOnce
  <2> QED BY <2>5
<1>4. i \in Nat /\ i # 0
  BY <1>1, SiteFacts
<1>5. Claiming(c, a, t) = {i}
  BY <1>3
<1>6. LastWith(c, a, t) = i
  BY <1>4, <1>5 DEF LastWith
<1> QED BY <1>1, <1>4, <1>5, <1>6

(* No site is 0.                                                           *)
LEMMA NoClaim ==
  ASSUME NEW c, Validated(c), NEW a, NEW t
  PROVE  LastWith(c, a, t) # 0 <=> Claiming(c, a, t) # {}
<1>1. Claiming(c, a, t) = {} => LastWith(c, a, t) = 0
  BY DEF LastWith
<1> QED BY <1>1, OneClaim

(* A sequence with something in front.                                     *)
LEMMA Fronting ==
  ASSUME NEW S, NEW x \in S, NEW u \in Seq(S)
  PROVE  /\ <<x>> \in Seq(S) /\ Len(<<x>>) = 1 /\ <<x>>[1] = x
         /\ <<x>> \o u \in Seq(S) /\ Len(<<x>> \o u) = 1 + Len(u) /\ (<<x>> \o u)[1] = x
         /\ \A j \in 2..1 + Len(u) : (<<x>> \o u)[j] = u[j - 1]
<1>1. <<x>> \in Seq(S) /\ Len(<<x>>) = 1 /\ <<x>>[1] = x
  OBVIOUS
<1>2. <<x>> \o u \in Seq(S) /\ Len(<<x>> \o u) = 1 + Len(u)
  BY <1>1
<1>3. (<<x>> \o u)[1] = x
  BY <1>1
<1>4. ASSUME NEW j \in 2..1 + Len(u) PROVE (<<x>> \o u)[j] = u[j - 1]
  BY <1>1
<1> QED BY <1>1, <1>2, <1>3, <1>4

(* Wildcards.                                                              *)
Host(h) == h \in Seq(Words) /\ h # <<>> /\ h[1] # "*"

LEMMA WildFacts ==
  ASSUME NEW h, Host(h), NEW k \in 1..Len(h) - 1
  PROVE  /\ Wild(h, k) \in Seq(Words) /\ Len(Wild(h, k)) = Len(h) - k + 1 /\ Wild(h, k)[1] = "*"
         /\ \A j \in 2..Len(h) - k + 1 : Wild(h, k)[j] = h[k + j - 1]
<1>1. h \in Seq(Words) /\ Len(h) \in Nat
  BY DEF Host
<1> DEFINE u == SubSeq(h, k + 1, Len(h))
<1>2. u \in Seq(Words) /\ Len(u) = Len(h) - k /\ \A j \in 1..Len(h) - k : u[j] = h[k + j]
  BY <1>1
<1> HIDE DEF u
<1>4. Wild(h, k) = CatchAll \o u
  BY DEF Wild, u
<1>5. /\ CatchAll \o u \in Seq(Words) /\ Len(CatchAll \o u) = 1 + Len(u) /\ (CatchAll \o u)[1] = "*"
      /\ \A j \in 2..1 + Len(u) : (CatchAll \o u)[j] = u[j - 1]
  <2>1. "*" \in Words
    BY DEF Words
  <2>2. PICK x \in Words : x = "*"
    BY <2>1
  <2>3. CatchAll = <<x>>
    BY <2>2 DEF CatchAll
  <2>4. /\ <<x>> \o u \in Seq(Words) /\ Len(<<x>> \o u) = 1 + Len(u) /\ (<<x>> \o u)[1] = x
        /\ \A j \in 2..1 + Len(u) : (<<x>> \o u)[j] = u[j - 1]
    <3>1. u \in Seq(Words)
      BY <1>2
    <3> QED BY <3>1, Fronting
  <2> QED BY <2>2, <2>3, <2>4
<1>6. ASSUME NEW j \in 2..Len(h) - k + 1 PROVE Wild(h, k)[j] = h[k + j - 1]
  <2>1. j - 1 \in 1..Len(h) - k /\ j \in 2..1 + Len(u)
    BY <1>1, <1>2
  <2>2. u[j - 1] = h[k + (j - 1)]
    BY <1>2, <2>1
  <2>3. k + (j - 1) = k + j - 1
    BY <1>1
  <2> QED BY <1>4, <1>5, <2>1, <2>2, <2>3
<1> QED BY <1>1, <1>2, <1>4, <1>5, <1>6

(* What matches a host: itself, the star, and its wildcards.               *)
LEMMA MatchesAre ==
  ASSUME NEW h, Host(h), NEW p \in Seq(Words), p # <<>>
  PROVE  Matches(p, h) <=> p = h \/ p = CatchAll \/ \E k \in 1..Len(h) - 1 : p = Wild(h, k)
<1>1. h \in Seq(Words) /\ Len(h) \in Nat /\ Len(p) \in Nat /\ Len(p) >= 1
  BY DEF Host
<1>2. ASSUME NEW k \in 1..Len(h) - 1, p = Wild(h, k) PROVE Matches(p, h)
  <2>1. p[1] = "*" /\ Len(p) = Len(h) - k + 1 /\ \A j \in 2..Len(h) - k + 1 : p[j] = h[k + j - 1]
    BY <1>2, WildFacts
  <2>2. ASSUME NEW j \in 1..Len(p) - 1 PROVE p[Len(p) + 1 - j] = h[Len(h) + 1 - j]
    <3>1. Len(p) + 1 - j \in 2..Len(h) - k + 1 /\ k + (Len(p) + 1 - j) - 1 = Len(h) + 1 - j
      BY <1>1, <2>1
    <3> QED BY <2>1, <3>1
  <2>3. Len(h) >= Len(p)
    BY <1>1, <2>1
  <2> QED BY <2>1, <2>2, <2>3 DEF Matches
<1>3. ASSUME p[1] = "*", Len(h) >= Len(p), \A j \in 1..Len(p) - 1 : p[Len(p) + 1 - j] = h[Len(h) + 1 - j]
      PROVE  p = CatchAll \/ \E k \in 1..Len(h) - 1 : p = Wild(h, k)
  <2>1. CASE Len(p) = 1
    <3>1. p = CatchAll
      BY <1>3, <2>1 DEF CatchAll
    <3> QED BY <3>1
  <2>2. CASE Len(p) # 1
    <3> DEFINE k == Len(h) - Len(p) + 1
    <3>1. k \in 1..Len(h) - 1 /\ Len(h) - k + 1 = Len(p)
      <4>0. Len(h) >= Len(p)
        BY <1>3
      <4>1. Len(p) >= 2
        <5>1. \A x \in Nat : x >= 1 /\ x # 1 => x >= 2
          OBVIOUS
        <5> QED BY <1>1, <2>2, <5>1
      <4>2. \A x, y \in Nat : x >= y /\ y >= 2 => x - y + 1 \in 1..x - 1 /\ x - (x - y + 1) + 1 = y
        OBVIOUS
      <4> QED BY <1>1, <4>0, <4>1, <4>2
    <3>2. /\ Wild(h, k) \in Seq(Words) /\ Len(Wild(h, k)) = Len(p) /\ Wild(h, k)[1] = "*"
          /\ \A j \in 2..Len(p) : Wild(h, k)[j] = h[k + j - 1]
      <4> HIDE DEF k
      <4> QED BY <3>1, WildFacts
    <3>3. ASSUME NEW j \in 2..Len(p) PROVE p[j] = Wild(h, k)[j]
      <4>1. /\ Len(p) + 1 - j \in 1..Len(p) - 1 /\ Len(p) + 1 - (Len(p) + 1 - j) = j
            /\ Len(h) + 1 - (Len(p) + 1 - j) = k + j - 1
        BY <1>1
      <4>2. p[j] = h[k + j - 1]
        <5> HIDE DEF k
        <5> QED BY <1>3, <4>1
      <4> QED BY <3>2, <4>2
    <3> HIDE DEF k
    <3>4. \A j \in 1..Len(p) : p[j] = Wild(h, k)[j]
      <4>1. \A j \in 1..Len(p) : j = 1 \/ j \in 2..Len(p)
        BY <1>1
      <4> QED BY <1>3, <3>2, <3>3, <4>1
    <3>5. p = Wild(h, k)
      BY <3>2, <3>4
    <3> QED BY <3>1, <3>5
  <2> QED BY <2>1, <2>2
<1> QED BY <1>2, <1>3 DEF Matches

(* Longer wildcards begin earlier, and a host is none.                     *)
LEMMA WildOrder ==
  ASSUME NEW h, Host(h)
  PROVE  /\ \A p \in Seq(Words) : p[1] = "*" => MoreSpecific(h, p) /\ ~MoreSpecific(p, h)
         /\ \A k \in 1..Len(h) - 1 : MoreSpecific(Wild(h, k), CatchAll) /\ ~MoreSpecific(CatchAll, Wild(h, k))
         /\ \A j, k \in 1..Len(h) - 1 : j < k => MoreSpecific(Wild(h, j), Wild(h, k)) /\ ~MoreSpecific(Wild(h, k), Wild(h, j))
<1>1. Len(h) \in Nat /\ h[1] # "*"
  BY DEF Host
<1>2. CatchAll[1] = "*" /\ Len(CatchAll) = 1
  BY DEF CatchAll
<1>3. \A k \in 1..Len(h) - 1 : Wild(h, k)[1] = "*" /\ Len(Wild(h, k)) = Len(h) - k + 1
  BY WildFacts
<1> QED BY <1>1, <1>2, <1>3 DEF MoreSpecific

(* The patterns of an address are hostnames of its sites.                  *)
LEMMA PatternOf ==
  ASSUME NEW c, Validated(c), NEW a, NEW p \in Claims(c, a)
  PROVE  p[1] \in Claiming(c, a, Normalized(c.sites[p[1]].hosts[p[2]]))
<1>1. PICK i \in DOMAIN c.sites : c.sites[i].listen = a /\ p \in {i} \X DOMAIN c.sites[i].hosts
  BY DEF Claims
<1>2. p[1] = i /\ p[2] \in DOMAIN c.sites[i].hosts
  BY <1>1
<1> QED BY <1>1, <1>2 DEF Claiming, On

LEMMA PatternFor ==
  ASSUME NEW c, Validated(c), NEW a, NEW t, NEW i \in Claiming(c, a, t)
  PROVE  /\ t \in Seq(Words) /\ t # <<>>
         /\ \E p \in Claims(c, a) : p[1] = i /\ Normalized(c.sites[p[1]].hosts[p[2]]) = t
<1>1. PICK k \in DOMAIN c.sites[i].hosts : Normalized(c.sites[i].hosts[k]) = t
  BY DEF Claiming
<1>2. i \in DOMAIN c.sites /\ c.sites[i].listen = a
  BY DEF Claiming, On
<1>3. <<i, k>> \in Claims(c, a) /\ <<i, k>>[1] = i /\ <<i, k>>[2] = k
  BY <1>2 DEF Claims
<1>4. t \in Seq(Words) /\ t # <<>>
  BY <1>1, <1>2, SiteFacts
<1> QED BY <1>1, <1>3, <1>4

(* The most specific pattern that matches decides who owns the host.       *)
LEMMA OwnersOne ==
  ASSUME NEW c, Validated(c), NEW a, NEW h, NEW t, NEW i \in Claiming(c, a, t), Matches(t, h),
         \A u : Claiming(c, a, u) # {} /\ Matches(u, h) /\ u # t => MoreSpecific(t, u) /\ ~MoreSpecific(u, t)
  PROVE  Owners(c, a, h) = {i}
<1> DEFINE Text(p) == Normalized(c.sites[p[1]].hosts[p[2]])
           patterns == {p \in Claims(c, a) : Matches(Text(p), h)}
           best == {p \in patterns : \A q \in patterns : ~MoreSpecific(Text(q), Text(p))}
<1>1. Owners(c, a, h) = {p[1] : p \in best}
  BY DEF Owners
<1>2. t \in Seq(Words) /\ \E p \in Claims(c, a) : p[1] = i /\ Text(p) = t
  BY PatternFor
<1>3. \A p \in Claims(c, a) : p[1] \in Claiming(c, a, Text(p))
  BY PatternOf
<1>4. Claiming(c, a, t) = {i}
  BY OneClaim
<1>5. ~MoreSpecific(t, t)
  BY <1>2 DEF MoreSpecific
<1> HIDE DEF Text
<1>6. PICK p \in Claims(c, a) : p[1] = i /\ Text(p) = t
  BY <1>2
<1>7. p \in patterns /\ \A q \in patterns : Text(q) = t \/ (MoreSpecific(t, Text(q)) /\ ~MoreSpecific(Text(q), t))
  BY <1>3, <1>6
<1>8. p \in best
  BY <1>5, <1>6, <1>7
<1>9. \A q \in best : q[1] = i
  BY <1>3, <1>4, <1>6, <1>7
<1> HIDE DEF best
<1> QED BY <1>1, <1>6, <1>8, <1>9

(* A host that no pattern matches has no owner.                            *)
LEMMA OwnersNone ==
  ASSUME NEW c, Validated(c), NEW a, NEW h, \A u : Claiming(c, a, u) # {} => ~Matches(u, h)
  PROVE  Owners(c, a, h) = {}
  BY PatternOf DEF Owners

(* In names written plainly, nginx reads what Go reads.                    *)
LEMMA PlainNamed ==
  ASSUME NEW c, Validated(c), NEW a, PlainNames(c, a), NEW t
  PROVE  ServersNamed(c, a, t) = Claiming(c, a, t)
<1>1. ASSUME NEW i \in On(c, a), NEW k \in DOMAIN c.sites[i].hosts
      PROVE  c.sites[i].hosts[k] = [labels |-> t, form |-> "plain"] <=> Normalized(c.sites[i].hosts[k]) = t
  <2>1. i \in DOMAIN c.sites
    BY DEF On
  <2>2. c.sites[i].hosts[k] \in Hostnames /\ c.sites[i].hosts[k].form = "plain"
    BY <2>1, SiteFacts DEF PlainNames
  <2>3. c.sites[i].hosts[k] = [labels |-> c.sites[i].hosts[k].labels, form |-> "plain"]
    BY <2>2 DEF Hostnames
  <2> QED BY <2>3 DEF Normalized
<1> QED BY <1>1 DEF ServersNamed, Claiming

(* The only one of a group is its first and its last.                      *)
LEMMA AloneServed ==
  ASSUME NEW c, NEW i
  PROVE  FirstServer(c, {i}) = i /\ LastServer(c, {i}) = i
  BY DEF FirstServer, LastServer

(* A set of numbers has a least one.                                       *)
LEMMA LeastOf ==
  ASSUME NEW S, S \subseteq Nat, S # {}
  PROVE  Least(S) \in S /\ \A j \in S : Least(S) <= j
<1> DEFINE R == {ss \in Nat \X Nat : ss[1] < ss[2]}
<1>1. IsWellFoundedOn(R, Nat)
  BY NatLessThanWellFounded DEF OpToRel
<1>2. PICK x \in S : \A y \in S : ~(<<y, x>> \in R)
  <2> HIDE DEF R
  <2> QED BY <1>1, WFMin
<1>3. ASSUME NEW y \in S, y < x PROVE FALSE
  <2>1. <<y, x>> \in R
    BY <1>3
  <2> QED BY <1>2, <2>1
<1>4. \A y \in S : x <= y
  BY <1>3
<1> QED BY <1>4 DEF Least

(* lookup finds the owner of a host, and so does nginx.                    *)
LEMMA HostFound ==
  ASSUME NEW c, Validated(c), NEW a, NEW h, Host(h)
  PROVE  /\ IF Owners(c, a, h) = {} THEN Lookup(c, a, h) = 0
            ELSE Owners(c, a, h) = {Lookup(c, a, h)} /\ Lookup(c, a, h) # 0
         /\ PlainNames(c, a) => \A i \in Owners(c, a, h) : NginxServer(c, a, h) = i
<1> DEFINE cuts == {k \in 1..Len(h) - 1 : Claiming(c, a, Wild(h, k)) # {}}
<1>1. Lookup(c, a, h) = IF Claiming(c, a, h) # {} THEN LastWith(c, a, h)
                        ELSE IF cuts = {} THEN LastWith(c, a, CatchAll) ELSE LastWith(c, a, Wild(h, Least(cuts)))
  <2>1. cuts = {k \in 1..Len(h) - 1 : LastWith(c, a, Wild(h, k)) # 0}
    BY NoClaim
  <2>2. LastWith(c, a, h) # 0 <=> Claiming(c, a, h) # {}
    BY NoClaim
  <2> HIDE DEF cuts
  <2> QED BY <2>1, <2>2 DEF Lookup
<1>2. PlainNames(c, a) =>
        NginxServer(c, a, h) =
          IF Claiming(c, a, h) # {} THEN FirstServer(c, Claiming(c, a, h))
          ELSE IF cuts = {}
                 THEN IF Claiming(c, a, CatchAll) = {} THEN FirstServer(c, On(c, a)) ELSE LastServer(c, Claiming(c, a, CatchAll))
          ELSE FirstServer(c, Claiming(c, a, Wild(h, Least(cuts))))
  <2> SUFFICES ASSUME PlainNames(c, a)
               PROVE  NginxServer(c, a, h) =
          IF Claiming(c, a, h) # {} THEN FirstServer(c, Claiming(c, a, h))
          ELSE IF cuts = {}
                 THEN IF Claiming(c, a, CatchAll) = {} THEN FirstServer(c, On(c, a)) ELSE LastServer(c, Claiming(c, a, CatchAll))
          ELSE FirstServer(c, Claiming(c, a, Wild(h, Least(cuts))))
    OBVIOUS
  <2>1. /\ ServersNamed(c, a, h) = Claiming(c, a, h) /\ ServersNamed(c, a, CatchAll) = Claiming(c, a, CatchAll)
        /\ \A k \in 1..Len(h) - 1 : ServersNamed(c, a, Wild(h, k)) = Claiming(c, a, Wild(h, k))
        /\ ServersNamed(c, a, Wild(h, Least(cuts))) = Claiming(c, a, Wild(h, Least(cuts)))
    BY PlainNamed
  <2>2. cuts = {k \in 1..Len(h) - 1 : ServersNamed(c, a, Wild(h, k)) # {}}
    BY <2>1
  <2> HIDE DEF cuts
  <2> QED BY <2>1, <2>2 DEF NginxServer, DefaultServer
<1>3. ASSUME NEW u, Claiming(c, a, u) # {}, Matches(u, h)
      PROVE  u = h \/ u = CatchAll \/ \E k \in cuts : u = Wild(h, k)
  <2>1. u \in Seq(Words) /\ u # <<>>
    BY <1>3, PatternFor
  <2>2. u = h \/ u = CatchAll \/ \E k \in 1..Len(h) - 1 : u = Wild(h, k)
    BY <1>3, <2>1, MatchesAre
  <2> QED BY <1>3, <2>2
<1>4. h \in Seq(Words) /\ h # <<>> /\ CatchAll \in Seq(Words) /\ CatchAll # <<>> /\ CatchAll[1] = "*"
  <2>1. PICK x \in Words : x = "*"
    BY DEF Words
  <2>2. CatchAll = <<x>>
    BY <2>1 DEF CatchAll
  <2>3. <<x>> \in Seq(Words) /\ <<x>> # <<>> /\ <<x>>[1] = x
    OBVIOUS
  <2> QED BY <2>1, <2>2, <2>3 DEF Host
<1>5. \A k \in 1..Len(h) - 1 : Wild(h, k) \in Seq(Words) /\ Wild(h, k) # <<>> /\ Wild(h, k)[1] = "*" /\ Matches(Wild(h, k), h)
  <2>1. ASSUME NEW k \in 1..Len(h) - 1
        PROVE  Wild(h, k) \in Seq(Words) /\ Wild(h, k) # <<>> /\ Wild(h, k)[1] = "*" /\ Matches(Wild(h, k), h)
    <3>1. /\ Wild(h, k) \in Seq(Words) /\ Len(Wild(h, k)) = Len(h) - k + 1 /\ Wild(h, k)[1] = "*"
          /\ Len(h) \in Nat /\ Len(<<>>) = 0
      BY <1>4, WildFacts
    <3>2. Len(Wild(h, k)) # 0
      BY <3>1
    <3>3. Wild(h, k) # <<>>
      BY <3>1, <3>2
    <3> QED BY <3>1, <3>3, MatchesAre
  <2> QED BY <2>1
<1>6. cuts \subseteq 1..Len(h) - 1 /\ cuts \subseteq Nat
  BY <1>4
<1> HIDE DEF cuts
<1>7. CASE Claiming(c, a, h) # {}
  <2>1. PICK i \in Claiming(c, a, h) : TRUE
    BY <1>7
  <2>2. Claiming(c, a, h) = {i} /\ i # 0 /\ LastWith(c, a, h) = i
    BY OneClaim
  <2>3. Matches(h, h)
    BY <1>4, MatchesAre
  <2>4. ASSUME NEW u, Claiming(c, a, u) # {}, Matches(u, h), u # h PROVE MoreSpecific(h, u) /\ ~MoreSpecific(u, h)
    <3>1. u \in Seq(Words) /\ u[1] = "*"
      BY <1>3, <1>4, <1>5, <1>6, <2>4
    <3> QED BY <3>1, WildOrder
  <2>5. Owners(c, a, h) = {i}
    BY <2>3, <2>4, OwnersOne
  <2>6. PlainNames(c, a) => NginxServer(c, a, h) = i
    BY <1>2, <2>2, AloneServed
  <2> QED BY <1>1, <1>7, <2>2, <2>5, <2>6
<1>8. CASE Claiming(c, a, h) = {} /\ cuts # {}
  <2> DEFINE k == Least(cuts)
  <2>1. k \in cuts /\ \A j \in cuts : k <= j
    BY <1>6, <1>8, LeastOf
  <2> HIDE DEF k
  <2>2. k \in 1..Len(h) - 1 /\ Claiming(c, a, Wild(h, k)) # {}
    BY <2>1, <1>6 DEF cuts
  <2>3. PICK i \in Claiming(c, a, Wild(h, k)) : TRUE
    BY <2>2
  <2>4. Claiming(c, a, Wild(h, k)) = {i} /\ i # 0 /\ LastWith(c, a, Wild(h, k)) = i
    BY OneClaim
  <2>5. ASSUME NEW u, Claiming(c, a, u) # {}, Matches(u, h), u # Wild(h, k)
        PROVE  MoreSpecific(Wild(h, k), u) /\ ~MoreSpecific(u, Wild(h, k))
    <3>1. CASE u = CatchAll
      BY <2>2, <3>1, WildOrder
    <3>2. CASE \E j \in cuts : u = Wild(h, j)
      <4>1. PICK j \in cuts : u = Wild(h, j)
        BY <3>2
      <4>2. k <= j /\ k # j /\ k \in Nat /\ j \in Nat /\ j \in 1..Len(h) - 1
        BY <1>6, <2>1, <2>5, <4>1
      <4>3. k < j
        BY <4>2
      <4> QED BY <2>2, <4>1, <4>2, <4>3, WildOrder
    <3> QED BY <1>3, <1>8, <2>5, <3>1, <3>2
  <2>6. Matches(Wild(h, k), h)
    BY <1>5, <2>2
  <2>7. Owners(c, a, h) = {i}
    BY <2>5, <2>6, OwnersOne
  <2>8. PlainNames(c, a) => NginxServer(c, a, h) = i
    BY <1>2, <1>8, <2>4, AloneServed DEF k
  <2>9. Lookup(c, a, h) = i
    BY <1>1, <1>8, <2>4 DEF k
  <2> QED BY <2>4, <2>7, <2>8, <2>9
<1>9. CASE Claiming(c, a, h) = {} /\ cuts = {} /\ Claiming(c, a, CatchAll) # {}
  <2>1. PICK i \in Claiming(c, a, CatchAll) : TRUE
    BY <1>9
  <2>2. Claiming(c, a, CatchAll) = {i} /\ i # 0 /\ LastWith(c, a, CatchAll) = i
    BY OneClaim
  <2>3. Matches(CatchAll, h)
    BY <1>4, MatchesAre
  <2>4. \A u : Claiming(c, a, u) # {} /\ Matches(u, h) => u = CatchAll
    BY <1>3, <1>9
  <2>5. Owners(c, a, h) = {i}
    BY <2>3, <2>4, OwnersOne
  <2>6. PlainNames(c, a) => NginxServer(c, a, h) = i
    BY <1>2, <1>9, <2>2, AloneServed
  <2> QED BY <1>1, <1>9, <2>2, <2>5, <2>6
<1>10. CASE Claiming(c, a, h) = {} /\ cuts = {} /\ Claiming(c, a, CatchAll) = {}
  <2>1. \A u : Claiming(c, a, u) # {} => ~Matches(u, h)
    BY <1>3, <1>10
  <2>2. Owners(c, a, h) = {}
    BY <2>1, OwnersNone
  <2>3. LastWith(c, a, CatchAll) = 0
    BY <1>10 DEF LastWith
  <2> QED BY <1>1, <1>10, <2>2, <2>3
<1> QED BY <1>7, <1>8, <1>9, <1>10

(* The listener a socket is looked up in is that of its address.           *)
LEMMA ListenerFound ==
  ASSUME RoutingIInv, NEW s \in sockets
  PROVE  ListenerOf(s) = IF s.key[2] \in Addresses(runtime) THEN ListenerKey(runtime, s.key[2]) ELSE NoConfig
<1> DEFINE a == s.key[2]
           keys == {ListenerKey(runtime, x) : x \in Addresses(runtime)}
           other == IF s.key[1] = "unix" THEN s.logical ELSE Internal(s.key[2])
<1>1. s.key \in {"tcp", "unix"} \X STRING /\ (s.key[1] = "unix" => s.logical = Go(a))
  BY DEF RoutingIInv, SocketRec
<1>2. /\ s.key = <<s.key[1], a>> /\ s.key[1] \in {"tcp", "unix"}
      /\ other = IF s.key[1] = "unix" THEN <<"tcp", a>> ELSE <<"unix", a>>
  BY <1>1 DEF Go, Internal
<1>3. \A x : ListenerKey(runtime, x) = IF Fronted(runtime, x) THEN <<"unix", x>> ELSE <<"tcp", x>>
  BY DEF ListenerKey, Go, Internal
<1>4. ListenerOf(s) = IF s.key \in keys THEN s.key ELSE IF other \in keys THEN other ELSE NoConfig
  BY DEF ListenerOf
<1> HIDE DEF other, a
<1>5. CASE a \in Addresses(runtime)
  <2>1. ListenerKey(runtime, a) \in keys
    BY <1>5
  <2>2. \A x \in Addresses(runtime) : ListenerKey(runtime, x)[2] = x
    BY <1>3
  <2>3. \A k \in keys : k[2] = a => k = ListenerKey(runtime, a)
    BY <2>2
  <2>4. s.key = ListenerKey(runtime, a) \/ other = ListenerKey(runtime, a)
    BY <1>2, <1>3
  <2>5. s.key[2] = a /\ other[2] = a
    BY <1>2
  <2> HIDE DEF keys
  <2> QED BY <1>4, <1>5, <2>1, <2>3, <2>4, <2>5 DEF a
<1>6. CASE a \notin Addresses(runtime)
  <2>1. \A x \in Addresses(runtime) : ListenerKey(runtime, x)[2] = x
    BY <1>3
  <2>2. \A k \in keys : k[2] # a
    BY <1>6, <2>1
  <2>3. s.key[2] = a /\ other[2] = a
    BY <1>2
  <2> HIDE DEF keys
  <2> QED BY <1>4, <1>6, <2>2, <2>3 DEF a
<1> QED BY <1>5, <1>6

(* The invariant gives every request and every handshake its owner.        *)
LEMMA RightSite ==
  ASSUME RoutingIInv, NEW s \in sockets, NEW host \in HostNames
  PROVE  RoutedRightly(s, host)
<1>1. PICK c, a, h : c = runtime /\ a = s.key[2] /\ h = host
  OBVIOUS
<1>2. Validated(c)
  BY <1>1 DEF RoutingIInv
<1>3. Host(h)
  <2>1. h \in Seq(STRING) /\ h # <<>> /\ h[1] # "*"
    BY <1>1, RoutingAssumption
  <2> QED BY <2>1, MoreWords DEF Host
<1> DEFINE site == Lookup(c, a, h)
           owners == Owners(c, a, h)
<1>4. /\ IF owners = {} THEN site = 0 ELSE owners = {site} /\ site # 0
      /\ PlainNames(c, a) => \A i \in owners : NginxServer(c, a, h) = i
  BY <1>2, <1>3, HostFound
<1>5. ListenerOf(s) = IF a \in Addresses(c) THEN ListenerKey(c, a) ELSE NoConfig
  BY <1>1, ListenerFound
<1>6. ListenerKey(c, a) # NoConfig /\ ListenerKey(c, a)[2] = a
  <2>1. a \in STRING
    BY <1>1 DEF RoutingIInv, SocketRec
  <2>2. ListenerKey(c, a) \in {"tcp", "unix"} \X STRING
    BY <2>1 DEF ListenerKey, Go, Internal
  <2> QED BY <2>2, RoutingAssumption DEF ListenerKey, Go, Internal
<1>7. a \notin Addresses(c) => owners = {} /\ ~publicTLS(c, a)
  <2> SUFFICES ASSUME a \notin Addresses(c) PROVE owners = {} /\ ~publicTLS(c, a)
    OBVIOUS
  <2>1. On(c, a) = {}
    BY DEF On, Addresses
  <2>2. Claims(c, a) = {}
    BY <2>1 DEF Claims, On
  <2> QED BY <2>1, <2>2 DEF Owners, publicTLS
<1>8. Answer(s, host) = IF a \in Addresses(c) THEN site ELSE 0
  BY <1>1, <1>5, <1>6 DEF Answer
<1>9. publicTLS(c, a) =>
        Certificate(s, host) = IF site # 0 /\ siteTLSEnabled(c.sites[site]) THEN site ELSE DefaultSite(c, a)
  BY <1>1, <1>5, <1>6, <1>7 DEF Certificate
<1>10. publicTLS(c, a) => DefaultSite(c, a) # 0
  <2> DEFINE with == {i \in On(c, a) : siteTLSEnabled(c.sites[i])}
  <2> SUFFICES ASSUME publicTLS(c, a) PROVE DefaultSite(c, a) # 0
    OBVIOUS
  <2>1. with # {} /\ with \subseteq DOMAIN c.sites
    BY DEF publicTLS, On
  <2>2. \A i \in with : i \in Nat /\ i # 0
    BY <1>2, <2>1, SiteFacts
  <2>3. DefaultSite(c, a) = Least(with)
    BY <2>1 DEF DefaultSite, Least
  <2>4. Least(with) \in with
    <3> HIDE DEF with
    <3> QED BY <2>1, <2>2, LeastOf
  <2> QED BY <2>2, <2>3, <2>4
<1> HIDE DEF site, owners
<1>11. owners = Owners(runtime, a, host) /\ site = Lookup(runtime, a, host)
  BY <1>1 DEF owners, site
<1>12. IF owners = {} THEN Answer(s, host) = 0 ELSE owners = {Answer(s, host)}
  BY <1>4, <1>7, <1>8
<1>13. publicTLS(c, a) => /\ Certificate(s, host) # 0
                          /\ \A i \in owners : siteTLSEnabled(c.sites[i]) => Certificate(s, host) = i
  BY <1>4, <1>9, <1>10
<1>14. PlainNames(c, a) => \A i \in owners : siteTLSEnabled(c.sites[i]) => ServerCertificate(c, a, NginxServer(c, a, h)) = i
  BY <1>4 DEF ServerCertificate
<1> QED BY <1>1, <1>11, <1>12, <1>13, <1>14 DEF RoutedRightly

(* What sockets a configuration asks for.                                  *)
LEMMA SocketFacts ==
  ASSUME NEW c, Validated(c)
  PROVE  SocketsOf(c) \subseteq SocketRec /\ \A s \in SocketsOf(c) : s.key[1] = "unix" => s.logical = Go(s.key[2])
<1> SUFFICES ASSUME NEW a \in Addresses(c)
             PROVE  Socket(c, a) \in SocketRec /\ (Socket(c, a).key[1] = "unix" => Socket(c, a).logical = Go(Socket(c, a).key[2]))
  BY DEF SocketsOf
<1>1. a \in STRING
  <2>1. PICK i \in DOMAIN c.sites : a = c.sites[i].listen
    BY DEF Addresses
  <2> QED BY <2>1, SiteFacts DEF SiteRec
<1>2. Go(a) \in {"tcp", "unix"} \X STRING /\ Internal(a) \in {"tcp", "unix"} \X STRING
  BY <1>1 DEF Go, Internal
<1>3. c.frontend \in BOOLEAN /\ publicTLS(c, a) \in BOOLEAN
  BY DEF Validated, Configs, publicTLS
<1>4. CASE Fronted(c, a)
  <2>1. ListenerKey(c, a) = Internal(a) /\ LogicalAddr(c, Internal(a)) = Go(a)
    BY <1>4 DEF ListenerKey, LogicalAddr, Internal, Fronted
  <2> QED BY <1>2, <1>3, <2>1 DEF Socket, SocketRec, Internal
<1>5. CASE ~Fronted(c, a)
  <2>1. ListenerKey(c, a) = Go(a) /\ LogicalAddr(c, Go(a)) = Go(a) /\ Go(a)[1] # "unix"
    BY <1>5 DEF ListenerKey, LogicalAddr, Go
  <2> QED BY <1>2, <1>3, <2>1 DEF Socket, SocketRec
<1> QED BY <1>4, <1>5

LEMMA ReconciledFacts ==
  ASSUME RoutingIInv, NEW c, Validated(c)
  PROVE  Reconciled(c) \subseteq SocketRec /\ \A s \in Reconciled(c) : s.key[1] = "unix" => s.logical = Go(s.key[2])
<1>1. ASSUME NEW s \in Reconciled(c)
      PROVE  s \in sockets \/ s \in SocketsOf(c) \/ \E t \in sockets : s = [t EXCEPT !.closing = TRUE]
  BY DEF Reconciled
<1>2. ASSUME NEW t \in sockets
      PROVE  /\ [t EXCEPT !.closing = TRUE] \in SocketRec
             /\ [t EXCEPT !.closing = TRUE].key = t.key /\ [t EXCEPT !.closing = TRUE].logical = t.logical
  BY DEF RoutingIInv, SocketRec
<1>3. ASSUME NEW s \in Reconciled(c) PROVE s \in SocketRec /\ (s.key[1] = "unix" => s.logical = Go(s.key[2]))
  <2>1. CASE s \in sockets
    BY <2>1 DEF RoutingIInv
  <2>2. CASE s \in SocketsOf(c)
    BY <2>2, SocketFacts
  <2>3. CASE \E t \in sockets : s = [t EXCEPT !.closing = TRUE]
    <3>1. PICK t \in sockets : s = [t EXCEPT !.closing = TRUE]
      BY <2>3
    <3>2. s \in SocketRec /\ s.key = t.key /\ s.logical = t.logical
      BY <1>2, <3>1
    <3> QED BY <3>2 DEF RoutingIInv
  <2> QED BY <1>1, <2>1, <2>2, <2>3
<1> QED BY <1>3

(* The inductive invariant.                                                *)
THEOREM RoutingInvariant == RoutingSpec => []RoutingIInv
<1>1. RoutingInit => RoutingIInv
  BY SocketFacts, RoutingAssumption DEF RoutingInit, RoutingIInv, Validated
<1>2. RoutingIInv /\ [RoutingNext]_routingVars => RoutingIInv'
  <2> SUFFICES ASSUME RoutingIInv, [RoutingNext]_routingVars PROVE RoutingIInv'
    OBVIOUS
  <2>1. ASSUME NEW c \in SiteConfigs, Reconfigure(c) PROVE RoutingIInv'
    <3>1. Validated(c) /\ next' = c /\ runtime' = runtime /\ sockets' = Reconciled(c)
      BY <2>1, RoutingAssumption DEF Reconfigure, Validated
    <3> QED BY <3>1, ReconciledFacts DEF RoutingIInv
  <2>2. CASE SwapRuntime
    BY <2>2 DEF SwapRuntime, RoutingIInv
  <2>3. CASE RollBackSockets
    <3>1. Validated(runtime) /\ next' = NoConfig /\ runtime' = runtime /\ sockets' = Reconciled(runtime)
      BY <2>3 DEF RollBackSockets, RoutingIInv
    <3>2. PICK c : c = runtime
      OBVIOUS
    <3>3. Reconciled(c) \subseteq SocketRec /\ \A s \in Reconciled(c) : s.key[1] = "unix" => s.logical = Go(s.key[2])
      BY <3>1, <3>2, ReconciledFacts
    <3> QED BY <3>1, <3>2, <3>3 DEF RoutingIInv
  <2>4. ASSUME NEW s \in sockets, LastRequestEnds(s) PROVE RoutingIInv'
    BY <2>4 DEF LastRequestEnds, RoutingIInv
  <2>5. CASE UNCHANGED routingVars
    BY <2>5 DEF routingVars, RoutingIInv
  <2> QED BY <2>1, <2>2, <2>3, <2>4, <2>5 DEF RoutingNext
<1> QED BY <1>1, <1>2, PTL DEF RoutingSpec

(* At every moment of an apply, its rollback or a hand-over of TLS, a      *)
(* request goes to the one site that claims its host most specifically,    *)
(* and a handshake gets that site's certificate, from Go and from nginx.   *)
THEOREM AlwaysRoutedToOwner == RoutingSpec => []RoutedToOwner
<1>1. RoutingIInv => RoutedToOwner
  BY RightSite DEF RoutedToOwner
<1> QED BY <1>1, RoutingInvariant, PTL

(***************************************************************************)
(* Proofs about GraphQL policies, for any names, contracts, limits, saves  *)
(* and restarts.                                                           *)
(***************************************************************************)

(* A contract and a policy are not missing.                                *)
LEMMA ContractIsPresent ==
  /\ \A c \in Contract8 : c # No
  /\ \A p \in Rule8 : p # No
<1>1. No.is = "no" /\ "no" # "contract" /\ "no" # "rule"
  BY DEF No
<1>2. (\A c \in Contract8 : c.is = "contract") /\ (\A p \in Rule8 : p.is = "rule")
  BY DEF Contract8, Rule8
<1> QED BY <1>1, <1>2

(* What was vetted stays so: nothing is taken back from reviewed.          *)
LEMMA VettedStays ==
  ASSUME NEW cs, NEW rs, Vetted(cs, rs), reviewed \subseteq reviewed'
  PROVE  Vetted(cs, rs)'
  BY DEF Vetted, Meaning

(* Rebuilding a store: a policy beyond LEARN is in DETECT, which makes it  *)
(* reviewed, or means what a reviewed one means.                           *)
LEMMA RebuiltVetted ==
  ASSUME NEW cs \in [Schemas -> {No} \cup Contract8], NEW rs \in [Names -> {No} \cup Rule8], NEW ps,
         Rebuilt(cs, rs, ps),
         \A n \in Names : rs[n] # No /\ rs[n].schema # "" => cs[rs[n].schema] # No,
         \A n \in Names : rs[n] # No /\ rs[n].mode = "ENFORCE" => Meaning(rs[n], cs) \in reviewed
  PROVE  /\ Vetted(contracts, rules)' /\ (seen8.contracts = contracts)' /\ (seen8.rules = rules)'
         /\ reviewed \subseteq reviewed'
<1>1. contracts' = cs /\ rules' = rs /\ seen8' = [contracts |-> cs, rules |-> rs, persisted |-> ps]
  BY DEF Rebuilt
<1>2. reviewed' = reviewed \cup {Meaning(rs[n], cs) : n \in {m \in Names : rs[m] # No /\ rs[m].mode = "DETECT"}}
  BY DEF Rebuilt
<1>3. ASSUME NEW n \in Names, rs[n] # No, rs[n].mode # "LEARN" PROVE Meaning(rs[n], cs) \in reviewed'
  <2>1. rs[n].mode \in {"DETECT", "ENFORCE"}
    BY <1>3 DEF Rule8
  <2> QED BY <1>2, <1>3, <2>1
<1>4. \A n \in Names : Meaning(rs[n], cs)' = Meaning(rs[n], cs)
  BY DEF Meaning
<1> QED BY <1>1, <1>2, <1>3, <1>4 DEF Vetted, Meaning

(* The start.                                                              *)
LEMMA StartVetted == GraphQLInit => GraphQLInv
  BY DEF GraphQLInit, GraphQLInv, Vetted

(* Steps that rebuild the store and touch no file.                         *)
LEMMA StoreStep ==
  ASSUME GraphQLInv, UNCHANGED disk8, reviewed \subseteq reviewed',
         Vetted(contracts, rules)', (seen8.contracts = contracts)', (seen8.rules = rules)'
  PROVE  GraphQLInv'
<1>1. Vetted(file8.contracts, file8.rules)'
  BY VettedStays DEF GraphQLInv, disk8, Vetted, Meaning
<1>2. \A s \in saving8' : Vetted(s.contracts, s.rules)'
  BY VettedStays DEF GraphQLInv, disk8
<1> QED BY <1>1, <1>2 DEF GraphQLInv

(* Every step.                                                             *)
LEMMA VettedStep == GraphQLInv /\ [GraphQLNext]_graphqlVars => GraphQLInv'
<1> SUFFICES ASSUME GraphQLInv, [GraphQLNext]_graphqlVars PROVE GraphQLInv'
  OBVIOUS
<1> DEFINE Cs == [Schemas -> {No} \cup Contract8]
           Rs == [Names -> {No} \cup Rule8]
<1>0. /\ contracts \in Cs /\ rules \in Rs
      /\ \A n \in Names : rules[n] # No =>
           /\ rules[n].schema # "" => contracts[rules[n].schema] # No
           /\ rules[n].mode # "LEARN" => Meaning(rules[n], contracts) \in reviewed
  BY DEF GraphQLInv, Vetted
<1>1. ASSUME NEW c \in Schemas, NEW x \in Sdl, UpsertSchemaContract(c, x) PROVE GraphQLInv'
  <2> DEFINE new == [is |-> "contract", declares |-> x]
             cs == [contracts EXCEPT ![c] = new]
             rs == [n \in Names |-> IF contracts[c] \in {No, new} THEN rules[n] ELSE Relearn(rules[n], c)]
  <2>1. Rebuilt(cs, rs, persisted) /\ UNCHANGED disk8
    BY <1>1 DEF UpsertSchemaContract, Edit8
  <2>2. /\ new \in Contract8 /\ new # No /\ cs \in Cs
        /\ \A k \in Schemas : cs[k] = IF k = c THEN new ELSE contracts[k]
    BY <1>0, ContractIsPresent DEF Contract8
  <2>3. ASSUME NEW n \in Names
        PROVE  /\ rs[n] \in {No} \cup Rule8 /\ (rs[n] # No => rules[n] # No /\ rs[n].schema = rules[n].schema)
               /\ rs[n] = rules[n] \/ rs[n].mode = "LEARN"
               /\ rs[n] # No /\ rs[n].schema = c => rs[n].mode = "LEARN" \/ contracts[c] = new \/ contracts[c] = No
    <3>1. rules[n] \in {No} \cup Rule8
      BY <1>0
    <3>2. CASE rs[n] = rules[n] /\ (contracts[c] \in {No, new} \/ ~(rules[n] # No /\ rules[n].schema = c))
      BY <3>1, <3>2
    <3>3. CASE rs[n] = [rules[n] EXCEPT !.mode = "LEARN"] /\ rules[n] # No /\ rules[n].schema = c
      <4> HIDE DEF rs
      <4>1. rules[n] \in Rule8
        BY <3>1, <3>3
      <4>2. rs[n] \in Rule8 /\ rs[n].schema = rules[n].schema /\ rs[n].mode = "LEARN"
        BY <3>3, <4>1 DEF Rule8
      <4> QED BY <3>3, <4>2
    <3>4. CASE contracts[c] \in {No, new}
      BY <3>2, <3>4
    <3>5. CASE contracts[c] \notin {No, new}
      <4>1. rs[n] = Relearn(rules[n], c)
        BY <3>5
      <4> QED BY <3>2, <3>3, <4>1 DEF Relearn
    <3> QED BY <3>4, <3>5
  <2>4. rs \in Rs
    BY <2>3
  <2>a. ASSUME NEW n \in Names, rs[n] # No, rs[n].schema # ""
        PROVE  rules[n].schema = rs[n].schema /\ rs[n].schema \in Schemas /\ contracts[rs[n].schema] # No
    <3>1. rules[n] # No /\ rules[n].schema = rs[n].schema
      BY <2>3, <2>a
    <3>2. rules[n] \in Rule8
      BY <1>0, <3>1
    <3> QED BY <1>0, <2>a, <3>1, <3>2 DEF Rule8
  <2> HIDE DEF new, cs, rs
  <2>5. ASSUME NEW n \in Names, rs[n] # No, rs[n].schema # "" PROVE cs[rs[n].schema] # No
    BY <2>2, <2>5, <2>a
  <2>6. ASSUME NEW n \in Names, rs[n] # No, rs[n].mode = "ENFORCE" PROVE Meaning(rs[n], cs) \in reviewed
    <3>1. rs[n] = rules[n] /\ Meaning(rules[n], contracts) \in reviewed
      BY <1>0, <2>3, <2>6
    <3>2. rules[n].schema # "" => cs[rules[n].schema] = contracts[rules[n].schema]
      BY <2>2, <2>3, <2>6, <2>a, <3>1
    <3> QED BY <3>1, <3>2 DEF Meaning
  <2> QED BY <2>1, <2>2, <2>4, <2>5, <2>6, RebuiltVetted, StoreStep
<1>2. ASSUME NEW c \in Schemas, DeleteSchemaContract(c) PROVE GraphQLInv'
  <2> DEFINE cs == [contracts EXCEPT ![c] = No]
  <2>1. /\ Rebuilt(cs, rules, persisted) /\ UNCHANGED disk8
        /\ \A n \in Names : rules[n] # No => rules[n].schema # c
    BY <1>2 DEF DeleteSchemaContract, Edit8
  <2>2. cs \in Cs
    BY <1>0
  <2>3. \A n \in Names : rules[n] # No => cs[rules[n].schema] = contracts[rules[n].schema] \/ rules[n].schema = ""
    BY <1>0, <2>1 DEF Rule8
  <2>4. \A n \in Names : rules[n] # No => Meaning(rules[n], cs) = Meaning(rules[n], contracts)
    BY <2>3 DEF Meaning
  <2>5. \A n \in Names : rules[n] # No /\ rules[n].schema # "" => cs[rules[n].schema] # No
    BY <1>0, <2>3
  <2>6. \A n \in Names : rules[n] # No /\ rules[n].mode = "ENFORCE" => Meaning(rules[n], cs) \in reviewed
    BY <1>0, <2>4
  <2> QED BY <1>0, <2>1, <2>2, <2>5, <2>6, RebuiltVetted, StoreStep
<1>3. ASSUME NEW n \in Names, NEW c \in Schemas \cup {""}, NEW l \in Limits, UpsertRule(n, c, l) PROVE GraphQLInv'
  <2> DEFINE p == [is |-> "rule", schema |-> c, limits |-> l, mode |-> "LEARN"]
             rs == [rules EXCEPT ![n] = p]
  <2>1. Rebuilt(contracts, rs, persisted) /\ UNCHANGED disk8 /\ (c # "" => contracts[c] # No)
    BY <1>3 DEF UpsertRule, Edit8
  <2>2. p \in Rule8 /\ rs \in Rs
    BY <1>0 DEF Rule8
  <2>3. \A m \in Names : rs[m] = p \/ rs[m] = rules[m]
    BY <1>0
  <2>4. \A m \in Names : rs[m] # No /\ rs[m].schema # "" => contracts[rs[m].schema] # No
    BY <1>0, <2>1, <2>3
  <2>5. \A m \in Names : rs[m] # No /\ rs[m].mode = "ENFORCE" => Meaning(rs[m], contracts) \in reviewed
    BY <1>0, <2>3
  <2> QED BY <1>0, <2>1, <2>2, <2>4, <2>5, RebuiltVetted, StoreStep
<1>4. ASSUME NEW n \in Names, NEW m \in {"LEARN", "DETECT", "ENFORCE"}, SetRuleMode(n, m) PROVE GraphQLInv'
  <2> DEFINE rs == [rules EXCEPT ![n].mode = m]
  <2>1. /\ Rebuilt(contracts, rs, persisted) /\ UNCHANGED disk8
        /\ rules[n] # No /\ GraphQLModeTransition(rules[n].mode, m)
    BY <1>4 DEF SetRuleMode, Edit8
  <2>2. /\ rs[n] \in Rule8 /\ rs[n].schema = rules[n].schema /\ rs[n].limits = rules[n].limits
        /\ rs[n].mode = m /\ rs \in Rs
    <3>1. rules[n] \in Rule8
      BY <1>0, <2>1
    <3>2. rs = [rules EXCEPT ![n] = [rules[n] EXCEPT !.mode = m]]
      OBVIOUS
    <3>3. /\ [rules[n] EXCEPT !.mode = m] \in Rule8 /\ [rules[n] EXCEPT !.mode = m].mode = m
          /\ [rules[n] EXCEPT !.mode = m].schema = rules[n].schema
          /\ [rules[n] EXCEPT !.mode = m].limits = rules[n].limits
      BY <3>1 DEF Rule8
    <3> HIDE DEF rs
    <3>4. rs[n] = [rules[n] EXCEPT !.mode = m] /\ rs \in Rs
      BY <1>0, <3>2, <3>3
    <3> QED BY <3>3, <3>4
  <2>3. m = "ENFORCE" => rules[n].mode # "LEARN"
    BY <2>1 DEF GraphQLModeTransition
  <2>4. Meaning(rs[n], contracts) = Meaning(rules[n], contracts)
    BY <2>2 DEF Meaning
  <2>5. \A k \in Names : k # n => rs[k] = rules[k]
    BY <1>0
  <2>6. \A k \in Names : rs[k] # No /\ rs[k].schema # "" => contracts[rs[k].schema] # No
    BY <1>0, <2>1, <2>2, <2>5
  <2>7. \A k \in Names : rs[k] # No /\ rs[k].mode = "ENFORCE" => Meaning(rs[k], contracts) \in reviewed
    BY <1>0, <2>1, <2>2, <2>3, <2>4, <2>5
  <2> QED BY <1>0, <2>1, <2>2, <2>6, <2>7, RebuiltVetted, StoreStep
<1>5. ASSUME NEW n \in Names, DeleteRule(n) PROVE GraphQLInv'
  <2> DEFINE rs == [rules EXCEPT ![n] = No]
  <2>1. Rebuilt(contracts, rs, persisted) /\ UNCHANGED disk8
    BY <1>5 DEF DeleteRule, Edit8
  <2>2. rs \in Rs /\ \A m \in Names : rs[m] = No \/ rs[m] = rules[m]
    <3>1. rules \in Rs
      BY <1>0
    <3> QED BY <3>1
  <2> HIDE DEF rs
  <2>3. \A m \in Names : rs[m] # No /\ rs[m].schema # "" => contracts[rs[m].schema] # No
    BY <1>0, <2>2
  <2>4. \A m \in Names : rs[m] # No /\ rs[m].mode = "ENFORCE" => Meaning(rs[m], contracts) \in reviewed
    BY <1>0, <2>2
  <2> QED BY <1>0, <2>1, <2>2, <2>3, <2>4, RebuiltVetted, StoreStep
<1>6. ASSUME NEW ps, Rebuilt(contracts, rules, ps), UNCHANGED disk8 PROVE GraphQLInv'
  BY <1>0, <1>6, RebuiltVetted, StoreStep
<1>7. ASSUME UNCHANGED <<contracts, rules, seen8, reviewed>>, UNCHANGED disk8 PROVE GraphQLInv'
  BY <1>7 DEF GraphQLInv, Vetted, Meaning, disk8
<1>8. CASE SaveGraphQL
  <2>1. /\ UNCHANGED <<contracts, rules, seen8, reviewed, file8>>
        /\ saving8' = saving8 \cup {[contracts |-> contracts, rules |-> rules, persisted |-> persisted]}
    BY <1>8 DEF SaveGraphQL, store8
  <2>2. \A s \in saving8' : Vetted(s.contracts, s.rules)'
    BY <2>1, VettedStays DEF GraphQLInv
  <2> QED BY <2>1, <2>2 DEF GraphQLInv, Vetted, Meaning
<1>9. CASE GraphQLSaved
  <2>1. UNCHANGED <<contracts, rules, seen8, reviewed>> /\ saving8' \subseteq saving8 /\ file8' \in saving8 \cup {file8}
    BY <1>9 DEF GraphQLSaved, store8
  <2>2. Vetted(file8'.contracts, file8'.rules)
    BY <2>1 DEF GraphQLInv
  <2> QED BY <2>1, <2>2, VettedStays DEF GraphQLInv, Vetted, Meaning
<1>10. CASE LoadGraphQL
  <2>1. Rebuilt(file8.contracts, file8.rules, file8.persisted) /\ saving8' = {} /\ UNCHANGED file8
    BY <1>10 DEF LoadGraphQL
  <2>2. /\ Vetted(contracts, rules)' /\ (seen8.contracts = contracts)' /\ (seen8.rules = rules)'
        /\ reviewed \subseteq reviewed'
    BY <2>1, RebuiltVetted DEF GraphQLInv, Vetted
  <2>3. Vetted(file8.contracts, file8.rules)'
    BY <2>1, <2>2, VettedStays DEF GraphQLInv, Vetted, Meaning
  <2> QED BY <2>1, <2>2, <2>3 DEF GraphQLInv
<1>11. ASSUME NEW c, CallIs(c) PROVE GraphQLInv'
  BY <1>11, <1>7 DEF CallIs, store8
<1>12. CASE UNCHANGED graphqlVars
  BY <1>12, <1>7 DEF graphqlVars, store8
<1>13. CASE LearnPersisted
  BY <1>13, <1>6 DEF LearnPersisted
<1>14. ASSUME NEW h \in Hashes, ForgetPersisted(h) PROVE GraphQLInv'
  BY <1>14, <1>6, <1>7 DEF ForgetPersisted
<1>15. ASSUME NEW kind, NEW n, NEW h, Receive(kind, n, h) PROVE GraphQLInv'
  BY <1>15, <1>11 DEF Receive
<1>16. CASE FindRule
  BY <1>16, <1>7 DEF FindRule, CallIs, store8
<1>17. ASSUME NEW v \in BOOLEAN, JudgeDocument(v) PROVE GraphQLInv'
  BY <1>17, <1>11 DEF JudgeDocument
<1>18. CASE Respond8
  BY <1>18, <1>11 DEF Respond8
<1> QED
  BY <1>1, <1>2, <1>3, <1>4, <1>5, <1>8, <1>9, <1>10, <1>12, <1>13, <1>14, <1>15, <1>16, <1>17, <1>18 DEF GraphQLNext

(* Every store, in memory, in a save or in the file, is vetted.            *)
THEOREM PoliciesVetted == GraphQLSpec => []GraphQLInv
  BY StartVetted, VettedStep, PTL DEF GraphQLSpec

(* Requests meet only policies in ENFORCE whose limits and contract were   *)
(* together in DETECT (upsertRule, upsertSchemaContract, load).            *)
THEOREM OnlyReviewedEnforced == GraphQLSpec => []EnforceIsReviewed
<1>1. GraphQLInv => EnforceIsReviewed
  BY DEF GraphQLInv, Vetted, EnforceIsReviewed
<1> QED BY <1>1, PoliciesVetted, PTL


(***************************************************************************)
(* Proofs about identity policies, for any issuers, operations, tokens,    *)
(* saves and restarts.                                                     *)
(***************************************************************************)

(* A record of the store is not missing.                                   *)
LEMMA IssuerIsPresent ==
  /\ \A i \in IssuerRec : i # None
  /\ \A p \in PolicyRec : p # None
<1>1. None.is = "none" /\ "none" # "issuer" /\ "none" # "policy"
  BY DEF None
<1>2. (\A i \in IssuerRec : i.is = "issuer") /\ (\A p \in PolicyRec : p.is = "policy")
  BY DEF IssuerRec, PolicyRec
<1> QED BY <1>1, <1>2

(* What was sanctioned stays so: promotions are not taken back.            *)
LEMMA SanctionStays ==
  ASSUME NEW iss, NEW pol, NEW done, NEW more, Sanctioned(iss, pol, done), done \subseteq more
  PROVE  Sanctioned(iss, pol, more)
  BY DEF Sanctioned

(* What requests load after a rebuild.                                     *)
LEMMA RebuildShape ==
  ASSUME NEW iss, NEW pol, NEW old, Rebuild(iss, pol, old)
  PROVE  /\ issuers' = iss /\ policies' = pol
         /\ \A o \in Operations : IF pol[o] = None THEN snapshot'[o] = None
                                  ELSE snapshot'[o] # None /\ snapshot'[o].policy = pol[o]
<1>1. issuers' = iss /\ policies' = pol
  BY DEF Rebuild
<1>2. ASSUME NEW o \in Operations, pol[o] # None PROVE snapshot'[o] # None /\ snapshot'[o].policy = pol[o]
  <2>1. PICK v : snapshot'[o] = [is |-> "rule", policy |-> pol[o], verifier |-> v]
    BY <1>2 DEF Rebuild
  <2>2. snapshot'[o].is = "rule" /\ None.is = "none" /\ "rule" # "none"
    BY <2>1 DEF None
  <2> QED BY <2>1, <2>2
<1>3. ASSUME NEW o \in Operations, pol[o] = None PROVE snapshot'[o] = None
  BY <1>3 DEF Rebuild
<1> QED BY <1>1, <1>2, <1>3

(* An edit of the store leaves requests and files alone.                   *)
LEMMA EditStep ==
  ASSUME PromotionInv, NEW iss, NEW pol, NEW old, Rebuild(iss, pol, old),
         promoted \subseteq promoted', UNCHANGED bearer, UNCHANGED saveVars, Sanctioned(iss, pol, promoted')
  PROVE  PromotionInv'
<1>1. StoresInv'
  BY RebuildShape, SanctionStays DEF PromotionInv, StoresInv, saveVars
<1>2. BearersInv'
  BY DEF PromotionInv, BearersInv, RuleKept
<1> QED BY <1>1, <1>2 DEF PromotionInv

(* A request's step keeps the rule it found.                               *)
LEMMA BearerStep ==
  ASSUME PromotionInv, NEW q \in Tokens, NEW b, Becomes(q, b), b = None \/ RuleKept(b)
  PROVE  PromotionInv'
<1>1. StoresInv'
  BY DEF PromotionInv, StoresInv, Becomes, policyVars, saveVars
<1>2. /\ promoted' = promoted /\ DOMAIN bearer' = Tokens
      /\ \A p \in Tokens : bearer'[p] = IF p = q THEN b ELSE bearer[p]
  BY DEF PromotionInv, BearersInv, Becomes, policyVars
<1>3. BearersInv'
  BY <1>2 DEF PromotionInv, BearersInv, RuleKept
<1> QED BY <1>1, <1>3 DEF PromotionInv

(* Changes of a request that are not decisions, and decisions.             *)
LEMMA RuleStays ==
  ASSUME NEW b, RuleKept(b), b.at # "rejected"
  PROVE  /\ \A x : x # "rejected" => RuleKept([b EXCEPT !.at = x])
         /\ \A x, s : x # "rejected" => RuleKept([b EXCEPT !.at = x, !.set = s])
         /\ \A x : RuleKept([b EXCEPT !.verified = x]) /\ [b EXCEPT !.verified = x].at # "rejected"
         /\ \A x : RuleKept(Decides(b, x))
<1>1. ASSUME NEW x, x # "rejected" PROVE RuleKept([b EXCEPT !.at = x])
  BY <1>1 DEF RuleKept
<1>2. ASSUME NEW x, NEW s, x # "rejected" PROVE RuleKept([b EXCEPT !.at = x, !.set = s])
  BY <1>2 DEF RuleKept
<1>3. ASSUME NEW x PROVE RuleKept([b EXCEPT !.verified = x]) /\ [b EXCEPT !.verified = x].at # "rejected"
  BY <1>3 DEF RuleKept
<1>4. ASSUME NEW x PROVE RuleKept(Decides(b, x))
  <2>1. CASE x \/ b.rule.policy.mode = "DETECT"
    BY <1>1, <2>1 DEF Decides, Outcome
  <2>2. CASE ~(x \/ b.rule.policy.mode = "DETECT")
    <3>1. b.rule.policy.mode = "ENFORCE"
      BY <2>2 DEF RuleKept, PolicyRec
    <3> QED BY <2>2, <3>1 DEF Decides, Outcome, RuleKept
  <2> QED BY <2>1, <2>2
<1> QED BY <1>1, <1>2, <1>3, <1>4

(* The start.                                                              *)
LEMMA PromotionStart == IdentityInit => PromotionInv
  BY DEF IdentityInit, PromotionInv, StoresInv, BearersInv, Sanctioned

(* Operators' steps.                                                       *)
LEMMA StoreSteps ==
  ASSUME PromotionInv
  PROVE  /\ \A i \in Issuers, t \in Trusts, on \in BOOLEAN : UpsertIssuer(i, t, on) => PromotionInv'
         /\ \A o \in Operations, i \in Issuers, r \in Requirements : UpsertPolicy(o, i, r) => PromotionInv'
         /\ \A o \in Operations, m \in {"DETECT", "ENFORCE"} : SetPolicyMode(o, m) => PromotionInv'
         /\ \A o \in Operations : DeletePolicy(o) => PromotionInv'
<1> DEFINE Is == [Issuers -> {None} \cup IssuerRec]
           Ps == [Operations -> {None} \cup PolicyRec]
<1>0. /\ issuers \in Is /\ policies \in Ps
      /\ \A o \in Operations : policies[o] # None =>
           /\ policies[o] \in PolicyRec /\ policies[o].issuer \in Issuers
           /\ issuers[policies[o].issuer] # None
           /\ policies[o].mode = "ENFORCE" => Form(policies[o], issuers) \in promoted
  BY DEF PromotionInv, StoresInv, Sanctioned, PolicyRec
<1>1. ASSUME NEW i \in Issuers, NEW t \in Trusts, NEW on \in BOOLEAN, UpsertIssuer(i, t, on) PROVE PromotionInv'
  <2> DEFINE new == [is |-> "issuer", trust |-> t, enabled |-> on]
             changed == issuers[i] # None /\ ~SameTrust(issuers[i], new)
             iss == [issuers EXCEPT ![i] = new]
             pol == [o \in Operations |->
                       IF changed /\ policies[o] # None /\ policies[o].issuer = i
                         THEN [policies[o] EXCEPT !.mode = "DETECT"] ELSE policies[o]]
             old == [runtimes EXCEPT ![i] = IF changed THEN None ELSE @]
  <2>1. Rebuild(iss, pol, old) /\ UNCHANGED bearer /\ UNCHANGED saveVars /\ promoted' = promoted
    BY <1>1 DEF UpsertIssuer
  <2>2. /\ new \in IssuerRec /\ new # None /\ iss \in Is
        /\ \A k \in Issuers : iss[k] = IF k = i THEN new ELSE issuers[k]
    BY <1>0, IssuerIsPresent DEF IssuerRec
  <2>3. ASSUME NEW o \in Operations
        PROVE  /\ pol[o] \in {None} \cup PolicyRec
               /\ pol[o] # None => policies[o] # None /\ pol[o].issuer = policies[o].issuer
               /\ pol[o] # None /\ pol[o].mode = "ENFORCE" => pol[o] = policies[o] /\ (policies[o].issuer # i \/ ~changed)
    BY <1>0, IssuerIsPresent DEF PolicyRec
  <2>4. issuers[i] # None /\ ~changed => issuers[i].trust = t
    BY DEF SameTrust
  <2>5. new.trust = t
    OBVIOUS
  <2>6. pol \in Ps
    BY <2>3
  <2> HIDE DEF new, changed, iss, pol, old
  <2>7. ASSUME NEW o \in Operations, pol[o] # None PROVE iss[pol[o].issuer] # None
    BY <1>0, <2>2, <2>3, <2>7
  <2>8. ASSUME NEW o \in Operations, pol[o] # None, pol[o].mode = "ENFORCE" PROVE Form(pol[o], iss) \in promoted
    <3>1. pol[o] = policies[o] /\ policies[o].issuer \in Issuers /\ issuers[policies[o].issuer] # None
      BY <1>0, <2>3, <2>8
    <3>2. iss[policies[o].issuer] # None /\ iss[policies[o].issuer].trust = issuers[policies[o].issuer].trust
      BY <2>2, <2>3, <2>4, <2>5, <2>8, <3>1
    <3>3. Form(policies[o], iss) = Form(policies[o], issuers)
      BY <3>1, <3>2 DEF Form
    <3> QED BY <1>0, <2>8, <3>1, <3>3
  <2>9. Sanctioned(iss, pol, promoted')
    BY <2>1, <2>2, <2>6, <2>7, <2>8 DEF Sanctioned
  <2> QED BY <2>1, <2>9, EditStep
<1>2. ASSUME NEW o \in Operations, NEW i \in Issuers, NEW r \in Requirements, UpsertPolicy(o, i, r) PROVE PromotionInv'
  <2> DEFINE asked == [is |-> "policy", issuer |-> i, requires |-> r, mode |-> "DETECT"]
             kept == policies[o] # None /\ SameSemantics(policies[o], asked)
             new == [asked EXCEPT !.mode = IF kept THEN policies[o].mode ELSE "DETECT"]
             pol == [policies EXCEPT ![o] = new]
  <2>1. /\ Rebuild(issuers, pol, runtimes) /\ UNCHANGED bearer /\ UNCHANGED saveVars /\ promoted' = promoted
        /\ issuers[i] # None
    BY <1>2 DEF UpsertPolicy
  <2>2. kept => policies[o] # None /\ policies[o].issuer = i /\ policies[o].requires = r /\ policies[o].mode \in {"DETECT", "ENFORCE"}
    BY <1>0 DEF SameSemantics, PolicyRec
  <2>3. /\ new \in PolicyRec /\ new.issuer = i /\ new.requires = r
        /\ new.mode = "ENFORCE" => kept /\ policies[o].mode = "ENFORCE"
    BY <2>2 DEF PolicyRec
  <2>4. pol \in Ps /\ \A p \in Operations : pol[p] = IF p = o THEN new ELSE policies[p]
    BY <1>0, <2>3
  <2> HIDE DEF new, kept, pol
  <2>5. new.mode = "ENFORCE" => Form(new, issuers) \in promoted
    BY <1>0, <2>2, <2>3 DEF Form
  <2>6. Sanctioned(issuers, pol, promoted)
    BY <1>0, <2>1, <2>3, <2>4, <2>5 DEF Sanctioned
  <2> QED BY <2>1, <2>6, EditStep
<1>3. ASSUME NEW o \in Operations, NEW m \in {"DETECT", "ENFORCE"}, SetPolicyMode(o, m) PROVE PromotionInv'
  <2> DEFINE pol == [policies EXCEPT ![o].mode = m]
  <2>1. /\ Rebuild(issuers, pol, runtimes) /\ UNCHANGED bearer /\ UNCHANGED saveVars
        /\ promoted \subseteq promoted' /\ policies[o] # None
        /\ m = "ENFORCE" => Form(policies[o], issuers) \in promoted'
    BY <1>3 DEF SetPolicyMode
  <2>2. /\ pol \in Ps /\ \A p \in Operations : p # o => pol[p] = policies[p]
        /\ pol[o] \in PolicyRec /\ pol[o].issuer = policies[o].issuer /\ pol[o].requires = policies[o].requires /\ pol[o].mode = m
    BY <1>0, <2>1 DEF PolicyRec
  <2> HIDE DEF pol
  <2>3. Form(pol[o], issuers) = Form(policies[o], issuers)
    BY <2>2 DEF Form
  <2>4. \A p \in Operations : pol[p] # None =>
          issuers[pol[p].issuer] # None /\ (pol[p].mode = "ENFORCE" => Form(pol[p], issuers) \in promoted')
    BY <1>0, <2>1, <2>2, <2>3
  <2>5. Sanctioned(issuers, pol, promoted')
    BY <1>0, <2>2, <2>4 DEF Sanctioned
  <2> QED BY <2>1, <2>5, EditStep
<1>4. ASSUME NEW o \in Operations, DeletePolicy(o) PROVE PromotionInv'
  <2> DEFINE pol == [policies EXCEPT ![o] = None]
  <2>1. Rebuild(issuers, pol, runtimes) /\ UNCHANGED bearer /\ UNCHANGED saveVars /\ promoted' = promoted
    BY <1>4 DEF DeletePolicy
  <2>2. pol \in Ps /\ \A p \in Operations : pol[p] = IF p = o THEN None ELSE policies[p]
    BY <1>0
  <2> HIDE DEF pol
  <2>3. Sanctioned(issuers, pol, promoted)
    BY <1>0, <2>2 DEF Sanctioned
  <2> QED BY <2>1, <2>3, EditStep
<1> QED BY <1>1, <1>2, <1>3, <1>4

(* Saves and restarts.                                                     *)
LEMMA SaveSteps ==
  ASSUME PromotionInv
  PROVE  (SaveState => PromotionInv') /\ (SaveWritten => PromotionInv') /\ (Restart => PromotionInv')
<1>1. ASSUME SaveState \/ SaveWritten PROVE PromotionInv'
  <2>1. /\ UNCHANGED <<issuers, policies, snapshot, promoted, bearer>>
        /\ stateFile' = stateFile \/ stateFile' \in writing
        /\ writing' \subseteq writing \cup {[is |-> "file", issuers |-> issuers, policies |-> policies]}
    BY <1>1 DEF SaveState, SaveWritten, policyVars
  <2>2. StoresInv'
    BY <2>1 DEF PromotionInv, StoresInv
  <2>3. BearersInv'
    BY <2>1 DEF PromotionInv, BearersInv, RuleKept
  <2> QED BY <2>2, <2>3 DEF PromotionInv
<1>2. ASSUME Restart PROVE PromotionInv'
  <2>1. /\ Rebuild(stateFile.issuers, stateFile.policies, [i \in Issuers |-> None]) /\ stateFile # None
        /\ promoted' = promoted /\ stateFile' = stateFile /\ writing' = {} /\ bearer' = [q \in Tokens |-> None]
    BY <1>2 DEF Restart
  <2>2. StoresInv'
    BY <2>1, RebuildShape DEF PromotionInv, StoresInv
  <2>3. BearersInv'
    BY <2>1 DEF BearersInv
  <2> QED BY <2>2, <2>3 DEF PromotionInv
<1> QED BY <1>1, <1>2

(* A request finds the rule of its operation.                              *)
LEMMA StartStep ==
  ASSUME PromotionInv, NEW q \in Tokens, NEW o \in Operations, NEW k, RequestStarts(q, o, k)
  PROVE  PromotionInv'
<1> DEFINE b == [is |-> "request", at |-> "cache", rule |-> snapshot[o], key |-> k, set |-> NoKeys,
                 trusted |-> Form(snapshot[o].policy, issuers).trust, verified |-> FALSE]
<1>1. /\ snapshot[o] # None
      /\ Becomes(q, IF snapshot[o].verifier = None \/ k = <<>> THEN Decides(b, FALSE) ELSE b)
  BY DEF RequestStarts
<1>2. /\ policies[o] \in PolicyRec /\ snapshot[o].policy = policies[o]
      /\ policies[o].mode = "ENFORCE" => Form(policies[o], issuers) \in promoted
  BY <1>1 DEF PromotionInv, StoresInv, Sanctioned
<1>3. Form(policies[o], issuers).requires = policies[o].requires
  BY DEF Form
<1>4. /\ DOMAIN b = {"is", "at", "rule", "key", "set", "trusted", "verified"}
      /\ b.at = "cache" /\ b.rule = snapshot[o] /\ b.trusted = Form(policies[o], issuers).trust
  BY <1>2
<1> HIDE DEF b
<1>5. RuleKept(b) /\ b.at # "rejected"
  BY <1>2, <1>3, <1>4 DEF RuleKept
<1>6. RuleKept(Decides(b, FALSE))
  BY <1>5, RuleStays
<1> QED BY <1>1, <1>5, <1>6, BearerStep

(* The steps of a request that is there.                                   *)
LEMMA RequestSteps ==
  ASSUME PromotionInv, NEW q \in Tokens, bearer[q] # None,
         UseCache(q) \/ BeginFetch(q) \/ EndFetch(q) \/ ReuseOnMiss(q) \/ Judge(q) \/ Reply(q)
  PROVE  PromotionInv'
<1> DEFINE b == bearer[q]
<1>1. RuleKept(b)
  BY DEF PromotionInv, BearersInv
<1>2. CASE UseCache(q)
  BY <1>1, <1>2, RuleStays, BearerStep DEF UseCache
<1>3. CASE BeginFetch(q)
  BY <1>1, <1>3, RuleStays, BearerStep DEF BeginFetch
<1>4. CASE EndFetch(q)
  <2>1. b.at # "rejected"
    BY <1>4 DEF EndFetch
  <2>2. \/ \E s : Becomes(q, [b EXCEPT !.at = IF b.at = "fetch" THEN "select" ELSE "reselect", !.set = s])
        \/ Becomes(q, Decides(b, FALSE))
    BY <1>4 DEF EndFetch
  <2> QED BY <1>1, <2>1, <2>2, RuleStays, BearerStep
<1>5. CASE ReuseOnMiss(q)
  BY <1>1, <1>5, RuleStays, BearerStep DEF ReuseOnMiss
<1>6. CASE Judge(q)
  <2>1. b.at # "rejected"
    BY <1>6 DEF Judge
  <2>2. \/ \E good \in BOOLEAN : Becomes(q, Decides([b EXCEPT !.verified = good], good))
        \/ Becomes(q, [b EXCEPT !.at = "missing"])
        \/ Becomes(q, Decides(b, FALSE))
    BY <1>6 DEF Judge
  <2>3. \A good : RuleKept(Decides([b EXCEPT !.verified = good], good))
    BY <1>1, <2>1, RuleStays
  <2> QED BY <1>1, <2>1, <2>2, <2>3, RuleStays, BearerStep
<1>7. CASE Reply(q)
  BY <1>7, BearerStep DEF Reply
<1> QED BY <1>2, <1>3, <1>4, <1>5, <1>6, <1>7

(* Every step.                                                             *)
LEMMA PromotionStep == PromotionInv /\ [IdentityNext]_identityVars => PromotionInv'
<1> SUFFICES ASSUME PromotionInv, [IdentityNext]_identityVars PROVE PromotionInv'
  OBVIOUS
<1>1. ASSUME UNCHANGED <<policyVars, bearer, saveVars>> PROVE PromotionInv'
  BY <1>1 DEF PromotionInv, StoresInv, BearersInv, RuleKept, policyVars, saveVars
<1>2. CASE UNCHANGED identityVars
  BY <1>1, <1>2 DEF identityVars
<1>3. ASSUME NEW t \in Trusts, Rotate(t) PROVE PromotionInv'
  BY <1>1, <1>3 DEF Rotate
<1>4. ASSUME NEW i \in Issuers, RefreshIssuer(i) PROVE PromotionInv'
  BY <1>1, <1>4 DEF RefreshIssuer
<1>5. ASSUME NEW v \in Verifiers, CacheExpires(v) \/ WindowEnds(v) PROVE PromotionInv'
  BY <1>1, <1>5 DEF CacheExpires, WindowEnds
<1> QED BY <1>2, <1>3, <1>4, <1>5, StoreSteps, SaveSteps, StartStep, RequestSteps DEF IdentityNext

(* Every store and every request has only what was promoted.               *)
THEOREM PromotionsKept == IdentitySpec => []PromotionInv
  BY PromotionStart, PromotionStep, PTL DEF IdentitySpec

(* A policy that enforces, and one that has rejected a request, was put    *)
(* into ENFORCE with these requirements and this trust (setPolicyMode,     *)
(* upsertPolicy, upsertIssuer, load, wrap).                                *)
THEOREM OnlyPromotedEnforced == IdentitySpec => []EnforceIsPromoted
<1>1. PromotionInv => EnforceIsPromoted
  BY DEF PromotionInv, StoresInv, BearersInv, RuleKept, Sanctioned, EnforceIsPromoted
<1> QED BY <1>1, PromotionsKept, PTL

-----------------------------------------------------------------------------
(* A verifier is not missing.                                              *)
LEMMA VerifierPresent == \A x \in VerifierRec : x # None
<1>1. None.is = "none" /\ "none" # "verifier"
  BY DEF None
<1>2. \A x \in VerifierRec : x.is = "verifier"
  BY DEF VerifierRec
<1> QED BY <1>1, <1>2

(* The verifiers after a rebuild: kept with their trust, or born now.      *)
LEMMA RebuiltRuntimes ==
  ASSUME IdentityAssumption, edits \in Nat, Edit,
         NEW iss, NEW pol, NEW old, Rebuild(iss, pol, old), Sanctioned(iss, pol, promoted'),
         NEW i \in Issuers, runtimes'[i] # None
  PROVE  /\ iss[i] # None /\ runtimes'[i].trust = iss[i].trust
         /\ \/ runtimes'[i] = old[i]
            \/ /\ runtimes'[i] \in VerifierRec /\ runtimes'[i].id = <<i, edits + 1>>
               /\ <<i, edits + 1>> \in Verifiers
<1> DEFINE fresh == [is |-> "verifier", trust |-> iss[i].trust, id |-> <<i, edits'>>]
<1>1. runtimes'[i] = IF iss[i] = None \/ ~iss[i].enabled THEN None
                     ELSE IF old[i] # None /\ SameTrust(old[i], iss[i]) THEN old[i] ELSE fresh
  BY DEF Rebuild
<1>2. iss[i] # None /\ iss[i] \in IssuerRec
  BY <1>1 DEF Sanctioned
<1>3. edits' = edits + 1 /\ <<i, edits + 1>> \in Verifiers
  BY DEF Edit, IdentityAssumption, Verifiers
<1>4. fresh \in VerifierRec /\ fresh.trust = iss[i].trust /\ fresh.id = <<i, edits + 1>>
  BY <1>2, <1>3 DEF VerifierRec, IssuerRec
<1> HIDE DEF fresh
<1> QED BY <1>1, <1>2, <1>3, <1>4 DEF SameTrust

(* An edit, or a restart, which also forgets requests and keys.            *)
LEMMA EditKeys ==
  ASSUME PromotionInv, KeysInv, IdentityAssumption, Edit,
         NEW iss, NEW pol, NEW old, Rebuild(iss, pol, old), Sanctioned(iss, pol, promoted'),
         \A i \in Issuers : old[i] \in {None, runtimes[i]},
         \A q \in Tokens : bearer'[q] \in {None, bearer[q]},
         cache' = cache \/ cache' = [v \in Verifiers |-> NoKeys]
  PROVE  KeysInv'
<1>1. /\ edits \in Nat /\ edits' = edits + 1
      /\ issuers' = iss /\ policies' = pol
  BY DEF KeysInv, CacheInv, Edit, Rebuild
<1>2. ASSUME NEW i \in Issuers, runtimes'[i] # None
      PROVE  /\ iss[i] # None /\ runtimes'[i].trust = iss[i].trust
             /\ \/ runtimes'[i] = runtimes[i] /\ runtimes[i] \in InUse
                \/ /\ runtimes'[i] \in VerifierRec /\ runtimes'[i].id = <<i, edits + 1>>
                   /\ <<i, edits + 1>> \in Verifiers
  <2>1. /\ iss[i] # None /\ runtimes'[i].trust = iss[i].trust
        /\ \/ runtimes'[i] = old[i]
           \/ /\ runtimes'[i] \in VerifierRec /\ runtimes'[i].id = <<i, edits + 1>>
              /\ <<i, edits + 1>> \in Verifiers
    BY <1>1, <1>2, RebuiltRuntimes
  <2>2. runtimes'[i] = old[i] => runtimes'[i] = runtimes[i] /\ runtimes[i] \in InUse
    BY <1>2 DEF InUse
  <2> QED BY <2>1, <2>2
<1>3. ASSUME NEW x \in InUse'
      PROVE  \/ x \in InUse
             \/ \E i \in Issuers : /\ x = runtimes'[i] /\ x \in VerifierRec /\ x.id = <<i, edits + 1>>
                                   /\ <<i, edits + 1>> \in Verifiers
  <2>1. CASE \E i \in Issuers : runtimes'[i] # None /\ x = runtimes'[i]
    BY <1>2, <2>1
  <2>2. CASE \E q \in Tokens : bearer'[q] # None /\ bearer'[q].rule.verifier # None /\ x = bearer'[q].rule.verifier
    BY <2>2 DEF InUse
  <2> QED BY <2>1, <2>2 DEF InUse
<1>4. /\ DOMAIN cache' = Verifiers
      /\ \A v \in Verifiers : "keys" \in DOMAIN cache'[v] /\ cache'[v].keys \subseteq cache[v].keys
  BY DEF KeysInv, CacheInv, NoKeys
<1>5. \A v \in Verifiers : v[2] > edits => cache'[v].keys = {}
  BY <1>4 DEF KeysInv, CacheInv
<1>6. \A v \in Verifiers : v[2] \in Nat
  BY DEF Verifiers
<1>7. ASSUME NEW x \in InUse'
      PROVE  x \in VerifierRec /\ x.id[2] <= edits + 1 /\ \A k \in cache'[x.id].keys : k[1] = x.trust
  <2>1. CASE x \in InUse
    <3>1. x \in VerifierRec /\ x.id \in Verifiers /\ x.id[2] <= edits /\ \A k \in cache[x.id].keys : k[1] = x.trust
      BY <2>1 DEF KeysInv, CacheInv, VerifierRec
    <3> QED BY <1>1, <1>4, <1>6, <3>1
  <2>2. CASE \E i \in Issuers : x \in VerifierRec /\ x.id = <<i, edits + 1>> /\ <<i, edits + 1>> \in Verifiers
    <3>1. x.id \in Verifiers /\ x.id[2] = edits + 1
      BY <2>2
    <3> QED BY <1>1, <1>5, <2>2, <3>1
  <2> QED BY <1>3, <2>1, <2>2
<1>8. ASSUME NEW x \in InUse', NEW y \in InUse', x.id = y.id PROVE x.trust = y.trust
  <2>1. \A z \in InUse : z.id[2] <= edits /\ z.id[2] \in Nat
    BY <1>6 DEF KeysInv, CacheInv, VerifierRec
  <2>2. CASE x \in InUse /\ y \in InUse
    BY <1>8, <2>2 DEF KeysInv, CacheInv
  <2>3. CASE x \notin InUse \/ y \notin InUse
    <3>1. ASSUME NEW z \in InUse', z \notin InUse
          PROVE  z.id[2] = edits + 1 /\ z = runtimes'[z.id[1]]
      <4>1. PICK i \in Issuers : z = runtimes'[i] /\ z.id = <<i, edits + 1>>
        BY <1>3, <3>1
      <4>2. z.id[1] = i /\ z.id[2] = edits + 1
        BY <4>1
      <4> QED BY <4>1, <4>2
    <3>2. x \notin InUse /\ y \notin InUse
      BY <1>1, <1>8, <2>1, <2>3, <3>1
    <3> QED BY <1>8, <3>1, <3>2
  <2> QED BY <2>2, <2>3
<1>9. CacheInv'
  BY <1>1, <1>4, <1>5, <1>6, <1>7, <1>8 DEF CacheInv
<1>10. RuntimesInv'
  <2>1. ASSUME NEW o \in Operations, snapshot'[o] # None PROVE snapshot'[o].verifier = runtimes'[pol[o].issuer]
    <3>1. pol[o] # None /\ pol[o].issuer \in Issuers
      BY <2>1, RebuildShape DEF Sanctioned, PolicyRec
    <3> QED BY <2>1, <3>1 DEF Rebuild
  <2>2. DOMAIN runtimes' = Issuers
    BY DEF Rebuild
  <2> QED BY <1>1, <1>2, <2>1, <2>2 DEF RuntimesInv
<1>11. \A q \in Tokens : bearer'[q] # None => KeysKept(bearer'[q])
  BY DEF KeysInv
<1> QED BY <1>9, <1>10, <1>11 DEF KeysInv, KeysKept

(* The start.                                                              *)
LEMMA KeysStart == IdentityInit /\ IdentityAssumption => KeysInv
<1> SUFFICES ASSUME IdentityInit PROVE KeysInv
  OBVIOUS
<1>1. (\A i \in Issuers : runtimes[i] = None) /\ (\A q \in Tokens : bearer[q] = None)
  BY DEF IdentityInit
<1>2. InUse = {}
  BY <1>1 DEF InUse
<1>3. DOMAIN cache = Verifiers /\ \A v \in Verifiers : "keys" \in DOMAIN cache[v] /\ cache[v].keys = {}
  BY DEF IdentityInit, NoKeys
<1> QED BY <1>1, <1>2, <1>3 DEF IdentityInit, KeysInv, CacheInv, RuntimesInv

(* A step of a request, and of what it fetches.                            *)
LEMMA BearerKeys ==
  ASSUME PromotionInv, KeysInv, NEW q \in Tokens, NEW b, Becomes(q, b),
         b # None => KeysKept(b) /\ (b.rule.verifier # None => b.rule.verifier \in InUse),
         DOMAIN cache' = Verifiers,
         \A v \in Verifiers : "keys" \in DOMAIN cache'[v],
         \A v \in Verifiers : cache'[v].keys # {} =>
           \/ cache'[v].keys = cache[v].keys
           \/ \E x \in InUse : x.id = v /\ \A k \in cache'[v].keys : k[1] = x.trust
  PROVE  KeysInv'
<1>1. /\ UNCHANGED <<issuers, policies, runtimes, snapshot, edits>>
      /\ \A p \in Tokens : bearer'[p] = IF p = q THEN b ELSE bearer[p]
  BY DEF Becomes, policyVars, PromotionInv, BearersInv
<1>2. InUse' \subseteq InUse
  BY <1>1 DEF InUse
<1>3. \A x \in InUse : x \in VerifierRec /\ x.id \in Verifiers /\ x.id[2] <= edits /\ x.id[2] \in Nat
  BY DEF KeysInv, CacheInv, VerifierRec, Verifiers
<1>4. ASSUME NEW v \in Verifiers, v[2] > edits PROVE cache'[v].keys = {}
  <2>1. edits \in Nat /\ cache[v].keys = {}
    BY <1>4 DEF KeysInv, CacheInv
  <2> QED BY <1>3, <1>4, <2>1
<1>5. ASSUME NEW x \in InUse, NEW k \in cache'[x.id].keys PROVE k[1] = x.trust
  <2>1. \A y \in InUse : y.id = x.id => y.trust = x.trust
    BY DEF KeysInv, CacheInv
  <2>2. \A l \in cache[x.id].keys : l[1] = x.trust
    BY DEF KeysInv, CacheInv
  <2> QED BY <1>3, <1>5, <2>1, <2>2
<1>6. CacheInv'
  BY <1>1, <1>2, <1>3, <1>4, <1>5 DEF KeysInv, CacheInv
<1>7. RuntimesInv'
  BY <1>1 DEF KeysInv, RuntimesInv
<1>8. \A p \in Tokens : bearer'[p] # None => KeysKept(bearer'[p])
  BY <1>1 DEF KeysInv
<1> QED BY <1>6, <1>7, <1>8 DEF KeysInv, KeysKept

(* What a request does with its keys.                                      *)
LEMMA KeysStay ==
  ASSUME NEW b, RuleKept(b), KeysKept(b)
  PROVE  /\ \A x : b.rule.verifier # None \/ x \in {"forwarded", "rejected"} =>
              KeysKept([b EXCEPT !.at = x]) /\ [b EXCEPT !.at = x].rule = b.rule
         /\ \A x : (x => b.key[1] = b.trusted) =>
              KeysKept([b EXCEPT !.verified = x]) /\ [b EXCEPT !.verified = x].rule = b.rule
         /\ \A x : KeysKept(Decides(b, x)) /\ Decides(b, x).rule = b.rule
<1>1. ASSUME NEW x, b.rule.verifier # None \/ x \in {"forwarded", "rejected"}
      PROVE  KeysKept([b EXCEPT !.at = x]) /\ [b EXCEPT !.at = x].rule = b.rule
  BY <1>1 DEF RuleKept, KeysKept
<1>2. ASSUME NEW x, x => b.key[1] = b.trusted
      PROVE  KeysKept([b EXCEPT !.verified = x]) /\ [b EXCEPT !.verified = x].rule = b.rule
  BY <1>2 DEF RuleKept, KeysKept
<1>3. ASSUME NEW x PROVE KeysKept(Decides(b, x)) /\ Decides(b, x).rule = b.rule
  BY <1>1 DEF Decides, Outcome
<1> QED BY <1>1, <1>2, <1>3

(* A request takes a set of keys.                                          *)
LEMMA SetTaken ==
  ASSUME NEW b, NEW x, NEW s, RuleKept(b), KeysKept(b), b.rule.verifier # None,
         \A k \in s.keys : k[1] = b.trusted
  PROVE  KeysKept([b EXCEPT !.at = x, !.set = s]) /\ [b EXCEPT !.at = x, !.set = s].rule = b.rule
  BY DEF RuleKept, KeysKept

(* The steps of a request that is there.                                   *)
LEMMA RequestKeys ==
  ASSUME PromotionInv, KeysInv, NEW q \in Tokens, bearer[q] # None,
         UseCache(q) \/ BeginFetch(q) \/ EndFetch(q) \/ ReuseOnMiss(q) \/ Judge(q) \/ Reply(q)
  PROVE  KeysInv'
<1> DEFINE b == bearer[q]
           x == bearer[q].rule.verifier
           v == Verifier(q)
<1>1. /\ RuleKept(b) /\ KeysKept(b)
      /\ x # None => x \in InUse /\ x.id = v /\ v \in Verifiers /\ x.trust = b.trusted
                     /\ \A k \in cache[v].keys : k[1] = b.trusted
  BY DEF PromotionInv, BearersInv, KeysInv, CacheInv, KeysKept, InUse, Verifier, VerifierRec
<1>0. x = b.rule.verifier
  OBVIOUS
<1>2. b.at \notin {"forwarded", "rejected"} => x # None
  BY <1>0, <1>1 DEF KeysKept
<1>3. DOMAIN cache = Verifiers /\ \A w \in Verifiers : "keys" \in DOMAIN cache[w]
  BY DEF KeysInv, CacheInv
<1> HIDE DEF b, x, v
<1> DEFINE Same(c) == KeysKept(c) /\ c.rule = b.rule
<1>4. ASSUME NEW c, Same(c), Becomes(q, c), cache' = cache PROVE KeysInv'
  BY <1>0, <1>1, <1>3, <1>4, BearerKeys
<1>5. CASE UseCache(q)
  <2>1. /\ x # None /\ cache' = cache
        /\ Becomes(q, [b EXCEPT !.at = "select", !.set = cache[v]])
    BY <1>2, <1>5 DEF UseCache, keyVars, b, v, x, Verifier
  <2>2. Same([b EXCEPT !.at = "select", !.set = cache[v]])
    <3>1. PICK t : t = cache[v]
      OBVIOUS
    <3>2. b.rule.verifier # None /\ \A k \in t.keys : k[1] = b.trusted
      BY <1>0, <1>1, <2>1, <3>1
    <3>3. /\ KeysKept([b EXCEPT !.at = "select", !.set = t])
          /\ [b EXCEPT !.at = "select", !.set = t].rule = b.rule
      <4> HIDE DEF Same
      <4> QED BY <1>1, <3>2, SetTaken
    <3> QED BY <3>1, <3>3
  <2> QED BY <1>4, <2>1, <2>2
<1>6. CASE BeginFetch(q)
  <2>1. /\ x # None /\ cache' = cache
        /\ Becomes(q, [b EXCEPT !.at = IF b.at = "cache" THEN "fetch" ELSE "refetch"])
    BY <1>2, <1>6 DEF BeginFetch, b, v, x, Verifier
  <2>2. Same([b EXCEPT !.at = IF b.at = "cache" THEN "fetch" ELSE "refetch"])
    BY <1>0, <1>1, <2>1, KeysStay
  <2> QED BY <1>4, <2>1, <2>2
<1>7. CASE EndFetch(q)
  <2> DEFINE got == [keys |-> {KeyOf(x.trust)}, fresh |-> TRUE, version |-> fetches,
                     missed |-> cache[v].missed \/ b.at = "refetch"]
             later == IF b.at = "fetch" THEN "select" ELSE "reselect"
             c == [b EXCEPT !.at = later, !.set = got]
  <2>1. /\ x # None
        /\ \/ cache' = [cache EXCEPT ![v] = got] /\ Becomes(q, c)
           \/ cache' = cache /\ Becomes(q, Decides(b, FALSE))
    BY <1>2, <1>7 DEF EndFetch, b, v, x, Verifier
  <2>2. "keys" \in DOMAIN got /\ got.keys = {<<x.trust, published[x.trust]>>}
    BY DEF KeyOf
  <2> HIDE DEF got, later
  <2>3. \A k \in got.keys : k[1] = x.trust
    BY <2>2
  <2>4. Same(c)
    <3>1. b.rule.verifier # None /\ \A k \in got.keys : k[1] = b.trusted
      BY <1>0, <1>1, <2>1, <2>3
    <3> QED BY <1>1, <3>1, SetTaken
  <2>5. Same(Decides(b, FALSE))
    BY <1>1, KeysStay
  <2> HIDE DEF c
  <2>6. CASE cache' = [cache EXCEPT ![v] = got] /\ Becomes(q, c)
    <3>1. /\ DOMAIN cache' = Verifiers
          /\ \A w \in Verifiers : cache'[w] = IF w = v THEN got ELSE cache[w]
      BY <1>3, <2>6
    <3>2. /\ \A w \in Verifiers : "keys" \in DOMAIN cache'[w]
          /\ \A w \in Verifiers : cache'[w].keys # {} =>
               \/ cache'[w].keys = cache[w].keys
               \/ \E y \in InUse : y.id = w /\ \A k \in cache'[w].keys : k[1] = y.trust
      BY <1>1, <1>3, <2>1, <2>2, <2>3, <3>1
    <3> QED BY <1>0, <1>1, <2>4, <2>6, <3>1, <3>2, BearerKeys
  <2>7. CASE cache' = cache /\ Becomes(q, Decides(b, FALSE))
    BY <1>4, <2>5, <2>7
  <2> QED BY <2>1, <2>6, <2>7
<1>8. CASE ReuseOnMiss(q)
  <2>1. /\ x # None /\ cache' = cache
        /\ Becomes(q, [b EXCEPT !.at = "reselect", !.set = cache[v]])
    BY <1>2, <1>8 DEF ReuseOnMiss, keyVars, b, v, x, Verifier
  <2>2. Same([b EXCEPT !.at = "reselect", !.set = cache[v]])
    <3>1. PICK t : t = cache[v]
      OBVIOUS
    <3>2. b.rule.verifier # None /\ \A k \in t.keys : k[1] = b.trusted
      BY <1>0, <1>1, <2>1, <3>1
    <3>3. /\ KeysKept([b EXCEPT !.at = "reselect", !.set = t])
          /\ [b EXCEPT !.at = "reselect", !.set = t].rule = b.rule
      <4> HIDE DEF Same
      <4> QED BY <1>1, <3>2, SetTaken
    <3> QED BY <3>1, <3>3
  <2> QED BY <1>4, <2>1, <2>2
<1>9. CASE Judge(q)
  <2>1. b.at # "rejected" /\ x # None /\ cache' = cache
    BY <1>2, <1>9 DEF Judge, keyVars, b, v, x, Verifier
  <2>2. CASE Selects(b.set, b.key)
    <3>1. PICK good \in BOOLEAN : Becomes(q, Decides([b EXCEPT !.verified = good], good))
      BY <1>9, <2>2 DEF Judge, b
    <3>2. b.key[1] = b.trusted
      BY <1>1, <2>2 DEF Selects, KeysKept
    <3>3. Same([b EXCEPT !.verified = good]) /\ RuleKept([b EXCEPT !.verified = good])
      BY <1>1, <2>1, <3>2, KeysStay, RuleStays
    <3>4. Same(Decides([b EXCEPT !.verified = good], good))
      BY <3>3, KeysStay
    <3> QED BY <1>4, <2>1, <3>1, <3>4
  <2>3. CASE ~Selects(b.set, b.key)
    <3>1. Becomes(q, [b EXCEPT !.at = "missing"]) \/ Becomes(q, Decides(b, FALSE))
      BY <1>9, <2>3 DEF Judge, b
    <3>2. Same([b EXCEPT !.at = "missing"]) /\ Same(Decides(b, FALSE))
      BY <1>0, <1>1, <2>1, KeysStay
    <3> QED BY <1>4, <2>1, <3>1, <3>2
  <2> QED BY <2>2, <2>3
<1>10. CASE Reply(q)
  <2>1. Becomes(q, None) /\ cache' = cache
    BY <1>10 DEF Reply, keyVars
  <2> QED BY <1>3, <2>1, BearerKeys
<1> QED BY <1>5, <1>6, <1>7, <1>8, <1>9, <1>10

(* A request gets the verifier of its rule.                                *)
LEMMA StartKeys ==
  ASSUME PromotionInv, KeysInv, NEW q \in Tokens, NEW o \in Operations, NEW k, RequestStarts(q, o, k)
  PROVE  KeysInv'
<1> DEFINE b == [is |-> "request", at |-> "cache", rule |-> snapshot[o], key |-> k, set |-> NoKeys,
                 trusted |-> Form(snapshot[o].policy, issuers).trust, verified |-> FALSE]
           i == policies[o].issuer
<1>1. /\ snapshot[o] # None /\ cache' = cache
      /\ Becomes(q, IF snapshot[o].verifier = None \/ k = <<>> THEN Decides(b, FALSE) ELSE b)
  BY DEF RequestStarts, keyVars
<1>2. /\ policies[o] \in PolicyRec /\ i \in Issuers /\ snapshot[o].policy = policies[o]
      /\ issuers[i] # None /\ snapshot[o].verifier = runtimes[i]
      /\ runtimes[i] # None => runtimes[i].trust = issuers[i].trust /\ runtimes[i] \in InUse
      /\ policies[o].mode = "ENFORCE" => Form(policies[o], issuers) \in promoted
  BY <1>1 DEF PromotionInv, StoresInv, Sanctioned, KeysInv, RuntimesInv, PolicyRec, InUse
<1>3. Form(policies[o], issuers).requires = policies[o].requires /\ Form(policies[o], issuers).trust = issuers[i].trust
  BY <1>2 DEF Form
<1>4. /\ DOMAIN b = {"is", "at", "rule", "key", "set", "trusted", "verified"}
      /\ b.at = "cache" /\ b.rule = snapshot[o] /\ b.trusted = issuers[i].trust
      /\ b.set.keys = {} /\ b.verified = FALSE
  BY <1>2, <1>3 DEF NoKeys
<1> HIDE DEF b
<1>5. RuleKept(b) /\ b.at # "rejected"
  BY <1>2, <1>3, <1>4 DEF RuleKept
<1>6. /\ KeysKept(Decides(b, FALSE)) /\ Decides(b, FALSE).rule = b.rule
      /\ snapshot[o].verifier # None => KeysKept(b)
  <2>1. /\ b.rule.verifier # None => b.rule.verifier.trust = b.trusted
        /\ \A l \in b.set.keys : l[1] = b.trusted
    BY <1>2, <1>4
  <2>2. \A x \in {"forwarded", "rejected"} : KeysKept([b EXCEPT !.at = x]) /\ [b EXCEPT !.at = x].rule = b.rule
    BY <1>4, <1>5, <2>1 DEF RuleKept, KeysKept
  <2>3. KeysKept(Decides(b, FALSE)) /\ Decides(b, FALSE).rule = b.rule
    BY <2>2 DEF Decides, Outcome
  <2>4. snapshot[o].verifier # None => KeysKept(b)
    BY <1>4, <2>1 DEF KeysKept
  <2> QED BY <2>3, <2>4
<1>7. DOMAIN cache' = Verifiers /\ \A w \in Verifiers : "keys" \in DOMAIN cache'[w]
  BY <1>1 DEF KeysInv, CacheInv
<1>8. CASE snapshot[o].verifier = None \/ k = <<>>
  BY <1>1, <1>2, <1>4, <1>6, <1>7, <1>8, BearerKeys
<1>9. CASE ~(snapshot[o].verifier = None \/ k = <<>>)
  BY <1>1, <1>2, <1>4, <1>6, <1>7, <1>9, BearerKeys
<1> QED BY <1>8, <1>9

(* The operator has keys fetched; keys and windows expire.                 *)
LEMMA CacheSteps ==
  ASSUME PromotionInv, KeysInv, UNCHANGED <<policyVars, bearer, edits>>,
         DOMAIN cache' = Verifiers,
         \A w \in Verifiers : "keys" \in DOMAIN cache'[w],
         \A w \in Verifiers :
           \/ cache'[w].keys = cache[w].keys
           \/ \E x \in InUse : x.id = w /\ \A k \in cache'[w].keys : k[1] = x.trust
  PROVE  KeysInv'
<1>1. InUse' = InUse
  BY DEF InUse, policyVars
<1>2. \A x \in InUse : x \in VerifierRec /\ x.id \in Verifiers /\ x.id[2] <= edits /\ x.id[2] \in Nat /\ edits \in Nat
  BY DEF KeysInv, CacheInv, VerifierRec, Verifiers
<1>3. \A w \in Verifiers : w[2] > edits => cache'[w].keys = {}
  BY <1>2 DEF KeysInv, CacheInv
<1>4. ASSUME NEW x \in InUse, NEW k \in cache'[x.id].keys PROVE k[1] = x.trust
  <2>1. \A y \in InUse : y.id = x.id => y.trust = x.trust
    BY DEF KeysInv, CacheInv
  <2>2. \A l \in cache[x.id].keys : l[1] = x.trust
    BY DEF KeysInv, CacheInv
  <2> QED BY <1>2, <1>4, <2>1, <2>2
<1>5. CacheInv'
  BY <1>1, <1>2, <1>3, <1>4 DEF KeysInv, CacheInv
<1> QED BY <1>5 DEF KeysInv, RuntimesInv, KeysKept, policyVars

(* Every step.                                                             *)
LEMMA KeysStep ==
  ASSUME IdentityAssumption, PromotionInv, KeysInv, [IdentityNext]_identityVars
  PROVE  KeysInv'
<1>0. /\ DOMAIN cache = Verifiers /\ \A w \in Verifiers : "keys" \in DOMAIN cache[w]
      /\ \A i \in Issuers : runtimes[i] # None => runtimes[i] \in InUse /\ runtimes[i].id \in Verifiers
  BY DEF KeysInv, CacheInv, InUse, VerifierRec
<1>1. PromotionInv'
  BY PromotionStep
<1>2. ASSUME NEW iss, NEW pol, NEW old, Rebuild(iss, pol, old), Edit, UNCHANGED <<keyVars, bearer>>,
             \A i \in Issuers : old[i] \in {None, runtimes[i]}
      PROVE  KeysInv'
  <2>1. Sanctioned(iss, pol, promoted')
    BY <1>1, <1>2 DEF Rebuild, PromotionInv, StoresInv
  <2> QED BY <1>2, <2>1, EditKeys DEF keyVars
<1>3. ASSUME NEW i \in Issuers, NEW t \in Trusts, NEW on \in BOOLEAN, UpsertIssuer(i, t, on) PROVE KeysInv'
  <2> DEFINE new == [is |-> "issuer", trust |-> t, enabled |-> on]
             changed == issuers[i] # None /\ ~SameTrust(issuers[i], new)
             iss == [issuers EXCEPT ![i] = new]
             pol == [o \in Operations |->
                       IF changed /\ policies[o] # None /\ policies[o].issuer = i
                         THEN [policies[o] EXCEPT !.mode = "DETECT"] ELSE policies[o]]
             old == [runtimes EXCEPT ![i] = IF changed THEN None ELSE @]
  <2>1. Rebuild(iss, pol, old) /\ Edit /\ UNCHANGED <<keyVars, bearer>>
    BY <1>3 DEF UpsertIssuer
  <2>2. \A k \in Issuers : old[k] \in {None, runtimes[k]}
    BY DEF KeysInv, RuntimesInv
  <2> HIDE DEF iss, pol, old
  <2> QED BY <1>2, <2>1, <2>2
<1>4. ASSUME NEW o \in Operations, NEW i \in Issuers, NEW r \in Requirements, UpsertPolicy(o, i, r) PROVE KeysInv'
  <2>1. PICK pol : Rebuild(issuers, pol, runtimes) /\ Edit /\ UNCHANGED <<keyVars, bearer>>
    BY <1>4 DEF UpsertPolicy
  <2> QED BY <1>2, <2>1
<1>5. ASSUME NEW o \in Operations, NEW m \in {"DETECT", "ENFORCE"}, SetPolicyMode(o, m) PROVE KeysInv'
  BY <1>2, <1>5 DEF SetPolicyMode
<1>6. ASSUME NEW o \in Operations, DeletePolicy(o) PROVE KeysInv'
  BY <1>2, <1>6 DEF DeletePolicy
<1>7. CASE Restart
  <2>1. /\ Rebuild(stateFile.issuers, stateFile.policies, [i \in Issuers |-> None]) /\ Edit
        /\ cache' = [v \in Verifiers |-> NoKeys] /\ bearer' = [q \in Tokens |-> None]
    BY <1>7 DEF Restart
  <2>2. Sanctioned(stateFile.issuers, stateFile.policies, promoted')
    BY <1>1, <2>1 DEF Rebuild, PromotionInv, StoresInv
  <2>3. (\A i \in Issuers : [j \in Issuers |-> None][i] \in {None, runtimes[i]}) /\ \A q \in Tokens : bearer'[q] \in {None, bearer[q]}
    BY <2>1
  <2> QED BY <2>1, <2>2, <2>3, EditKeys
<1>8. ASSUME UNCHANGED <<policyVars, cache, bearer, edits>> PROVE KeysInv'
  BY <1>0, <1>8, CacheSteps
<1>9. CASE SaveState \/ SaveWritten
  BY <1>8, <1>9 DEF SaveState, SaveWritten, keyVars
<1>10. ASSUME NEW t \in Trusts, Rotate(t) PROVE KeysInv'
  BY <1>8, <1>10 DEF Rotate, keyVars
<1>11. CASE UNCHANGED identityVars
  BY <1>8, <1>11 DEF identityVars, keyVars
<1>12. ASSUME NEW i \in Issuers, RefreshIssuer(i) PROVE KeysInv'
  <2> DEFINE x == runtimes[i]
             got == [cache[x.id] EXCEPT !.keys = {KeyOf(x.trust)}, !.fresh = TRUE, !.version = fetches']
  <2>1. x # None /\ cache' = [cache EXCEPT ![x.id] = got] /\ UNCHANGED <<policyVars, bearer, edits>>
    BY <1>12 DEF RefreshIssuer
  <2>2. "keys" \in DOMAIN got /\ got.keys = {<<x.trust, published[x.trust]>>}
    BY <1>0, <2>1 DEF KeyOf
  <2> HIDE DEF got
  <2>3. \A w \in Verifiers : cache'[w] = IF w = x.id THEN got ELSE cache[w]
    BY <1>0, <2>1
  <2>4. DOMAIN cache' = Verifiers /\ \A k \in got.keys : k[1] = x.trust
    BY <1>0, <2>1, <2>2
  <2> QED BY <1>0, <2>1, <2>2, <2>3, <2>4, CacheSteps
<1>13. ASSUME NEW v \in Verifiers, CacheExpires(v) \/ WindowEnds(v) PROVE KeysInv'
  <2>1. /\ UNCHANGED <<policyVars, bearer, edits>>
        /\ cache' = [cache EXCEPT ![v].fresh = FALSE] \/ cache' = [cache EXCEPT ![v].missed = FALSE]
    BY <1>13 DEF CacheExpires, WindowEnds
  <2>2. DOMAIN cache' = Verifiers /\ \A w \in Verifiers : "keys" \in DOMAIN cache'[w] /\ cache'[w].keys = cache[w].keys
    BY <1>0, <2>1
  <2> QED BY <2>1, <2>2, CacheSteps
<1> QED BY <1>3, <1>4, <1>5, <1>6, <1>7, <1>9, <1>10, <1>11, <1>12, <1>13, StartKeys, RequestKeys DEF IdentityNext

(* A token is accepted only on a key of the trust that its policy named    *)
(* when the request came (verify, refresh, refreshForKeyMiss,              *)
(* upsertIssuer).                                                          *)
THEOREM OnlyTrustedVerify == IdentitySpec => []VerifiedByTrusted
<1>1. IdentityInit => PromotionInv /\ KeysInv
  BY PromotionStart, KeysStart, IdentityAssumption
<1>2. PromotionInv /\ KeysInv /\ [IdentityNext]_identityVars => (PromotionInv /\ KeysInv)'
  BY PromotionStep, KeysStep, IdentityAssumption
<1>3. PromotionInv /\ KeysInv => VerifiedByTrusted
  BY DEF KeysInv, KeysKept, VerifiedByTrusted
<1> QED BY <1>1, <1>2, <1>3, PTL DEF IdentitySpec
=============================================================================
