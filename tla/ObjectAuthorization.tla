------------------------ MODULE ObjectAuthorization ------------------------
(***************************************************************************)
(* Evidence of broken object authorization (object_locator_api71.go to     *)
(* bola_policy_api74.go).  Locators say which part of a request names an   *)
(* object; a worker records which verified identity touched which object   *)
(* and, before it does, whether that looks foreign; operators override     *)
(* locators, suppress candidates by policy and close them by review.       *)
(*                                                                         *)
(* One operation whose path has one dynamic segment: the segment is found  *)
(* by its position, or by the name a contract or an operator gives it.     *)
(* Fingerprints are the values they stand for.  Times are taken before the *)
(* queue, so the worker may meet them out of order.                        *)
(***************************************************************************)
EXTENDS Integers, FiniteSets, Functions, FiniteSetsExt

CONSTANTS Identities, Objects, TenantOf, NoTenant,
          MaxRelations, MaxPerIdentity, MaxPerObject, MaxEvidence, MaxReviews,
          LocatorTTL, RelationTTL, EvidenceTTL, ReviewTTL, PolicyTTL,
          MinBaseline, HighBaseline, EnumWindow, EnumMin,
          Scopes,                       \* policies an operator may write
          MaxAccesses, MaxActions, MaxNow     \* bounds

ASSUME ObjectsAssumption ==
  /\ TenantOf \in [Identities -> STRING]
  /\ {MaxRelations, MaxPerIdentity, MaxPerObject, MaxEvidence, MaxReviews} \subseteq Nat \ {0}
  /\ {RelationTTL, EvidenceTTL, ReviewTTL, LocatorTTL, PolicyTTL} \subseteq Nat \ {0}

Segments == {"positional", "named"}
DivergenceKinds == {"identity", "tenant", "enumeration"}
Closed == {"DISMISSED", "RESOLVED"}
NoWork == [who |-> "none"]

VARIABLES
  now, accesses, actions,
  locators,    \* [sources, expires] of the locators found so far
  overrides,   \* INCLUDE or SUPPRESS, by locator
  work,        \* the access in process, once its locator is resolved
  relations,   \* [count, last, expires] by <<identity, locator, object>>
  evidence,    \* [confidence, count, last, expires] by <<kind, identity, locator, object>>
  policies,    \* [action, enabled, updated, expires] by scope
  reviews,     \* [state, last, read, expires] by candidate
  reader       \* the review handler's copy of a candidate

objectVars == <<now, accesses, actions, locators, overrides, work, relations,
                evidence, policies, reviews, reader>>

NoneYet == <<>>
Minus(f, S) == Restrict(f, DOMAIN f \ S)
Put(f, x, v) == [y \in DOMAIN f \cup {x} |-> IF y = x THEN v ELSE f[y]]
Alive(f, t) == Restrict(f, {x \in DOMAIN f : f[x].expires > t})

ObjectsInit ==
  /\ now = 1 /\ accesses = 0 /\ actions = 0
  /\ locators = NoneYet /\ overrides = NoneYet /\ work = NoWork
  /\ relations = NoneYet /\ evidence = NoneYet /\ policies = NoneYet
  /\ reviews = NoneYet /\ reader = NoWork

-----------------------------------------------------------------------------
(* Locators.  What a contract or an operator declared is kept past its     *)
(* expiry.                                                                 *)
Declared == {"CONTRACT", "OPERATOR"}
LiveLocators(ls, t) ==
  Restrict(ls, {x \in DOMAIN ls : ls[x].expires > t \/ ls[x].sources \cap Declared # {}})

(* mergeLocked.                                                            *)
Merged(ls, x, source, t) ==
  LET old == IF x \in DOMAIN ls THEN ls[x].sources ELSE {}
  IN Put(ls, x, [sources |-> old \cup {source}, expires |-> t + LocatorTTL])

(* removeOperatorSourceLocked.                                             *)
Undeclared(ls, x) ==
  IF x \notin DOMAIN ls THEN ls
  ELSE LET rest == ls[x].sources \ {"OPERATOR"}
       IN IF rest = {} THEN Minus(ls, {x}) ELSE [ls EXCEPT ![x] = [sources |-> rest, expires |-> ls[x].expires]]

Suppressed(x) == x \in DOMAIN overrides /\ overrides[x] = "SUPPRESS"
ActiveIn(ls) == {x \in DOMAIN ls : ~Suppressed(x)}

(* noteObservation: the segment's position, from its path or its type.     *)
NoteObservation ==
  /\ locators' = Merged(LiveLocators(locators, now), "positional", "OBSERVED", now)
  /\ UNCHANGED <<now, accesses, actions, overrides, work, relations, evidence,
                 policies, reviews, reader>>

(* refreshContractSources: a bound contract names the segment.             *)
RefreshContracts ==
  /\ locators' = Merged(locators, "named", "CONTRACT", now)
  /\ UNCHANGED <<now, accesses, actions, overrides, work, relations, evidence,
                 policies, reviews, reader>>

Acts == actions < MaxActions /\ actions' = actions + 1

(* upsertOverride: an INCLUDE that is replaced gives up its source.        *)
UpsertOverride(x, action) ==
  /\ Acts
  /\ overrides' = Put(overrides, x, action)
  /\ LET was == x \in DOMAIN overrides /\ overrides[x] = "INCLUDE"
     IN locators' = IF action = "INCLUDE" THEN Merged(locators, x, "OPERATOR", now)
                    ELSE IF was THEN Undeclared(locators, x) ELSE locators
  /\ UNCHANGED <<now, accesses, work, relations, evidence, policies, reviews, reader>>

DeleteOverride(x) ==
  /\ Acts /\ x \in DOMAIN overrides
  /\ overrides' = Minus(overrides, {x})
  /\ locators' = IF overrides[x] = "INCLUDE" THEN Undeclared(locators, x) ELSE locators
  /\ UNCHANGED <<now, accesses, work, relations, evidence, policies, reviews, reader>>

-----------------------------------------------------------------------------
(* The worker.  activePathLocator: by position, or by the one name.        *)
Resolved(ls) == IF "positional" \in ActiveIn(ls) THEN {"positional"} ELSE ActiveIn(ls)

Resolve(i, o, at) ==
  /\ work = NoWork /\ accesses < MaxAccesses /\ accesses' = accesses + 1
  /\ LET ls == LiveLocators(locators, now)
     IN /\ locators' = ls
        /\ IF Resolved(ls) = {} THEN work' = NoWork
           ELSE \E x \in Resolved(ls) : work' = [who |-> i, what |-> o, at |-> at, loc |-> x]
  /\ UNCHANGED <<now, actions, overrides, relations, evidence, policies, reviews, reader>>

(* bolaContext: the relationships of this object, and the objects this     *)
(* identity touched lately.                                                *)
Baseline(w) == LET rs == Alive(relations, w.at)
               IN Restrict(rs, {r \in DOMAIN rs : r[2] = w.loc /\ r[3] = w.what})
Observations(b) == MapThenSumSet(LAMBDA r : b[r].count, DOMAIN b)
Foreigners(w, b) == {r \in DOMAIN b : r[1] # w.who /\ b[r].count >= MinBaseline}
TenantsOf(b) == {TenantOf[r[1]] : r \in DOMAIN b} \ {NoTenant}
OtherTenants(w, b) == {r \in DOMAIN b : /\ TenantOf[r[1]] \notin {NoTenant, TenantOf[w.who]}
                                        /\ b[r].count >= MinBaseline}
Recent(w) == LET rs == Alive(relations, w.at)
             IN {r[3] : r \in {q \in DOMAIN rs : /\ q[1] = w.who /\ q[2] = w.loc
                                                 /\ rs[q].last > w.at - EnumWindow}}

(* observe: which kinds of divergence an access shows, and how surely.     *)
Grade(high) == IF high THEN "HIGH" ELSE "MEDIUM"

Divergence(w) ==
  LET b == Baseline(w)
      n == Observations(b)
      known == <<w.who, w.loc, w.what>> \in DOMAIN b
      identity == Foreigners(w, b) # {} /\ n >= MinBaseline
      tenant == TenantOf[w.who] # NoTenant /\ OtherTenants(w, b) # {} /\ n >= MinBaseline
      recent == Cardinality(Recent(w))
      found == (IF identity THEN {"identity"} ELSE {}) \cup (IF tenant THEN {"tenant"} ELSE {})
               \cup (IF recent >= EnumMin - 1 THEN {"enumeration"} ELSE {})
      surely == [identity |-> n >= HighBaseline /\ Cardinality(DOMAIN b) = 1,
                 tenant |-> n >= HighBaseline /\ Cardinality(TenantsOf(b)) = 1,
                 enumeration |-> recent >= 2 * EnumMin - 1]
  IN IF known THEN NoneYet ELSE [k \in found |-> Grade(surely[k])]

(* record: prune, find room, count.                                        *)
HasRoom(ev, w) ==
  /\ Cardinality(DOMAIN ev) < MaxEvidence
  /\ Cardinality({c \in DOMAIN ev : c[2] = w.who}) < MaxPerIdentity
  /\ Cardinality({c \in DOMAIN ev : c[3] = w.loc /\ c[4] = w.what}) < MaxPerObject

Record(ev, w, kind, confidence) ==
  LET live == Alive(ev, w.at)
      c == <<kind, w.who, w.loc, w.what>>
      count == IF c \in DOMAIN live THEN live[c].count ELSE 0
  IN IF c \in DOMAIN live \/ HasRoom(live, w)
     THEN Put(live, c, [confidence |-> confidence, count |-> count + 1, last |-> w.at,
                        expires |-> w.at + EvidenceTTL])
     ELSE live

Recorded(ev, w, found) ==
  LET step(e, k) == IF k \in DOMAIN found THEN Record(e, w, k, found[k]) ELSE e
  IN step(step(step(ev, "identity"), "tenant"), "enumeration")

(* mergeWithSource: the access joins the baseline, if there is room.       *)
Related(rs, w) ==
  LET live == Alive(rs, w.at)
      r == <<w.who, w.loc, w.what>>
      room == /\ Cardinality(DOMAIN live) < MaxRelations
              /\ Cardinality({q \in DOMAIN live : q[1] = w.who}) < MaxPerIdentity
              /\ Cardinality({q \in DOMAIN live : q[2] = w.loc /\ q[3] = w.what}) < MaxPerObject
      count == IF r \in DOMAIN live THEN live[r].count ELSE 0
  IN IF r \in DOMAIN live \/ room
     THEN Put(live, r, [count |-> count + 1, last |-> w.at, expires |-> w.at + RelationTTL])
     ELSE live

(* process, once the locator is known: judge, then learn.                  *)
Judge ==
  /\ work # NoWork
  /\ evidence' = Recorded(evidence, work, Divergence(work))
  /\ relations' = Related(relations, work)
  /\ work' = NoWork
  /\ UNCHANGED <<now, accesses, actions, locators, overrides, policies, reviews, reader>>

-----------------------------------------------------------------------------
(* Policies: the most specific that matches, then the newest.              *)
Specificity(s) == (IF s.loc = "any" THEN 0 ELSE 2) + (IF s.kind = "any" THEN 0 ELSE 1)
Rank(confidence) == IF confidence = "HIGH" THEN 2 ELSE 1
Matches(s, c) == /\ s.loc \in {"any", c[3]} /\ s.kind \in {"any", c[1]}
                 /\ Rank(evidence[c].confidence) >= Rank(s.min)
Above(s, t) == \/ Specificity(s) > Specificity(t)
               \/ Specificity(s) = Specificity(t) /\ policies[s].updated > policies[t].updated
Governing(c) ==
  LET ms == {s \in DOMAIN policies : /\ policies[s].enabled /\ policies[s].expires > now
                                      /\ Matches(s, c)}
  IN {s \in ms : ~\E t \in ms : Above(t, s)}
SuppressedByPolicy(c) == \E s \in Governing(c) : policies[s].action = "SUPPRESS"

UpsertPolicy(s, action, enabled) ==
  /\ Acts
  /\ policies' = Put(Alive(policies, now), s, [action |-> action, enabled |-> enabled, updated |-> now,
                                                expires |-> now + PolicyTTL])
  /\ UNCHANGED <<now, accesses, locators, overrides, work, relations, evidence, reviews, reader>>

DeletePolicy(s) ==
  /\ Acts /\ s \in DOMAIN policies /\ policies' = Minus(policies, {s})
  /\ UNCHANGED <<now, accesses, locators, overrides, work, relations, evidence, reviews, reader>>

-----------------------------------------------------------------------------
(* Reviews.  handleBOLAEvidenceWorkflow copies the candidate, reads the    *)
(* decision, and stores it with the copy's time of last evidence.          *)
ReadCandidate(c) ==
  /\ reader = NoWork
  /\ evidence' = Alive(evidence, now)
  /\ c \in DOMAIN evidence'
  /\ reader' = [who |-> c, last |-> evidence'[c].last]
  /\ UNCHANGED <<now, accesses, actions, locators, overrides, work, relations, policies, reviews>>

(* Mutated form: the review is stamped with the evidence of its own        *)
(* moment.                                                                 *)
StampOfNow == IF reader.who \in DOMAIN evidence THEN evidence[reader.who].last ELSE reader.last

Stamp == reader.last

ReviewCandidate(state) ==
  /\ Acts /\ reader # NoWork /\ reader' = NoWork
  /\ LET live == Alive(reviews, now)
     IN reviews' = IF reader.who \in DOMAIN live \/ Cardinality(DOMAIN live) < MaxReviews
                   THEN Put(live, reader.who, [state |-> state, last |-> Stamp, read |-> reader.last,
                                               expires |-> now + ReviewTTL])
                   ELSE live
  /\ UNCHANGED <<now, accesses, locators, overrides, work, relations, evidence, policies>>

(* evidenceSnapshot: evidence later than the review opens it again.        *)
Reopened(c) == reviews[c].state \in Closed /\ evidence[c].last > reviews[c].last
Hidden(c) == /\ c \in DOMAIN evidence /\ c \in DOMAIN reviews
             /\ reviews[c].state \in Closed /\ ~Reopened(c)

(* Viewing the queue prunes by the clock.                                  *)
View ==
  /\ evidence' = Alive(evidence, now) /\ relations' = Alive(relations, now)
  /\ reviews' = Alive(reviews, now) /\ policies' = Alive(policies, now)
  /\ UNCHANGED <<now, accesses, actions, locators, overrides, work, reader>>

-----------------------------------------------------------------------------
(* A restart after a clean stop: files keep what has not expired; the      *)
(* operator's INCLUDEs and the bound contract are merged again.            *)
Restart ==
  /\ Acts
  /\ work = NoWork /\ reader' = NoWork
  /\ LET ls == Alive(locators, now)
         included == {x \in DOMAIN overrides : overrides[x] = "INCLUDE"}
         bound == {x \in DOMAIN locators : "CONTRACT" \in locators[x].sources}
         merge(f, x, source) == IF x \in IF source = "CONTRACT" THEN bound ELSE included
                                THEN Merged(f, x, source, now) ELSE f
         again == merge(merge(ls, "positional", "OPERATOR"), "named", "OPERATOR")
     IN locators' = merge(again, "named", "CONTRACT")
  /\ evidence' = Alive(evidence, now) /\ relations' = Alive(relations, now)
  /\ reviews' = Alive(reviews, now) /\ policies' = Alive(policies, now)
  /\ UNCHANGED <<now, accesses, overrides, work>>

TimeGoesOn == /\ now < MaxNow /\ now' = now + 1
          /\ UNCHANGED <<accesses, actions, locators, overrides, work, relations, evidence,
                         policies, reviews, reader>>

ObjectsNext ==
  \/ NoteObservation \/ RefreshContracts \/ Judge \/ View \/ Restart \/ TimeGoesOn
  \/ \E i \in Identities, o \in Objects, at \in {now - 1, now} : Resolve(i, o, at)
  \/ \E x \in Segments :
       DeleteOverride(x) \/ \E a \in {"INCLUDE", "SUPPRESS"} : UpsertOverride(x, a)
  \/ \E s \in Scopes :
       DeletePolicy(s) \/ \E a \in {"REVIEW", "SUPPRESS"}, e \in BOOLEAN : UpsertPolicy(s, a, e)
  \/ \E c \in DOMAIN evidence : ReadCandidate(c)
  \/ \E state \in Closed \cup {"OPEN", "ACKNOWLEDGED"} : ReviewCandidate(state)

ObjectsSpec == ObjectsInit /\ [][ObjectsNext]_objectVars
-----------------------------------------------------------------------------
InForce(s, c) == policies[s].enabled /\ policies[s].expires > now /\ Matches(s, c)

(* t was written for fewer candidates than s: for one locator where s is   *)
(* for any, or, both alike in that, for one kind where s is for any.       *)
Narrower(t, s) ==
  \/ t.loc # "any" /\ s.loc = "any"
  \/ (t.loc = "any" <=> s.loc = "any") /\ t.kind # "any" /\ s.kind = "any"

(* A candidate leaves the operators' queue only for a policy in force that *)
(* covers and suppresses it, and that no policy in force written for fewer *)
(* candidates, or for as many but later, asks to review; and it is closed  *)
(* only by a review of someone who had seen evidence as late as its last:  *)
(* what arrives while a decision is made reopens it ("A stale dismissal    *)
(* cannot permanently hide recurring evidence",                            *)
(* API74_BOLA_POLICY_EVIDENCE_CONSOLE.md).                                 *)
EvidenceSurfaces ==
  \A c \in DOMAIN evidence :
    /\ SuppressedByPolicy(c) =>
         \E s \in DOMAIN policies :
           /\ policies[s].action = "SUPPRESS" /\ InForce(s, c)
           /\ \A t \in DOMAIN policies :
                policies[t].action = "REVIEW" /\ InForce(t, c) =>
                  /\ ~Narrower(t, s)
                  /\ ~Narrower(s, t) => policies[t].updated <= policies[s].updated
    /\ Hidden(c) => evidence[c].last <= reviews[c].read

(* The inductive invariant.  A stored review carries the time its reader   *)
(* saw; the stores keep to their limits, in all, for each identity and for *)
(* each object; and a locator is the operator's exactly while an INCLUDE   *)
(* says so.                                                                *)
WorkRec == [who : Identities, what : Objects, at : Int, loc : Segments]

ObjectsTypeOK ==
  /\ now \in Nat /\ DOMAIN locators \subseteq Segments /\ DOMAIN overrides \subseteq Segments
  /\ work = NoWork \/ work \in WorkRec
  /\ reader = NoWork \/ (reader = [who |-> reader.who, last |-> reader.last] /\ reader.last \in Int)
  /\ \A c \in DOMAIN evidence : evidence[c].last \in Int

ReviewsInv == \A c \in DOMAIN reviews : reviews[c].last \in Int /\ reviews[c].read = reviews[c].last

EvidenceBounded(ev) ==
  /\ IsFiniteSet(DOMAIN ev) /\ Cardinality(DOMAIN ev) <= MaxEvidence
  /\ \A i \in Identities : Cardinality({c \in DOMAIN ev : c[2] = i}) <= MaxPerIdentity
  /\ \A x \in Segments, o \in Objects : Cardinality({c \in DOMAIN ev : c[3] = x /\ c[4] = o}) <= MaxPerObject

RelationsBounded(rs) ==
  /\ IsFiniteSet(DOMAIN rs) /\ Cardinality(DOMAIN rs) <= MaxRelations
  /\ \A i \in Identities : Cardinality({r \in DOMAIN rs : r[1] = i}) <= MaxPerIdentity
  /\ \A x \in Segments, o \in Objects : Cardinality({r \in DOMAIN rs : r[2] = x /\ r[3] = o}) <= MaxPerObject

StoresBounded ==
  /\ EvidenceBounded(evidence) /\ RelationsBounded(relations)
  /\ IsFiniteSet(DOMAIN reviews) /\ Cardinality(DOMAIN reviews) <= MaxReviews

Owned(ls) == {x \in DOMAIN ls : "OPERATOR" \in ls[x].sources}
LocatorsInv == Owned(locators) = {x \in DOMAIN overrides : overrides[x] = "INCLUDE"}

StoresInv == ObjectsTypeOK /\ ReviewsInv /\ StoresBounded /\ LocatorsInv
PoliciesInv == \A s \in DOMAIN policies : policies[s].updated \in Int

ObjectsIInv == StoresInv /\ PoliciesInv
=============================================================================
