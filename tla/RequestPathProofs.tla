------------------------- MODULE RequestPathProofs --------------------------
(* Proofs about the way of a request to a backend: the balancer of a pool, *)
(* the abuse limiter and the session tickets of TLS.                       *)
EXTENDS PoolBalancer, L7Abuse, TLSTickets, FiniteSetTheorems, SequenceTheorems, TLAPS

(***************************************************************************)
(* Proofs about PoolBalancer, for any pool, any number of requests and any *)
(* interleaving of their choices with the monitors and with swaps.         *)
(***************************************************************************)

Flying == {"sent", "open"}

(* The members are numbered from one, and there are some.                  *)
LEMMA MemberFacts ==
  /\ 1 \in Members /\ N \in Members /\ N \in Nat /\ N > 1 /\ 0 \notin Members
  /\ Members \subseteq 0..N /\ Members \subseteq Nat
  /\ \A m \in Members : m < N => m + 1 \in Members
  /\ \A m \in Members : 1 + (m % N) \in Members
  /\ \A h \in Nat : 1 + (h % N) \in Members
  /\ \A m \in Members : Weight[m] \in Nat
  BY PoolAssumption DEF Members

(* The places of some members in a turn are finitely many.                 *)
LEMMA PlacesFinite ==
  ASSUME NEW S, S \subseteq Members
  PROVE  IsFiniteSet(Places(S)) /\ Share(S) \in Nat
<1> DEFINE mine(m) == {m} \X (1..Weight[m])
           all == {mine(m) : m \in S}
<1>1. IsFiniteSet(S)
  <2>1. IsFiniteSet(Members)
    BY PoolAssumption, FS_Interval DEF Members
  <2> QED BY <2>1, FS_Subset
<1>2. IsFiniteSet(all)
  <2>1. [m \in S |-> mine(m)] \in Surjection(S, all)
    BY DEF Surjection
  <2> HIDE DEF all
  <2> QED BY <1>1, <2>1, FS_Surjection
<1>3. ASSUME NEW T \in all PROVE IsFiniteSet(T)
  <2>1. PICK m \in S : T = mine(m)
    OBVIOUS
  <2>2. PICK w \in Nat : w = Weight[m]
    BY MemberFacts
  <2>3. IsFiniteSet(1..w)
    BY FS_Interval
  <2>4. IsFiniteSet({m})
    BY FS_Singleton
  <2>5. IsFiniteSet({m} \X (1..w))
    BY <2>3, <2>4, FS_Product
  <2> QED BY <2>1, <2>2, <2>5
<1>4. IsFiniteSet(UNION all)
  <2> HIDE DEF all
  <2> QED BY <1>2, <1>3, FS_UNION
<1>5. Places(S) = UNION all
  BY DEF Places
<1> QED BY <1>4, <1>5, FS_CardinalityType DEF Share

(* Of disjoint parts, the shares add up.                                   *)
LEMMA ShareAdds ==
  ASSUME NEW S, S \subseteq Members, NEW m \in Members \ S
  PROVE  Share(S \cup {m}) = Share(S) + Weight[m]
<1> DEFINE mine == {m} \X (1..Weight[m])
<1>1. PICK w \in Nat : w = Weight[m]
  BY MemberFacts
<1>2. IsFiniteSet(mine) /\ Cardinality(mine) = Weight[m]
  <2>1. IsFiniteSet(1..w) /\ Cardinality(1..w) = w
    BY FS_Interval
  <2>2. IsFiniteSet({m}) /\ Cardinality({m}) = 1
    BY FS_Singleton
  <2>3. PICK T, M : T = 1..w /\ M = {m}
    OBVIOUS
  <2>4. IsFiniteSet(M \X T) /\ Cardinality(M \X T) = Cardinality(M) * Cardinality(T)
    BY <2>1, <2>2, <2>3, FS_Product
  <2>5. Cardinality(M) * Cardinality(T) = w
    BY <2>1, <2>2, <2>3
  <2> QED BY <1>1, <2>3, <2>4, <2>5
<1>3. Places(S \cup {m}) = Places(S) \cup mine
  BY DEF Places
<1>4. Places(S) \cap mine = {}
  BY DEF Places
<1>5. IsFiniteSet(Places(S)) /\ Share(S) \in Nat
  BY PlacesFinite
<1>6. Cardinality(Places(S) \cup mine) = Share(S) + Weight[m] - Cardinality(Places(S) \cap mine)
  <2> HIDE DEF mine
  <2> QED BY <1>2, <1>5, FS_Union DEF Share
<1>7. Cardinality(Places(S) \cap mine) = 0 /\ Cardinality(Places(S) \cup mine) = Share(S \cup {m})
  <2> HIDE DEF mine
  <2> QED BY <1>3, <1>4, FS_EmptySet DEF Share
<1> QED BY <1>1, <1>5, <1>6, <1>7

(* More have more, and some have something.                                *)
LEMMA ShareFacts ==
  /\ Share({}) = 0
  /\ \A S, T : S \subseteq T /\ T \subseteq Members => Share(S) <= Share(T)
  /\ \A S : S \subseteq Members /\ S # {} => Share(S) > 0
  /\ TotalWeight \in Nat \ {0}
<1>1. Share({}) = 0
  BY FS_EmptySet DEF Share, Places
<1>2. ASSUME NEW S, NEW T, S \subseteq T, T \subseteq Members PROVE Share(S) <= Share(T)
  <2>1. Places(S) \subseteq Places(T)
    BY <1>2 DEF Places
  <2>2. IsFiniteSet(Places(T))
    BY <1>2, PlacesFinite
  <2> QED BY <2>1, <2>2, FS_Subset DEF Share
<1>3. ASSUME NEW S, S \subseteq Members, S # {} PROVE Share(S) > 0
  <2>1. PICK m \in S : TRUE
    BY <1>3
  <2>2. Weight[m] \in Nat \ {0}
    BY <1>3, <2>1, PoolAssumption
  <2>3. <<m, 1>> \in Places(S)
    BY <2>2 DEF Places
  <2>4. IsFiniteSet(Places(S)) /\ Share(S) \in Nat
    BY <1>3, PlacesFinite
  <2>5. Share(S) # 0
    BY <2>3, <2>4, FS_EmptySet DEF Share
  <2> QED BY <2>4, <2>5
<1>4. TotalWeight \in Nat \ {0}
  <2>1. Share(Members) \in Nat /\ Share(Members) > 0
    BY <1>3, PlacesFinite, MemberFacts
  <2> QED BY <2>1 DEF TotalWeight
<1> QED BY <1>1, <1>2, <1>3, <1>4

(* The requests in flight on a member are finitely many.                   *)
LEMMA InFlightFinite ==
  ASSUME NEW g, NEW m
  PROVE  IsFiniteSet(InFlight(g, m))
<1>1. InFlight(g, m) \subseteq Requests
  BY DEF InFlight
<1> QED BY <1>1, FS_Subset, PoolAssumption

(* A request that is in flight neither before nor after a step leaves the  *)
(* counts alone.                                                           *)
LEMMA Advance ==
  ASSUME PoolIInv, NEW r \in Requests, NEW q \in Progress, Sound(q),
         req' = [req EXCEPT ![r] = q], req[r].st \notin Flying, q.st \notin Flying,
         UNCHANGED active
  PROVE  req' \in [Requests -> Progress] /\ ChoiceInv' /\ InFlightExact'
<1>1. req' \in [Requests -> Progress]
  BY DEF PoolIInv, TypeOK
<1>2. \A x \in Requests : req'[x] = IF x = r THEN q ELSE req[x]
  BY DEF PoolIInv, TypeOK
<1>3. ChoiceInv'
  BY <1>2 DEF PoolIInv, ChoiceInv, Sound
<1>4. ASSUME NEW g \in Gens, NEW m \in Members
      PROVE  InFlight(g, m)' = InFlight(g, m)
  BY <1>2 DEF InFlight, Flying
<1>5. InFlightExact'
  BY <1>4 DEF PoolIInv, InFlightExact
<1> QED BY <1>1, <1>3, <1>5

(* What Pass and Found make of a choice.                                   *)
LEMMA PassShape ==
  ASSUME NEW q \in Progress, NEW p \in {"least", "nth", "total", "weigh"}
  PROVE  /\ Pass(q, p) \in Progress
         /\ Pass(q, p).st = p /\ Pass(q, p).at = 1
         /\ \A f \in {"gen", "only", "n", "best", "other"} : Pass(q, p)[f] = q[f]
  BY MemberFacts DEF Progress, Pass, States, Choosing

(* A member found ends the choice.                                         *)
LEMMA FoundShape ==
  ASSUME NEW q \in Progress, NEW m \in Members
  PROVE  /\ Found(q, m) \in Progress /\ Sound(Found(q, m))
         /\ Found(q, m).st = "picked"
  BY MemberFacts DEF Progress, Found, States, Choosing, Sound

(* An indexed choice starts with a fall-back.                              *)
LEMMA IndexedShape ==
  ASSUME NEW q \in Progress, NEW i \in Int, NEW m \in Members
  PROVE  /\ Indexed(q, i, m) \in Progress
         /\ Sound(Indexed(q, i, m)) /\ Indexed(q, i, m).st = "nth"
<1> DEFINE s == Pass(q, "nth")
<1>1. s \in Progress /\ s.st = "nth"
  BY PassShape
<1> DEFINE p == [s EXCEPT !.idx = i, !.other = m]
<1>2. p = Indexed(q, i, m)
  BY DEF Indexed
<1> HIDE DEF s
<1>3. m \in 0..N
  BY MemberFacts
<1>4. p \in Progress /\ p.st = "nth" /\ p.other = m
  BY <1>1, <1>3 DEF Progress
<1> HIDE DEF p
<1>5. Sound(p)
  BY <1>4 DEF Sound
<1> QED BY <1>2, <1>4, <1>5

(* After healthyCount each method starts with a sound choice.              *)
LEMMA CountedShape ==
  ASSUME NEW r, NEW q \in Progress, NEW e \in Nat \ {0}, Counted(r, q, e)
  PROVE  \E p \in Progress : Sound(p) /\ p.st \notin Flying /\ req' = [req EXCEPT ![r] = p]
<1>1. CASE Becomes(r, Pass(q, "least"))
  <2> DEFINE s == Pass(q, "least")
  <2>1. s \in Progress /\ s.st = "least" /\ s.at = 1
    BY PassShape
  <2>2. req' = [req EXCEPT ![r] = s]
    BY <1>1 DEF Becomes
  <2> HIDE DEF s
  <2>3. Sound(s)
    BY <2>1 DEF Sound
  <2> QED BY <2>1, <2>2, <2>3 DEF Flying
<1>2. CASE \E h \in Hashes : Becomes(r, Indexed(q, h % e, 1 + (h % N)))
  <2>1. PICK h \in Hashes : Becomes(r, Indexed(q, h % e, 1 + (h % N)))
    BY <1>2
  <2>2. h % e \in Int /\ 1 + (h % N) \in Members
    <3>1. h \in Nat
      BY PoolAssumption
    <3> QED BY <3>1, MemberFacts
  <2> QED BY <2>1, <2>2, IndexedShape DEF Becomes, Flying
<1>3. CASE \E i \in 0..(e - 1), m \in Members : Becomes(r, Indexed(q, i, m))
  <2>1. PICK i \in 0..(e - 1), m \in Members : Becomes(r, Indexed(q, i, m))
    BY <1>3
  <2>2. i \in Int
    OBVIOUS
  <2> QED BY <2>1, <2>2, IndexedShape DEF Becomes, Flying
<1>4. CASE Becomes(r, [Pass(q, "total") EXCEPT !.n = 0])
  <2> DEFINE s == Pass(q, "total")
             p == [s EXCEPT !.n = 0]
  <2>1. s \in Progress /\ s.st = "total"
    BY PassShape
  <2>2. req' = [req EXCEPT ![r] = p]
    BY <1>4 DEF Becomes
  <2> HIDE DEF s
  <2>3. p \in Progress /\ p.st = "total"
    BY <2>1 DEF Progress
  <2> QED BY <2>2, <2>3 DEF Sound, Flying
<1> QED BY <1>1, <1>2, <1>3, <1>4 DEF Counted

(* What a pass leaves alone.                                               *)
LEMMA PassFrame ==
  ASSUME PoolIInv, NEW r, NEW p, At(r, p), rr' \in [Gens -> Nat],
         req' \in [Requests -> Progress] /\ ChoiceInv' /\ InFlightExact'
  PROVE  PoolIInv'
  BY DEF PoolIInv, TypeOK, At, poolVars, monitorVars

(* healthyCount.                                                           *)
LEMMA CountStep ==
  ASSUME PoolIInv, NEW r \in Requests, Count(r)
  PROVE  PoolIInv'
<1> DEFINE q == req[r]
           n == q.n + IF healthy[q.gen][q.at] THEN 1 ELSE 0
<1>1. q \in Progress /\ q.st = "count" /\ n \in Nat /\ q.at \in Members /\ method \in Methods
      /\ rr' \in [Gens -> Nat] /\ UNCHANGED active /\ At(r, "count")
  BY DEF PoolIInv, TypeOK, Count, At, Progress
<1>2. CASE q.at < N
  <2> DEFINE p == [q EXCEPT !.n = n, !.at = @ + 1]
  <2>1. req' = [req EXCEPT ![r] = p]
    BY <1>2 DEF Count, Becomes
  <2>2. p \in Progress /\ Sound(p) /\ p.st = "count"
    BY <1>1, <1>2, MemberFacts DEF Progress, Sound
  <2> QED BY <1>1, <2>1, <2>2, Advance, PassFrame DEF Flying
<1>3. CASE ~(q.at < N)
  <2> DEFINE c == [q EXCEPT !.only = n > 0]
             e == IF n > 0 THEN n ELSE N
  <2>1. Counted(r, c, e)
    BY <1>3 DEF Count
  <2>2. c \in Progress
    <3>1. (n > 0) \in BOOLEAN
      OBVIOUS
    <3> QED BY <1>1, <3>1 DEF Progress
  <2>3. e \in Nat \ {0}
    BY <1>1, MemberFacts
  <2> HIDE DEF c, e
  <2>4. PICK p \in Progress :
          Sound(p) /\ p.st \notin Flying /\ req' = [req EXCEPT ![r] = p]
    BY <2>1, <2>2, <2>3, CountedShape
  <2> QED BY <1>1, <2>4, Advance, PassFrame DEF Flying
<1> QED BY <1>2, <1>3

(* The pass of least_conn ends with a member or with a second pass.        *)
LEMMA LeastStep ==
  ASSUME PoolIInv, NEW r \in Requests, Least(r)
  PROVE  PoolIInv'
<1> DEFINE q == req[r]
           b == IF Better(q) THEN [q EXCEPT !.best = q.at, !.low = active[q.gen][q.at]] ELSE q
           p == IF q.at < N THEN [b EXCEPT !.at = @ + 1] ELSE LeastDone(b)
<1>1. q \in Progress /\ q.st = "least" /\ q.at \in Members /\ q.gen \in Gens /\ Sound(q)
      /\ rr' \in [Gens -> Nat] /\ UNCHANGED active /\ At(r, "least")
      /\ req' = [req EXCEPT ![r] = p]
  BY DEF PoolIInv, TypeOK, Least, At, Progress, ChoiceInv
<1>2. active[q.gen][q.at] \in Int
  BY <1>1 DEF PoolIInv, TypeOK
<1>3. /\ b \in Progress /\ b.st = "least" /\ b.at = q.at /\ b.only = q.only
      /\ ~q.only => b.best \in Members
  <2>1. CASE Better(q)
    BY <1>1, <1>2, <2>1, MemberFacts DEF Progress
  <2>2. CASE ~Better(q)
    <3>1. ASSUME ~q.only PROVE q.best # 0
      BY <2>2, <3>1, <1>1, MemberFacts DEF Better, Eligible, Progress
    <3>2. ASSUME ~q.only PROVE q.best \in Members
      BY <3>1, <3>2, <1>1 DEF Progress, Members
    <3> QED BY <1>1, <2>2, <3>2
  <2> QED BY <2>1, <2>2
<1> HIDE DEF b
<1>4. p \in Progress /\ Sound(p) /\ p.st \notin Flying
  <2>1. CASE q.at < N
    <3>1. q.at + 1 \in Members
      BY <1>1, <2>1, MemberFacts
    <3>2. p \in Progress /\ p.st = "least" /\ p.only = q.only /\ p.best = b.best
      BY <1>3, <2>1, <3>1 DEF Progress
    <3> QED BY <1>3, <3>2 DEF Sound, Flying
  <2>2. CASE ~(q.at < N) /\ b.best = 0 /\ b.only
    <3> DEFINE s == Pass(b, "least")
    <3>1. s \in Progress /\ s.st = "least" /\ s.at = 1
      BY <1>3, PassShape
    <3>2. p = [s EXCEPT !.only = FALSE]
      BY <2>2 DEF LeastDone
    <3> HIDE DEF s, p
    <3>3. p \in Progress /\ p.st = "least" /\ p.at = 1
      BY <3>1, <3>2 DEF Progress
    <3> QED BY <3>3 DEF Sound, Flying
  <2>3. CASE ~(q.at < N) /\ ~(b.best = 0 /\ b.only)
    <3>1. b.best \in Members
      BY <1>3, <2>3 DEF Progress, Members
    <3>2. p = Found(b, b.best)
      BY <2>3 DEF LeastDone
    <3> QED BY <1>3, <3>1, <3>2, FoundShape DEF Flying
  <2> QED BY <2>1, <2>2, <2>3
<1> QED BY <1>1, <1>4, Advance, PassFrame DEF Flying

(* nthEligible, with the fall-back.                                        *)
LEMMA NthStep ==
  ASSUME PoolIInv, NEW r \in Requests, Nth(r)
  PROVE  PoolIInv'
<1> DEFINE q == req[r]
           p == IF Eligible(q, q.at) THEN [q EXCEPT !.idx = @ - 1] ELSE q
           z == IF p.idx < 0 THEN Found([p EXCEPT !.idx = 0], q.at)
                ELSE IF q.at < N THEN [p EXCEPT !.at = @ + 1] ELSE NthDone(p)
<1>1. q \in Progress /\ q.st = "nth" /\ q.at \in Members /\ q.other \in Members
      /\ rr' \in [Gens -> Nat] /\ UNCHANGED active /\ At(r, "nth")
      /\ req' = [req EXCEPT ![r] = z]
  BY DEF PoolIInv, TypeOK, Nth, At, Progress, ChoiceInv, Sound
<1>2. p \in Progress /\ p.st = "nth" /\ p.at = q.at /\ p.other = q.other
  BY <1>1 DEF Progress
<1> HIDE DEF p
<1>3. z \in Progress /\ Sound(z) /\ z.st \notin Flying
  <2>1. CASE p.idx < 0
    <3>1. [p EXCEPT !.idx = 0] \in Progress
      BY <1>2 DEF Progress
    <3> QED BY <1>1, <2>1, <3>1, FoundShape DEF Flying
  <2>2. CASE ~(p.idx < 0) /\ q.at < N
    <3>1. q.at + 1 \in Members
      BY <1>1, <2>2, MemberFacts
    <3>2. z \in Progress /\ z.st = "nth" /\ z.other = q.other
      BY <1>2, <2>2, <3>1 DEF Progress
    <3> QED BY <1>1, <3>2 DEF Sound, Flying
  <2>3. CASE ~(p.idx < 0) /\ ~(q.at < N)
    BY <1>1, <1>2, <2>3, FoundShape DEF NthDone, Flying
  <2> QED BY <2>1, <2>2, <2>3
<1> QED BY <1>1, <1>3, Advance, PassFrame DEF Flying

(* The sum of the weights; the cursor only grows.                          *)
LEMMA TotalStep ==
  ASSUME PoolIInv, NEW r \in Requests, Total(r)
  PROVE  PoolIInv'
<1> DEFINE q == req[r]
           sum == q.n + IF Eligible(q, q.at) THEN Weight[q.at] ELSE 0
           n == IF sum = 0 THEN TotalWeight ELSE sum
<1>1. q \in Progress /\ q.st = "total" /\ q.at \in Members /\ q.gen \in Gens
      /\ UNCHANGED active /\ At(r, "total") /\ rr \in [Gens -> Nat] /\ q.only \in BOOLEAN
  BY DEF PoolIInv, TypeOK, Total, At, Progress
<1>2. sum \in Nat
  <2>1. q.n \in Nat /\ Weight[q.at] \in Nat
    BY <1>1, MemberFacts DEF Progress
  <2> QED BY <2>1
<1>3. n \in Nat \ {0}
  BY <1>2, ShareFacts
<1>4. CASE q.at < N
  <2> DEFINE p == [q EXCEPT !.n = sum, !.at = @ + 1]
  <2>1. req' = [req EXCEPT ![r] = p] /\ rr' = rr
    BY <1>4 DEF Total
  <2>2. q.at + 1 \in Members
    BY <1>1, <1>4, MemberFacts
  <2> HIDE DEF sum
  <2>3. p \in Progress /\ p.st = "total"
    BY <1>1, <1>2, <2>2 DEF Progress
  <2>4. Sound(p)
    BY <2>3 DEF Sound
  <2> QED BY <1>1, <2>1, <2>3, <2>4, Advance, PassFrame DEF Flying
<1>5. CASE ~(q.at < N)
  <2> DEFINE s == Pass(q, "weigh")
             p == [s EXCEPT !.only = @ /\ sum # 0, !.n = n, !.idx = (rr[q.gen] + 1) % n]
  <2>1. /\ req' = [req EXCEPT ![r] = p]
        /\ rr' = [rr EXCEPT ![q.gen] = @ + 1]
    BY <1>5 DEF Total
  <2>2. s \in Progress /\ s.st = "weigh"
    BY <1>1, PassShape
  <2>3. (rr[q.gen] + 1) % n \in Int
    BY <1>1, <1>3
  <2>4. (s.only /\ sum # 0) \in BOOLEAN
    OBVIOUS
  <2> HIDE DEF s, sum, n
  <2>5. p \in Progress /\ p.st = "weigh"
    BY <1>3, <2>2, <2>3, <2>4 DEF Progress
  <2>6. rr' \in [Gens -> Nat]
    BY <1>1, <2>1
  <2> HIDE DEF p
  <2>7. Sound(p)
    BY <2>5 DEF Sound
  <2> QED BY <1>1, <2>1, <2>5, <2>6, <2>7, Advance, PassFrame DEF Flying
<1> QED BY <1>4, <1>5

(* The member under the cursor, or the first.                              *)
LEMMA WeighStep ==
  ASSUME PoolIInv, NEW r \in Requests, Weigh(r)
  PROVE  PoolIInv'
<1> DEFINE q == req[r]
           hit == Eligible(q, q.at) /\ Within(q.idx, Weight[q.at])
           m == IF hit THEN q.at ELSE 1
<1>1. q \in Progress /\ q.st = "weigh" /\ q.at \in Members /\ rr' \in [Gens -> Nat]
      /\ UNCHANGED active /\ At(r, "weigh")
  BY DEF PoolIInv, TypeOK, Weigh, At, Progress
<1>2. CASE hit \/ q.at = N
  <2>1. req' = [req EXCEPT ![r] = Found(q, m)]
    BY <1>2 DEF Weigh
  <2>2. m \in Members
    BY <1>1, MemberFacts
  <2> HIDE DEF m
  <2> QED BY <1>1, <2>1, <2>2, FoundShape, Advance, PassFrame DEF Flying
<1>3. CASE ~(hit \/ q.at = N)
  <2> DEFINE i == IF Eligible(q, q.at) THEN q.idx - Weight[q.at] ELSE q.idx
             p == [q EXCEPT !.at = @ + 1, !.idx = i]
  <2>1. req' = [req EXCEPT ![r] = p]
    BY <1>3 DEF Weigh
  <2>2. q.at + 1 \in Members
    <3>1. q.at < N
      BY <1>1, <1>3, MemberFacts DEF Members
    <3> QED BY <1>1, <3>1, MemberFacts
  <2>3. i \in Int
    <3>1. q.idx \in Int /\ Weight[q.at] \in Nat
      BY <1>1, MemberFacts DEF Progress
    <3> QED BY <3>1
  <2> HIDE DEF i
  <2>4. p \in Progress /\ p.st = "weigh"
    BY <1>1, <2>2, <2>3 DEF Progress
  <2>5. Sound(p)
    BY <2>4 DEF Sound
  <2> QED BY <1>1, <2>1, <2>4, <2>5, Advance, PassFrame DEF Flying
<1> QED BY <1>2, <1>3

(* A choice begins with a fresh record.                                    *)
LEMMA StartStep ==
  ASSUME PoolIInv, NEW r \in Requests, Start(r)
  PROVE  PoolIInv'
<1> DEFINE q == [NoRequest EXCEPT !.st = "count", !.gen = gen, !.seen = Up(gen), !.kept = Up(gen)]
<1>1. q \in Progress /\ q.st = "count"
  <2>1. Up(gen) \in SUBSET Members
    BY DEF Up
  <2>2. gen \in Gens
    BY DEF PoolIInv, TypeOK
  <2>3. NoRequest \in Progress
    <3>1. 1 \in Gens
      BY PoolAssumption DEF Gens
    <3> QED BY <3>1, MemberFacts DEF Progress, NoRequest, States
  <2>4. "count" \in States
    BY DEF States, Choosing
  <2> QED BY <2>1, <2>2, <2>3, <2>4 DEF Progress
<1>2. req' = [req EXCEPT ![r] = q] /\ req[r].st = "none" /\ UNCHANGED active
  BY DEF Start
<1> HIDE DEF q
<1>3. Sound(q)
  BY <1>1 DEF Sound
<1>4. req' \in [Requests -> Progress] /\ ChoiceInv' /\ InFlightExact'
  BY <1>1, <1>2, <1>3, Advance DEF Flying
<1>5. TypeOK'
  BY <1>4, PoolAssumption DEF PoolIInv, TypeOK, Start, poolVars, monitorVars
<1> QED BY <1>4, <1>5 DEF PoolIInv

(* What the round trip leaves alone.                                       *)
LEMMA MoveShape ==
  ASSUME PoolIInv, NEW r \in Requests, NEW p, Move(r, p), p \in {"none", "sent", "open", "closed"},
         p # "none" => req[r].best \in Members
  PROVE  /\ req' \in [Requests -> Progress] /\ ChoiceInv'
         /\ \A x \in Requests \ {r} : req'[x] = req[x]
         /\ req'[r].st = p
         /\ p # "none" => req'[r].gen = req[r].gen /\ req'[r].best = req[r].best
<1> DEFINE q == IF p = "none" THEN NoRequest ELSE [req[r] EXCEPT !.st = p]
<1>1. req' = [req EXCEPT ![r] = q]
  BY DEF Move, PoolIInv, TypeOK
<1>2. NoRequest \in Progress /\ NoRequest.st = "none"
  <2>1. 1 \in Gens
    BY PoolAssumption DEF Gens
  <2> QED BY <2>1, MemberFacts DEF Progress, NoRequest, States
<1>3. req[r] \in Progress
  BY DEF PoolIInv, TypeOK
<1>4. /\ q \in Progress /\ q.st = p
      /\ p # "none" => q.gen = req[r].gen /\ q.best = req[r].best
  BY <1>2, <1>3 DEF Progress, States
<1> HIDE DEF q
<1>5. Sound(q)
  BY <1>4 DEF Sound
<1>6. \A x \in Requests : req'[x] = IF x = r THEN q ELSE req[x]
  BY <1>1 DEF PoolIInv, TypeOK
<1>7. req' \in [Requests -> Progress]
  BY <1>1, <1>4 DEF PoolIInv, TypeOK
<1>8. ChoiceInv'
  BY <1>5, <1>6 DEF PoolIInv, ChoiceInv, Sound
<1> QED BY <1>4, <1>6, <1>7, <1>8

(* One request more in flight on a member.                                 *)
LEMMA OneMore ==
  ASSUME PoolIInv, NEW r \in Requests, NEW g \in Gens, NEW m \in Members,
         \A x \in Requests \ {r} : req'[x] = req[x],
         req[r].st \notin Flying, req'[r].st \in Flying, req'[r].gen = g, req'[r].best = m,
         active' = [active EXCEPT ![g][m] = @ + 1]
  PROVE  InFlightExact'
<1> SUFFICES ASSUME NEW h \in Gens, NEW k \in Members
             PROVE  active'[h][k] = Cardinality(InFlight(h, k)')
  BY DEF InFlightExact
<1>1. active[h][k] = Cardinality(InFlight(h, k)) /\ active[h][k] \in Int
  BY DEF PoolIInv, TypeOK, InFlightExact
<1>2. active'[h][k] = IF h = g /\ k = m THEN active[h][k] + 1 ELSE active[h][k]
  BY DEF PoolIInv, TypeOK
<1>3. CASE h = g /\ k = m
  <2>1. InFlight(h, k)' = InFlight(h, k) \cup {r} /\ r \notin InFlight(h, k)
    BY <1>3 DEF InFlight, Flying
  <2>2. Cardinality(InFlight(h, k)') = Cardinality(InFlight(h, k)) + 1
    BY <2>1, InFlightFinite, FS_AddElement
  <2> QED BY <1>1, <1>2, <1>3, <2>2
<1>4. CASE h # g \/ k # m
  <2>1. InFlight(h, k)' = InFlight(h, k)
    BY <1>4 DEF InFlight, Flying
  <2> QED BY <1>1, <1>2, <1>4, <2>1
<1> QED BY <1>3, <1>4

(* And one less.                                                           *)
LEMMA OneLess ==
  ASSUME PoolIInv, NEW r \in Requests, NEW g \in Gens, NEW m \in Members,
         \A x \in Requests \ {r} : req'[x] = req[x],
         req[r].st \in Flying, req[r].gen = g, req[r].best = m, req'[r].st \notin Flying,
         active' = [active EXCEPT ![g][m] = @ + -1]
  PROVE  InFlightExact'
<1> SUFFICES ASSUME NEW h \in Gens, NEW k \in Members
             PROVE  active'[h][k] = Cardinality(InFlight(h, k)')
  BY DEF InFlightExact
<1>1. active[h][k] = Cardinality(InFlight(h, k)) /\ active[h][k] \in Int
  BY DEF PoolIInv, TypeOK, InFlightExact
<1>2. active'[h][k] = IF h = g /\ k = m THEN active[h][k] - 1 ELSE active[h][k]
  BY DEF PoolIInv, TypeOK
<1>3. CASE h = g /\ k = m
  <2>1. InFlight(h, k)' = InFlight(h, k) \ {r} /\ r \in InFlight(h, k)
    BY <1>3 DEF InFlight, Flying
  <2>2. Cardinality(InFlight(h, k)') = Cardinality(InFlight(h, k)) - 1
    BY <2>1, InFlightFinite, FS_RemoveElement
  <2> QED BY <1>1, <1>2, <1>3, <2>2
<1>4. CASE h # g \/ k # m
  <2>1. InFlight(h, k)' = InFlight(h, k)
    BY <1>4 DEF InFlight, Flying
  <2> QED BY <1>1, <1>2, <1>4, <2>1
<1> QED BY <1>3, <1>4

(* lbTransport.RoundTrip counts the request in.                            *)
LEMMA SendStep ==
  ASSUME PoolIInv, NEW r \in Requests, Send(r)
  PROVE  PoolIInv'
<1>1. PICK g \in Gens, m \in Members :
        /\ g = req[r].gen /\ m = req[r].best /\ req[r].st = "picked" /\ Move(r, "sent")
        /\ active' = [active EXCEPT ![g][m] = @ + 1]
  BY DEF PoolIInv, TypeOK, ChoiceInv, Sound, Send, Add, Progress
<1>2. /\ req' \in [Requests -> Progress] /\ ChoiceInv'
      /\ \A x \in Requests \ {r} : req'[x] = req[x]
      /\ req'[r].st = "sent" /\ req'[r].gen = g /\ req'[r].best = m
  BY <1>1, MoveShape
<1>5. InFlightExact'
  BY <1>1, <1>2, OneMore DEF Flying
<1>6. TypeOK'
  BY <1>1, <1>2 DEF PoolIInv, TypeOK, Move, poolVars, monitorVars
<1> QED BY <1>2, <1>5, <1>6 DEF PoolIInv

(* The request leaves the count once: on failure, or on the first Close.   *)
LEMMA LeaveStep ==
  ASSUME PoolIInv, NEW r \in Requests, NEW p \in {"none", "closed"}, Move(r, p), Add(r, -1),
         req[r].st \in Flying
  PROVE  PoolIInv'
<1>1. PICK g \in Gens, m \in Members :
        /\ g = req[r].gen /\ m = req[r].best
        /\ active' = [active EXCEPT ![g][m] = @ + -1]
  BY DEF PoolIInv, TypeOK, ChoiceInv, Sound, Add, Progress, Flying
<1>2. /\ req' \in [Requests -> Progress] /\ ChoiceInv'
      /\ \A x \in Requests \ {r} : req'[x] = req[x]
      /\ req'[r].st \notin Flying
  BY <1>1, MoveShape DEF Flying
<1>5. InFlightExact'
  BY <1>1, <1>2, OneLess
<1>6. TypeOK'
  BY <1>1, <1>2 DEF PoolIInv, TypeOK, Move, poolVars, monitorVars
<1> QED BY <1>2, <1>5, <1>6 DEF PoolIInv

(* A step of the round trip that keeps the request in, or out of, flight.  *)
LEMMA StayStep ==
  ASSUME PoolIInv, NEW r \in Requests, NEW p \in {"none", "open"}, Move(r, p),
         UNCHANGED active,
         \/ p = "open" /\ req[r].st = "sent"
         \/ p = "none" /\ req[r].st = "closed"
  PROVE  PoolIInv'
<1>1. p # "none" => req[r].best \in Members
  BY DEF PoolIInv, ChoiceInv, Sound
<1>2. /\ req' \in [Requests -> Progress] /\ ChoiceInv'
      /\ \A x \in Requests \ {r} : req'[x] = req[x]
      /\ req'[r].st = p
      /\ p # "none" => req'[r].gen = req[r].gen /\ req'[r].best = req[r].best
  BY <1>1, MoveShape
<1>3. \A g \in Gens, m \in Members : InFlight(g, m)' = InFlight(g, m)
  BY <1>2 DEF InFlight
<1>4. InFlightExact'
  BY <1>3 DEF PoolIInv, InFlightExact
<1>5. TypeOK'
  BY <1>2 DEF PoolIInv, TypeOK, Move, poolVars, monitorVars
<1> QED BY <1>2, <1>4, <1>5 DEF PoolIInv

(* The answer of the backend.                                              *)
LEMMA AnswerStep ==
  ASSUME PoolIInv, NEW r \in Requests, Answer(r)
  PROVE  PoolIInv'
<1>1. req[r].st = "sent"
  BY DEF Answer
<1>2. CASE Move(r, "open") /\ UNCHANGED active
  BY <1>1, <1>2, StayStep
<1>3. CASE Move(r, "none") /\ Add(r, -1)
  BY <1>1, <1>3, LeaveStep DEF Flying
<1> QED BY <1>2, <1>3 DEF Answer

(* countingBody.Close, the first time and again.                           *)
LEMMA CloseStep ==
  ASSUME PoolIInv, NEW r \in Requests, Close(r)
  PROVE  PoolIInv'
<1>1. CASE req[r].st = "open" /\ Move(r, "closed")
  <2>1. Add(r, -1)
    BY <1>1 DEF Close, CountOnce
  <2> QED BY <1>1, <2>1, LeaveStep DEF Flying
<1>2. CASE req[r].st = "closed" /\ Move(r, "none")
  <2> DEFINE g == req[r].gen
             m == req[r].best
  <2>1. active' = [active EXCEPT ![g][m] = @ + 0] /\ g \in Gens /\ m \in Members
    BY <1>2 DEF Close, Add, CountOnce, PoolIInv, TypeOK, ChoiceInv, Sound, Progress
  <2> HIDE DEF g, m
  <2>2. active \in [Gens -> [Members -> Int]]
    BY DEF PoolIInv, TypeOK
  <2>3. active[g][m] + 0 = active[g][m]
    BY <2>1, <2>2
  <2>4. UNCHANGED active
    BY <2>1, <2>2, <2>3
  <2> QED BY <1>2, <2>4, StayStep
<1> QED BY <1>1, <1>2 DEF Close

(* A monitor writes the flags and what the choices under way saw of them.  *)
LEMMA ProbeStep ==
  ASSUME PoolIInv, NEW g \in Gens, NEW alive \in BOOLEAN, Probe(g, alive)
  PROVE  PoolIInv'
<1> DEFINE m == turn[g]
           up == Streak(ok[g][m], alive, Rise)
           down == Streak(bad[g][m], ~alive, Fall)
           flag == IF alive THEN healthy[g][m] \/ up = Rise ELSE healthy[g][m] /\ down < Fall
           p(r) == IF req[r].st \in Choosing /\ req[r].gen = g
                     THEN IF flag THEN [req[r] EXCEPT !.seen = @ \cup {m}]
                                  ELSE [req[r] EXCEPT !.kept = @ \ {m}]
                     ELSE req[r]
<1>1. /\ m \in Members /\ ok[g][m] \in 0..Rise /\ bad[g][m] \in 0..Fall
      /\ healthy[g][m] \in BOOLEAN
  BY DEF PoolIInv, TypeOK
<1>2. up \in 0..Rise /\ down \in 0..Fall
  BY <1>1, PoolAssumption DEF Streak, AtMost
<1>3. flag \in BOOLEAN
  BY <1>1
<1>4. /\ ok' = [ok EXCEPT ![g][m] = up] /\ bad' = [bad EXCEPT ![g][m] = down]
      /\ healthy' = [healthy EXCEPT ![g][m] = flag]
      /\ turn' = [turn EXCEPT ![g] = 1 + (@ % N)]
      /\ req' = [r \in Requests |-> p(r)]
      /\ probes < MaxProbes /\ probes' = probes + 1
      /\ UNCHANGED <<method, gen, active, rr, picks>>
  BY DEF Probe, poolVars
<1> HIDE DEF up, down, flag
<1>5. ASSUME NEW r \in Requests
      PROVE  p(r) \in Progress /\ (\A f \in {"st", "gen", "at", "only", "best", "other"} :
                                     p(r)[f] = req[r][f])
  <2>1. req[r] \in Progress
    BY DEF PoolIInv, TypeOK
  <2> QED BY <1>1, <2>1 DEF Progress
<1>6. \A r \in Requests :
        /\ req'[r] \in Progress
        /\ req'[r].st = req[r].st /\ req'[r].gen = req[r].gen /\ req'[r].at = req[r].at
        /\ req'[r].only = req[r].only /\ req'[r].best = req[r].best
        /\ req'[r].other = req[r].other
  BY <1>4, <1>5
<1>7. req' \in [Requests -> Progress]
  BY <1>4, <1>5
<1>8. TypeOK'
  <2>1. turn' \in [Gens -> Members]
    BY <1>1, <1>4, MemberFacts DEF PoolIInv, TypeOK
  <2>2. probes' \in 0..MaxProbes
    BY <1>4, PoolAssumption DEF PoolIInv, TypeOK
  <2>3. /\ healthy' \in [Gens -> [Members -> BOOLEAN]]
        /\ ok' \in [Gens -> [Members -> 0..Rise]] /\ bad' \in [Gens -> [Members -> 0..Fall]]
    BY <1>2, <1>3, <1>4 DEF PoolIInv, TypeOK
  <2> QED BY <1>4, <1>7, <2>1, <2>2, <2>3 DEF PoolIInv, TypeOK
<1>9. ChoiceInv'
  BY <1>6 DEF PoolIInv, ChoiceInv, Sound
<1>10. InFlightExact'
  <2>1. ASSUME NEW h \in Gens, NEW k \in Members
        PROVE  InFlight(h, k)' = InFlight(h, k)
    BY <1>6 DEF InFlight
  <2> QED BY <1>4, <2>1 DEF PoolIInv, InFlightExact
<1> QED BY <1>8, <1>9, <1>10 DEF PoolIInv

(* A swap of the runtime.                                                  *)
LEMMA ApplyStep ==
  ASSUME PoolIInv, Apply
  PROVE  PoolIInv'
<1>1. gen' \in Gens
  BY PoolAssumption DEF PoolIInv, TypeOK, Apply, Gens
<1>2. TypeOK' /\ ChoiceInv'
  BY <1>1 DEF PoolIInv, TypeOK, ChoiceInv, Sound, Apply, monitorVars
<1>3. InFlightExact'
  BY DEF PoolIInv, InFlightExact, InFlight, Apply
<1> QED BY <1>2, <1>3 DEF PoolIInv

(* A stutter.                                                              *)
LEMMA StutterStep ==
  ASSUME PoolIInv, UNCHANGED vars
  PROVE  PoolIInv'
<1>1. TypeOK' /\ ChoiceInv'
  BY DEF PoolIInv, TypeOK, ChoiceInv, Sound, vars
<1>2. InFlightExact'
  BY DEF PoolIInv, InFlightExact, InFlight, vars
<1> QED BY <1>1, <1>2 DEF PoolIInv

(* A fresh pool: all members up, nothing in flight.                        *)
LEMMA FreshPool == Init => PoolIInv
<1> SUFFICES ASSUME Init PROVE PoolIInv
  OBVIOUS
<1>1. NoRequest \in Progress /\ NoRequest.st = "none" /\ 1 \in Gens
  <2>1. 1 \in Gens
    BY PoolAssumption DEF Gens
  <2> QED BY <2>1, MemberFacts DEF Progress, NoRequest, States
<1>2. Rise \in Nat /\ Fall \in Nat
  BY PoolAssumption
<1>3. TypeOK
  BY <1>1, <1>2, MemberFacts, PoolAssumption DEF Init, TypeOK, Each
<1>4. ChoiceInv
  BY <1>1 DEF Init, ChoiceInv, Sound
<1>5. ASSUME NEW g \in Gens, NEW m \in Members
      PROVE  active[g][m] = Cardinality(InFlight(g, m))
  <2>1. InFlight(g, m) = {}
    BY <1>1 DEF Init, InFlight
  <2> QED BY <2>1, FS_EmptySet DEF Init, Each
<1> QED BY <1>3, <1>4, <1>5 DEF PoolIInv, InFlightExact

(* The inductive invariant: the types, what a choice knows in each pass,   *)
(* the exact counts.                                                       *)
THEOREM PoolInvariant == Spec => []PoolIInv
<1>1. PoolIInv /\ [Next]_vars => PoolIInv'
  <2> SUFFICES ASSUME PoolIInv, [Next]_vars PROVE PoolIInv'
    OBVIOUS
  <2>1. CASE Apply
    BY <2>1, ApplyStep
  <2>2. CASE \E g \in Gens, alive \in BOOLEAN : Probe(g, alive)
    BY <2>2, ProbeStep
  <2>3. ASSUME NEW r \in Requests,
               \/ Start(r) \/ Count(r) \/ Least(r) \/ Nth(r) \/ Total(r)
               \/ Weigh(r) \/ Send(r) \/ Answer(r) \/ Close(r)
        PROVE  PoolIInv'
    BY <2>3, StartStep, CountStep, LeastStep, NthStep, TotalStep, WeighStep, SendStep,
       AnswerStep, CloseStep
  <2>4. CASE UNCHANGED vars
    BY <2>4, StutterStep
  <2> QED BY <2>1, <2>2, <2>3, <2>4 DEF Next
<1> QED BY FreshPool, <1>1, PTL DEF Spec

(* The counts that least_conn compares are those of the requests under     *)
(* way, whatever swaps, failures and double closes happen.                 *)
THEOREM CountsExact == Spec => []InFlightExact
<1>1. PoolIInv => InFlightExact
  BY DEF PoolIInv
<1> QED BY <1>1, PoolInvariant, PTL

(* pick always returns a member, whatever flags change between its passes. *)
THEOREM AlwaysFindsMember == Spec => []FailsOpen
<1>1. PoolIInv => FailsOpen
  BY DEF PoolIInv, ChoiceInv, Sound, FailsOpen
<1> QED BY <1>1, PoolInvariant, PTL

(* The looks at members that a choice may still take: the passes ahead, of *)
(* N looks each, and the rest of this one.                                 *)
PassesAfter(q) ==
  CASE q.st = "count" -> 2 [] q.st = "total" -> 1 [] q.st = "least" /\ q.only -> 1 [] OTHER -> 0
LooksLeft(q) == IF q.st \in Choosing THEN PassesAfter(q) * N + (N + 1 - q.at) ELSE 0

(* The monitor's notes on a choice aside, it is where it was.              *)
SamePlace(q, p) == q = [p EXCEPT !.seen = q.seen, !.kept = q.kept]

(* pick ends: each look brings a choice nearer to its member, so that it   *)
(* takes at most 3 * N of them, whatever flags change and whatever other   *)
(* requests do; even least_conn goes round once more at most.              *)
ChoiceAdvances ==
  [][\A r \in Requests : req[r].st \in Choosing =>
       LooksLeft(req'[r]) < LooksLeft(req[r]) \/ SamePlace(req'[r], req[r])]_vars

(* What a look leads to.                                                   *)
LEMMA LookShapes ==
  ASSUME NEW q \in Progress, q.st \in Choosing
  PROVE  /\ LooksLeft(q) \in Nat /\ LooksLeft(q) >= 1
         /\ \A p \in {"least", "nth", "total", "weigh"} :
              Pass(q, p) \in Progress /\ Pass(q, p).st = p /\ Pass(q, p).at = 1 /\ Pass(q, p).only = q.only
         /\ \A m : Found(q, m).st = "picked"
<1>1. N \in Nat /\ N > 1 /\ q.at \in 1..N /\ q.st \in {"count", "least", "nth", "total", "weigh"}
  BY MemberFacts DEF Progress, Members, Choosing
<1>2. PassesAfter(q) \in {0, 1, 2}
  BY DEF PassesAfter
<1>3. LooksLeft(q) \in Nat /\ LooksLeft(q) >= 1
  BY <1>1, <1>2 DEF LooksLeft
<1>4. \A p \in {"least", "nth", "total", "weigh"} :
        Pass(q, p) \in Progress /\ Pass(q, p).st = p /\ Pass(q, p).at = 1 /\ Pass(q, p).only = q.only
  BY PassShape
<1>5. \A m : Found(q, m).st = "picked"
  BY DEF Found, Progress
<1> QED BY <1>3, <1>4, <1>5

(* Every look of a choice at a member brings it nearer to its end.         *)
LEMMA LookAdvances ==
  ASSUME PoolIInv, NEW r \in Requests, req[r].st \in Choosing,
         Count(r) \/ Least(r) \/ Nth(r) \/ Total(r) \/ Weigh(r)
  PROVE  LooksLeft(req'[r]) < LooksLeft(req[r])
<1> DEFINE q == req[r]
<1>0. q \in Progress /\ N \in Nat /\ N > 1 /\ q.at \in 1..N /\ q.st \in Choosing
  BY MemberFacts DEF PoolIInv, TypeOK, Progress, Members
<1> HIDE DEF q
<1>1. CASE Count(r)
  <2> DEFINE n == q.n + IF healthy[q.gen][q.at] THEN 1 ELSE 0
             p == [q EXCEPT !.only = n > 0]
  <2>1. \/ q.at < N /\ Becomes(r, [q EXCEPT !.n = n, !.at = @ + 1])
        \/ q.at = N /\ \E e : Counted(r, p, e)
    BY <1>0, <1>1 DEF Count, q
  <2>2. q.st = "count"
    BY <1>1 DEF Count, At, q
  <2>3. CASE q.at < N /\ Becomes(r, [q EXCEPT !.n = n, !.at = @ + 1])
    <3>1. req'[r] = [q EXCEPT !.n = n, !.at = @ + 1]
      BY <2>3 DEF Becomes, PoolIInv, TypeOK
    <3>2. req'[r].st = "count" /\ req'[r].at = q.at + 1
      BY <1>0, <2>2, <3>1 DEF Progress
    <3> QED BY <1>0, <2>2, <3>2 DEF LooksLeft, PassesAfter, Choosing, q
  <2>4. CASE q.at = N /\ \E e : Counted(r, p, e)
    <3>1. LooksLeft(q) = 2 * N + 1
      BY <1>0, <2>2, <2>4 DEF LooksLeft, PassesAfter
    <3>2. req'[r].st \in {"least", "nth", "total"} /\ req'[r].at = 1
      <4>1. p \in Progress
        <5>1. (n > 0) \in BOOLEAN
          OBVIOUS
        <5> QED BY <1>0, <5>1 DEF Progress
      <4> HIDE DEF p
      <4>2. \A x : Becomes(r, x) => req'[r] = x
        BY DEF Becomes, PoolIInv, TypeOK
      <4>3. \/ req'[r] = Pass(p, "least")
            \/ \E i, m : req'[r] = Indexed(p, i, m)
            \/ req'[r] = [Pass(p, "total") EXCEPT !.n = 0]
        BY <2>4, <4>2 DEF Counted
      <4> QED BY <4>1, <4>3 DEF Pass, Indexed, Progress
    <3>3. LooksLeft(req'[r]) <= 2 * N
      BY <1>0, <3>2 DEF LooksLeft, PassesAfter, Choosing
    <3>4. LooksLeft(req'[r]) \in Int
      BY <1>0, <3>2 DEF LooksLeft, PassesAfter, Choosing
    <3> QED BY <1>0, <3>1, <3>3, <3>4 DEF q
  <2> QED BY <2>1, <2>3, <2>4
<1>2. CASE Least(r)
  <2>1. PICK p \in Progress : /\ p.st = "least" /\ p.at = q.at /\ p.only = q.only
                              /\ req'[r] = IF p.at < N THEN [p EXCEPT !.at = @ + 1] ELSE LeastDone(p)
    <3> DEFINE t == IF Better(q) THEN [q EXCEPT !.best = q.at, !.low = active[q.gen][q.at]] ELSE q
    <3>1. t \in Progress /\ t.st = "least" /\ t.at = q.at /\ t.only = q.only
      <4>1. q.gen \in Gens /\ q.at \in Members /\ q.at \in 0..N /\ q.st = "least"
        BY <1>0, <1>2, MemberFacts DEF Least, At, q, Progress
      <4>2. active[q.gen][q.at] \in Int
        BY <4>1 DEF PoolIInv, TypeOK
      <4>3. CASE Better(q)
        BY <1>0, <4>1, <4>2, <4>3 DEF Progress
      <4>4. CASE ~Better(q)
        BY <1>0, <4>1, <4>4
      <4> QED BY <4>3, <4>4
    <3>2. req'[r] = IF t.at < N THEN [t EXCEPT !.at = @ + 1] ELSE LeastDone(t)
      BY <1>2 DEF Least, q, PoolIInv, TypeOK
    <3> QED BY <3>1, <3>2
  <2>2. q.st = "least"
    BY <1>2 DEF Least, At, q
  <2>3. CASE p.at < N
    <3>1. req'[r].st = "least" /\ req'[r].at = q.at + 1 /\ req'[r].only = q.only
      BY <1>0, <2>1, <2>3 DEF Progress
    <3> QED BY <1>0, <2>1, <2>2, <2>3, <3>1 DEF LooksLeft, PassesAfter, Choosing, q
  <2>4. CASE ~(p.at < N) /\ p.best = 0 /\ p.only
    <3>1. req'[r] = [Pass(p, "least") EXCEPT !.only = FALSE]
      BY <2>1, <2>4 DEF LeastDone
    <3>2. req'[r].st = "least" /\ req'[r].at = 1 /\ ~req'[r].only
      BY <2>1, <3>1 DEF Pass, Progress
    <3> QED BY <1>0, <2>1, <2>2, <2>4, <3>2 DEF LooksLeft, PassesAfter, Choosing, q
  <2>5. CASE ~(p.at < N) /\ ~(p.best = 0 /\ p.only)
    <3>1. req'[r].st = "picked"
      BY <2>1, <2>5 DEF LeastDone, Found, Progress
    <3> QED BY <1>0, <3>1, LookShapes DEF LooksLeft, Choosing, q
  <2> QED BY <2>3, <2>4, <2>5
<1>3. CASE Nth(r)
  <2>1. q.st = "nth" /\ (req'[r].st = "picked" \/ (req'[r].st = "nth" /\ req'[r].at = q.at + 1 /\ q.at < N))
    BY <1>0, <1>3 DEF Nth, NthDone, Found, At, q, PoolIInv, TypeOK, Progress
  <2> QED BY <1>0, <2>1, LookShapes DEF LooksLeft, PassesAfter, Choosing, q
<1>4. CASE Total(r)
  <2>1. /\ q.st = "total"
        /\ \/ req'[r].st = "total" /\ req'[r].at = q.at + 1 /\ q.at < N
           \/ req'[r].st = "weigh" /\ req'[r].at = 1
    <3> DEFINE sum == q.n + IF Eligible(q, q.at) THEN Weight[q.at] ELSE 0
               n == IF sum = 0 THEN TotalWeight ELSE sum
               s == Pass(q, "weigh")
               i == (rr[q.gen] + 1) % n
               b == s.only /\ sum # 0
    <3>1. /\ q.st = "total" /\ \A x : req' = [req EXCEPT ![r] = x] => req'[r] = x
          /\ s \in Progress /\ s.st = "weigh" /\ s.at = 1
      BY <1>0, <1>4, PassShape DEF Total, At, q, PoolIInv, TypeOK
    <3>2. CASE q.at < N
      <4>1. req' = [req EXCEPT ![r] = [q EXCEPT !.n = sum, !.at = @ + 1]]
        BY <1>4, <3>2 DEF Total, q
      <4> HIDE DEF sum
      <4>2. req'[r] = [q EXCEPT !.n = sum, !.at = @ + 1]
        BY <3>1, <4>1
      <4> QED BY <1>0, <3>1, <3>2, <4>2 DEF Progress
    <3>3. CASE ~(q.at < N)
      <4>1. req' = [req EXCEPT ![r] = [s EXCEPT !.only = b, !.n = n, !.idx = i]]
        BY <1>4, <3>3 DEF Total, q
      <4> HIDE DEF sum, n, s, i, b
      <4>2. req'[r] = [s EXCEPT !.only = b, !.n = n, !.idx = i]
        BY <3>1, <4>1
      <4> QED BY <3>1, <4>2 DEF Progress
    <3> QED BY <3>2, <3>3
  <2> QED BY <1>0, <2>1 DEF LooksLeft, PassesAfter, Choosing, q
<1>5. CASE Weigh(r)
  <2>1. q.st = "weigh" /\ (req'[r].st = "picked" \/ (req'[r].st = "weigh" /\ req'[r].at = q.at + 1 /\ q.at < N))
    <3> DEFINE hit == Eligible(q, q.at) /\ Within(q.idx, Weight[q.at])
               m == IF hit THEN q.at ELSE 1
               i == IF Eligible(q, q.at) THEN q.idx - Weight[q.at] ELSE q.idx
    <3>1. q.st = "weigh" /\ \A x : req' = [req EXCEPT ![r] = x] => req'[r] = x
      BY <1>0, <1>5 DEF Weigh, At, q, PoolIInv, TypeOK
    <3>2. CASE hit \/ q.at = N
      <4>1. req' = [req EXCEPT ![r] = Found(q, m)]
        BY <1>5, <3>2 DEF Weigh, q
      <4> HIDE DEF m
      <4>2. req'[r] = Found(q, m)
        BY <3>1, <4>1
      <4> QED BY <1>0, <3>1, <4>2, LookShapes
    <3>3. CASE ~(hit \/ q.at = N)
      <4>1. req' = [req EXCEPT ![r] = [q EXCEPT !.at = @ + 1, !.idx = i]]
        BY <1>5, <3>3 DEF Weigh, q
      <4>2. q.at < N
        BY <1>0, <3>3
      <4> HIDE DEF i
      <4>3. req'[r] = [q EXCEPT !.at = @ + 1, !.idx = i]
        BY <3>1, <4>1
      <4> QED BY <1>0, <3>1, <4>2, <4>3 DEF Progress
    <3> QED BY <3>2, <3>3
  <2> QED BY <1>0, <2>1, LookShapes DEF LooksLeft, PassesAfter, Choosing, q
<1> QED BY <1>1, <1>2, <1>3, <1>4, <1>5

(* pick ends (pool.go: pick, healthyCount, nthEligible).                   *)
THEOREM ChoiceShrinks == Spec => ChoiceAdvances
<1> DEFINE Advances == \A r \in Requests : req[r].st \in Choosing =>
                         LooksLeft(req'[r]) < LooksLeft(req[r]) \/ SamePlace(req'[r], req[r])
<1>1. ASSUME PoolIInv, [Next]_vars, NEW r \in Requests, req[r].st \in Choosing
      PROVE  LooksLeft(req'[r]) < LooksLeft(req[r]) \/ SamePlace(req'[r], req[r])
  <2>0. req \in [Requests -> Progress]
    BY <1>1 DEF PoolIInv, TypeOK
  <2>1. req'[r] = req[r] => SamePlace(req'[r], req[r])
    BY <1>1, <2>0 DEF SamePlace, Progress
  <2>2. CASE Apply \/ UNCHANGED vars
    BY <2>1, <2>2 DEF Apply, vars
  <2>3. ASSUME NEW g \in Gens, NEW alive \in BOOLEAN, Probe(g, alive) PROVE SamePlace(req'[r], req[r])
    <3>1. \/ req'[r] = req[r]
          \/ \E S : req'[r] = [req[r] EXCEPT !.seen = S] \/ req'[r] = [req[r] EXCEPT !.kept = S]
      BY <1>1, <2>3 DEF Probe
    <3> QED BY <1>1, <2>0, <2>1, <3>1 DEF SamePlace, Progress
  <2>4. ASSUME NEW x \in Requests, x # r,
               \/ Start(x) \/ Count(x) \/ Least(x) \/ Nth(x) \/ Total(x)
               \/ Weigh(x) \/ Send(x) \/ Answer(x) \/ Close(x)
        PROVE  req'[r] = req[r]
    BY <2>0, <2>4 DEF Start, Count, Counted, Becomes, Least, Nth, Total, Weigh, Send, Answer, Close, Move
  <2>5. ~(Start(r) \/ Send(r) \/ Answer(r) \/ Close(r))
    BY <1>1 DEF Start, Send, Answer, Close, Choosing
  <2>6. CASE Count(r) \/ Least(r) \/ Nth(r) \/ Total(r) \/ Weigh(r)
    BY <1>1, <2>6, LookAdvances
  <2> QED BY <1>1, <2>1, <2>2, <2>3, <2>4, <2>5, <2>6 DEF Next
<1>2. PoolIInv /\ [Next]_vars => Advances
  BY <1>1
<1>3. PoolIInv /\ [Next]_vars => [Advances]_vars
  BY <1>2
<1> QED BY <1>3, PoolInvariant, PTL DEF Spec, ChoiceAdvances

(***************************************************************************)
(* Health and weight: which members requests prefer, how the round robin   *)
(* shares them, and when the monitor changes a flag.                       *)
(***************************************************************************)

-----------------------------------------------------------------------------
(* Streaks.                                                                *)

(* One more result.                                                        *)
LEMMA EndsAppend ==
  ASSUME NEW t \in Seq(BOOLEAN), NEW v \in BOOLEAN, NEW w \in BOOLEAN, NEW k \in Nat, NEW n \in Nat,
         Ends(t, k, v), k <= n, n \in Nat \ {0}
  PROVE  Ends(Append(t, w), Streak(k, w = v, n), v)
<1>1. /\ Append(t, w) \in Seq(BOOLEAN) /\ Len(Append(t, w)) = Len(t) + 1 /\ Len(t) \in Nat
      /\ \A j \in 1..Len(t) : Append(t, w)[j] = t[j]
      /\ Append(t, w)[Len(t) + 1] = w
  BY AppendProperties
<1>2. CASE w = v
  <2>1. Streak(k, w = v, n) <= k + 1 /\ Streak(k, w = v, n) \in Nat
    BY <1>2 DEF Streak, AtMost
  <2> QED BY <1>1, <1>2, <2>1 DEF Ends
<1>3. CASE w # v
  <2>1. Streak(k, w = v, n) = 0
    BY <1>3 DEF Streak
  <2> QED BY <1>1, <2>1 DEF Ends
<1> QED BY <1>2, <1>3

(* The first result is forgotten.                                          *)
LEMMA EndsTail ==
  ASSUME NEW t \in Seq(BOOLEAN), NEW v, NEW k \in Nat, Ends(t, k, v), k < Len(t)
  PROVE  Ends(Tail(t), k, v)
<1>1. t # <<>> /\ Len(t) \in Nat
  OBVIOUS
<1>2. Tail(t) \in Seq(BOOLEAN) /\ Len(Tail(t)) = Len(t) - 1 /\ \A j \in 1..Len(t) - 1 : Tail(t)[j] = t[j + 1]
  BY <1>1
<1> QED BY <1>1, <1>2 DEF Ends

(* What the last k results are when they are the same.                     *)
LEMMA EndsSet ==
  ASSUME NEW t \in Seq(BOOLEAN), NEW v, NEW k \in Nat \ {0}, Ends(t, k, v)
  PROVE  Len(t) >= k /\ ToSet(LastOf(t, k)) = {v}
<1>1. Len(t) \in Nat /\ k <= Len(t) /\ \A j \in 1..Len(t) : j > Len(t) - k => t[j] = v
  BY DEF Ends
<1>2. PICK s, a, b : s = SubSeq(t, a, b) /\ a = Len(t) - k + 1 /\ b = Len(t)
  OBVIOUS
<1>3. a \in 1..b /\ b \in Nat /\ b - a + 1 = k /\ a \in Nat
  BY <1>1, <1>2
<1>4. \A j \in a..b : t[j] \in BOOLEAN
  BY <1>1, <1>2, <1>3, ElementOfSeq
<1>5. /\ s \in Seq(BOOLEAN) /\ Len(s) = IF a <= b THEN b - a + 1 ELSE 0
      /\ \A j \in 1..b - a + 1 : s[j] = t[a + j - 1]
  BY <1>2, <1>3, <1>4, SubSeqProperties
<1>6. Len(s) = k /\ DOMAIN s = 1..k
  BY <1>3, <1>5
<1>7. \A j \in 1..k : s[j] = v
  <2> SUFFICES ASSUME NEW j \in 1..k PROVE s[j] = v
    OBVIOUS
  <2>1. a + j - 1 \in 1..Len(t) /\ a + j - 1 > Len(t) - k
    BY <1>1, <1>2, <1>3
  <2> QED BY <1>1, <1>3, <1>5, <2>1
<1>8. 1 \in 1..k
  OBVIOUS
<1>9. ToSet(s) = {v}
  BY <1>6, <1>7, <1>8 DEF ToSet
<1> QED BY <1>1, <1>2, <1>9 DEF LastOf

(* What a probe does to the history of its member.                         *)
LEMMA ProbeStreaks ==
  ASSUME PoolIInv, HistoryOK, \A h \in Gens, k \in Members : Streaks(h, k),
         NEW g \in Gens, NEW alive \in BOOLEAN, Probe(g, alive)
  PROVE  /\ trail' \in [Gens -> [Members -> Seq(BOOLEAN)]]
         /\ \A h \in Gens, k \in Members : Streaks(h, k)'
         /\ FlipsFollowStreaks
<1> DEFINE m == turn[g]
           up == Streak(ok[g][m], alive, Rise)
           down == Streak(bad[g][m], ~alive, Fall)
           flag == IF alive THEN healthy[g][m] \/ up = Rise ELSE healthy[g][m] /\ down < Fall
           longer == Append(trail[g][m], alive)
           kept == IF Len(longer) > Rise + Fall THEN Tail(longer) ELSE longer
<1>1. /\ m \in Members /\ ok[g][m] \in 0..Rise /\ bad[g][m] \in 0..Fall /\ healthy[g][m] \in BOOLEAN
      /\ trail[g][m] \in Seq(BOOLEAN) /\ Rise \in Nat \ {0} /\ Fall \in Nat \ {0}
  <2>1. m \in Members
    BY DEF PoolIInv, TypeOK
  <2>2. ok[g][m] \in 0..Rise /\ bad[g][m] \in 0..Fall /\ healthy[g][m] \in BOOLEAN
    BY <2>1 DEF PoolIInv, TypeOK
  <2>3. trail[g][m] \in Seq(BOOLEAN)
    BY <2>1 DEF HistoryOK
  <2>4. Rise \in Nat \ {0} /\ Fall \in Nat \ {0}
    BY PoolAssumption
  <2> QED BY <2>1, <2>2, <2>3, <2>4
<1>2. /\ ok' = [ok EXCEPT ![g][m] = up] /\ bad' = [bad EXCEPT ![g][m] = down]
      /\ healthy' = [healthy EXCEPT ![g][m] = flag] /\ trail' = [trail EXCEPT ![g][m] = kept]
  BY DEF Probe
<1>3. /\ Len(trail[g][m]) <= Rise + Fall /\ Ends(trail[g][m], ok[g][m], TRUE)
      /\ Ends(trail[g][m], bad[g][m], FALSE)
  BY <1>1 DEF Streaks
<1>4. /\ longer \in Seq(BOOLEAN) /\ Len(longer) = Len(trail[g][m]) + 1
  BY <1>1, AppendProperties
<1>5. up \in 0..Rise /\ down \in 0..Fall
  <2>1. /\ \A k \in 0..Rise : AtMost(k + 1, Rise) \in 0..Rise
        /\ \A k \in 0..Fall : AtMost(k + 1, Fall) \in 0..Fall
        /\ 0 \in 0..Rise /\ 0 \in 0..Fall
    BY <1>1 DEF AtMost
  <2>2. up = AtMost(ok[g][m] + 1, Rise) \/ up = 0
    BY DEF Streak
  <2>3. down = AtMost(bad[g][m] + 1, Fall) \/ down = 0
    BY DEF Streak
  <2> HIDE DEF m, up, down
  <2> QED BY <1>1, <2>1, <2>2, <2>3
<1>6. Ends(longer, up, TRUE)
  <2>1. ok[g][m] \in Nat /\ ok[g][m] <= Rise /\ alive = (alive = TRUE)
    BY <1>1
  <2>2. Ends(longer, Streak(ok[g][m], alive = TRUE, Rise), TRUE)
    BY <1>1, <1>3, <2>1, EndsAppend
  <2> QED BY <2>1, <2>2
<1>7. Ends(longer, down, FALSE)
  <2>1. bad[g][m] \in Nat /\ bad[g][m] <= Fall /\ (~alive) = (alive = FALSE)
    BY <1>1
  <2>2. Ends(longer, Streak(bad[g][m], alive = FALSE, Fall), FALSE)
    BY <1>1, <1>3, <2>1, EndsAppend
  <2> QED BY <2>1, <2>2
<1> HIDE DEF up, down, longer
<1>8. kept \in Seq(BOOLEAN) /\ Len(kept) <= Rise + Fall /\ Ends(kept, up, TRUE) /\ Ends(kept, down, FALSE)
  <2>1. CASE Len(longer) > Rise + Fall
    <3>1. up < Len(longer) /\ down < Len(longer) /\ up \in Nat /\ down \in Nat /\ longer # <<>>
      BY <1>1, <1>4, <1>5, <2>1
    <3>2. Ends(Tail(longer), up, TRUE) /\ Ends(Tail(longer), down, FALSE)
      BY <1>4, <1>6, <1>7, <3>1, EndsTail
    <3>3. Tail(longer) \in Seq(BOOLEAN) /\ Len(Tail(longer)) = Len(longer) - 1
      BY <1>4, <3>1
    <3>4. Len(trail[g][m]) \in Nat
      BY <1>1
    <3>5. Len(Tail(longer)) <= Rise + Fall
      BY <1>1, <1>3, <1>4, <3>3, <3>4
    <3>6. kept = Tail(longer)
      BY <2>1
    <3> QED BY <3>2, <3>3, <3>5, <3>6
  <2>2. CASE ~(Len(longer) > Rise + Fall)
    <3>1. Len(longer) \in Nat
      BY <1>4
    <3>2. Len(longer) <= Rise + Fall
      BY <1>1, <2>2, <3>1
    <3>3. kept = longer
      BY <2>2
    <3> QED BY <1>4, <1>6, <1>7, <3>2, <3>3
  <2> QED BY <2>1, <2>2
<1> HIDE DEF kept, flag, m
<1>9. trail' \in [Gens -> [Members -> Seq(BOOLEAN)]]
  BY <1>1, <1>2, <1>8 DEF HistoryOK
<1>10. ASSUME NEW h \in Gens, NEW k \in Members
       PROVE  /\ ok'[h][k] = IF h = g /\ k = m THEN up ELSE ok[h][k]
              /\ bad'[h][k] = IF h = g /\ k = m THEN down ELSE bad[h][k]
              /\ healthy'[h][k] = IF h = g /\ k = m THEN flag ELSE healthy[h][k]
              /\ trail'[h][k] = IF h = g /\ k = m THEN kept ELSE trail[h][k]
  BY <1>1, <1>2 DEF HistoryOK, PoolIInv, TypeOK
<1>11. ASSUME NEW h \in Gens, NEW k \in Members PROVE Streaks(h, k)'
  BY <1>8, <1>10 DEF Streaks
<1>12. FlipsFollowStreaks
  <2> SUFFICES ASSUME NEW h \in Gens, NEW k \in Members, h = g, k = m, flag # healthy[g][m]
               PROVE  /\ flag /\ ~healthy[g][m] => Len(kept) >= Rise /\ ToSet(LastOf(kept, Rise)) = {TRUE}
                      /\ ~flag /\ healthy[g][m] => Len(kept) >= Fall /\ ToSet(LastOf(kept, Fall)) = {FALSE}
    BY <1>10 DEF FlipsFollowStreaks
  <2>1. CASE flag /\ ~healthy[g][m]
    <3>1. up = Rise
      BY <2>1 DEF flag
    <3> QED BY <1>1, <1>8, <2>1, <3>1, EndsSet
  <2>2. CASE ~flag /\ healthy[g][m]
    <3>1. down = Fall
      BY <1>1, <1>5, <2>2 DEF flag
    <3> QED BY <1>1, <1>8, <2>2, <3>1, EndsSet
  <2> QED BY <2>1, <2>2
<1> QED BY <1>9, <1>11, <1>12

-----------------------------------------------------------------------------
(* Passes.                                                                 *)

(* What counting one more member of a set adds, and what it leaves.        *)
LEMMA OneCounted ==
  ASSUME NEW S, S \subseteq Members, NEW m \in Members \ S
  PROVE  Cardinality(S \cup {m}) = Cardinality(S) + 1 /\ Cardinality(S) \in Nat /\ Share(S) \in Nat
         /\ Share(S \cup {m}) = Share(S) + Weight[m] /\ Weight[m] \in Nat \ {0}
<1>1. IsFiniteSet(S)
  <2>1. IsFiniteSet(Members)
    BY PoolAssumption, FS_Interval DEF Members
  <2> QED BY <2>1, FS_Subset
<1>2. Cardinality(S) \in Nat /\ Cardinality(S \cup {m}) = Cardinality(S) + 1
  BY <1>1, FS_AddElement, FS_CardinalityType
<1>3. Share(S) \in Nat
  BY PlacesFinite
<1>4. Share(S \cup {m}) = Share(S) + Weight[m]
  BY ShareAdds
<1>5. Weight[m] \in Nat \ {0}
  BY PoolAssumption
<1> QED BY <1>2, <1>3, <1>4, <1>5

(* A pass goes on by one member.                                           *)
LEMMA PassGoesOn ==
  ASSUME NEW K, K \subseteq Members, NEW a \in Members
  PROVE  /\ Behind(K, a) \subseteq Members /\ Ahead(K, a + 1) \subseteq Members
         /\ a \notin Behind(K, a) /\ a \notin Ahead(K, a + 1)
         /\ a \in K => Behind(K, a + 1) = Behind(K, a) \cup {a} /\ Ahead(K, a) = Ahead(K, a + 1) \cup {a}
         /\ a \notin K => Behind(K, a + 1) = Behind(K, a) /\ Ahead(K, a) = Ahead(K, a + 1)
<1>1. a \in Nat /\ a \in 1..N /\ N \in Nat
  BY MemberFacts DEF Members
<1>2. \A k \in Members : k \in 1..N
  BY DEF Members
<1>3. a + 1 - 1 = a
  BY <1>1
<1>4. Behind(K, a + 1) = K \cap (1..a)
  <2>1. PICK b : b = a + 1
    OBVIOUS
  <2>2. b - 1 = a
    BY <1>1, <2>1
  <2> QED BY <2>1, <2>2 DEF Behind
<1>5. ASSUME NEW k \in Members
      PROVE  /\ k \in 1..a <=> (k \in 1..(a - 1) \/ k = a)
             /\ k \in a..N <=> (k \in (a + 1)..N \/ k = a)
             /\ a \notin 1..(a - 1) /\ a \notin (a + 1)..N
  BY <1>1, <1>2
<1>6. a \notin 1..(a - 1) /\ a \notin (a + 1)..N
  BY <1>1
<1> QED BY <1>4, <1>5, <1>6 DEF Behind, Ahead

(* Sizes and shares along a pass.                                          *)
LEMMA PassCounts ==
  ASSUME NEW K, K \subseteq Members, NEW a \in Members
  PROVE  /\ Cardinality(Behind(K, a)) \in Nat /\ Share(Behind(K, a)) \in Nat
         /\ Cardinality(Ahead(K, a + 1)) \in Nat /\ Share(Ahead(K, a + 1)) \in Nat
         /\ Cardinality(Behind(K, a + 1)) = Cardinality(Behind(K, a)) + (IF a \in K THEN 1 ELSE 0)
         /\ Share(Behind(K, a + 1)) = Share(Behind(K, a)) + (IF a \in K THEN Weight[a] ELSE 0)
         /\ Cardinality(Ahead(K, a)) = Cardinality(Ahead(K, a + 1)) + (IF a \in K THEN 1 ELSE 0)
         /\ Share(Ahead(K, a)) = Share(Ahead(K, a + 1)) + (IF a \in K THEN Weight[a] ELSE 0)
<1>1. PICK P, A, Q, B : P = Behind(K, a) /\ A = Ahead(K, a + 1) /\ Q = Behind(K, a + 1) /\ B = Ahead(K, a)
  OBVIOUS
<1>2. /\ P \subseteq Members /\ A \subseteq Members /\ a \notin P /\ a \notin A
      /\ a \in K => Q = P \cup {a} /\ B = A \cup {a}
      /\ a \notin K => Q = P /\ B = A
  BY <1>1, PassGoesOn
<1>3. /\ Cardinality(P) \in Nat /\ Share(P) \in Nat /\ Cardinality(P \cup {a}) = Cardinality(P) + 1
      /\ Share(P \cup {a}) = Share(P) + Weight[a]
  BY <1>2, OneCounted
<1>4. /\ Cardinality(A) \in Nat /\ Share(A) \in Nat /\ Cardinality(A \cup {a}) = Cardinality(A) + 1
      /\ Share(A \cup {a}) = Share(A) + Weight[a]
  BY <1>2, OneCounted
<1>5. CASE a \in K
  BY <1>1, <1>2, <1>3, <1>4, <1>5
<1>6. CASE a \notin K
  BY <1>1, <1>2, <1>3, <1>4, <1>6
<1> QED BY <1>5, <1>6

(* The ends of a pass.                                                     *)
LEMMA PassEnds ==
  ASSUME NEW K, K \subseteq Members
  PROVE  /\ Behind(K, 1) = {} /\ Ahead(K, 1) = K /\ Behind(K, N + 1) = K /\ Ahead(K, N + 1) = {}
<1>1. PICK z, n : z = 1 - 1 /\ n = N + 1
  OBVIOUS
<1>2. N \in Nat
  BY MemberFacts
<1>3. 1..z = {} /\ n - 1 = N /\ n..N = {}
  BY ONLY <1>1, <1>2
<1>4. K \cap 1..N = K
  BY DEF Members
<1> QED BY <1>1, <1>3, <1>4 DEF Behind, Ahead

(* The rest of a request's knowledge depends on flags and the method only. *)
LEMMA OthersInformed ==
  ASSUME PoolIInv, HealthIInv, NEW r \in Requests, NEW p, req' = [req EXCEPT ![r] = p],
         UNCHANGED <<method, healthy>>, Informed(p)
  PROVE  \A x \in Requests : Informed(req[x])'
<1>1. \A x \in Requests : req'[x] = IF x = r THEN p ELSE req[x]
  BY DEF PoolIInv, TypeOK
<1>2. \A x \in Requests : Informed(req'[x])
  BY <1>1 DEF HealthIInv
<1>3. \A g \in Gens : Up(g)' = Up(g)
  BY DEF Up
<1> SUFFICES ASSUME NEW x \in Requests PROVE Informed(req[x])'
  OBVIOUS
<1>4. PICK q : q = req'[x]
  OBVIOUS
<1>5. Up(q.gen)' = Up(q.gen)
  BY DEF Up
<1>6. Informed(q)
  BY <1>2, <1>4
<1>7. Informed(q)'
  BY <1>5, <1>6 DEF Informed
<1> QED BY <1>4, <1>7

(* A request of a generation without changed flags keeps all members.      *)
LEMMA AllUpStays ==
  ASSUME PoolIInv, HealthIInv, NEW r \in Requests, NEW p, req' = [req EXCEPT ![r] = p],
         UNCHANGED <<healthy, flipped>>,
         p.st \in Choosing => \/ p.kept = Members \/ flipped[p.gen]
                              \/ req[r].st \in Choosing /\ p.gen = req[r].gen /\ p.kept = req[r].kept
  PROVE  \A g \in Gens : ~flipped[g]' => AllUp(g)'
<1>1. \A x \in Requests : req'[x] = IF x = r THEN p ELSE req[x]
  BY DEF PoolIInv, TypeOK
<1>2. SUFFICES ASSUME NEW g \in Gens, ~flipped[g] PROVE AllUp(g)'
  OBVIOUS
<1>3. Up(g) = Members /\ \A x \in Requests : req[x].st \in Choosing /\ req[x].gen = g => req[x].kept = Members
  BY <1>2 DEF HealthIInv, AllUp
<1>4. Up(g)' = Members
  BY <1>3 DEF Up
<1>5. ASSUME NEW x \in Requests, req'[x].st \in Choosing, req'[x].gen = g PROVE req'[x].kept = Members
  BY <1>1, <1>2, <1>3, <1>5
<1> QED BY <1>4, <1>5 DEF AllUp

(* Shares that nobody changes.                                             *)
LEMMA SharesStay ==
  ASSUME HealthIInv, UNCHANGED <<rr, tally, flipped>>,
         \A g \in Gens : ~flipped[g] => \A m \in Members : DueTo(g, m)' = DueTo(g, m)
  PROVE  \A g \in Gens : ~flipped[g]' => Shared(g)'
<1> SUFFICES ASSUME NEW g \in Gens, ~flipped[g] PROVE Shared(g)'
  OBVIOUS
<1>1. Shared(g)
  BY DEF HealthIInv
<1>2. PICK a \in 0..rr[g], p \in 0..(TotalWeight - 1) :
        /\ rr[g] = a * TotalWeight + p
        /\ \A m \in Members : tally[g][m] + Cardinality(DueTo(g, m)) = a * Weight[m] + Cardinality(Turned(p, m))
  BY <1>1 DEF Shared
<1>3. \A m \in Members : Cardinality(DueTo(g, m)') = Cardinality(DueTo(g, m))
  OBVIOUS
<1>4. \A m \in Members : tally'[g][m] + Cardinality(DueTo(g, m)') = a * Weight[m] + Cardinality(Turned(p, m))
  BY <1>2, <1>3
<1> QED BY <1>2, <1>4 DEF Shared

(* Nor is anybody due elsewhere unless a last pass begins, goes on or ends. *)
LEMMA DueStays ==
  ASSUME PoolIInv, NEW r \in Requests, NEW p, req' = [req EXCEPT ![r] = p],
         req[r].st # "weigh", p.st # "weigh"
  PROVE  \A g \in Gens, m \in Members : DueTo(g, m)' = DueTo(g, m)
<1>1. \A x \in Requests : req'[x] = IF x = r THEN p ELSE req[x]
  BY DEF PoolIInv, TypeOK
<1> QED BY <1>1 DEF DueTo

(* A step of a choice before its last pass, or after the choice.           *)
LEMMA ChoiceKeeps ==
  ASSUME PoolIInv, HealthIInv, NEW r \in Requests, NEW p, req' = [req EXCEPT ![r] = p], Informed(p),
         UNCHANGED <<method, monitorVars, rr, tally>>, req[r].st # "weigh", p.st # "weigh",
         p.st \in Choosing => \/ p.kept = Members \/ flipped[p.gen]
                              \/ req[r].st \in Choosing /\ p.gen = req[r].gen /\ p.kept = req[r].kept
  PROVE  HealthIInv'
<1>1. UNCHANGED <<healthy, flipped, trail, ok, bad>>
  BY DEF monitorVars
<1>2. \A x \in Requests : Informed(req[x])'
  BY <1>1, OthersInformed
<1>3. \A g \in Gens : ~flipped[g]' => AllUp(g)'
  BY <1>1, AllUpStays
<1>4. \A g \in Gens : ~flipped[g]' => Shared(g)'
  BY <1>1, DueStays, SharesStay
<1>5. HistoryOK' /\ \A g \in Gens, m \in Members : Streaks(g, m)'
  BY <1>1 DEF HealthIInv, HistoryOK, Streaks
<1> QED BY <1>2, <1>3, <1>4, <1>5 DEF HealthIInv

(* After its choice a request knows nothing that matters.                  *)
LEMMA MoveInforms ==
  ASSUME PoolIInv, HealthIInv, NEW r \in Requests, NEW p \in {"none", "sent", "open", "closed"},
         Move(r, p), req[r].st \notin Choosing
  PROVE  HealthIInv'
<1>1. PICK q : q = IF p = "none" THEN NoRequest ELSE [req[r] EXCEPT !.st = p]
  OBVIOUS
<1>2. req' = [req EXCEPT ![r] = q]
  BY <1>1 DEF Move
<1>3. q.st = p
  <2>1. req[r] \in Progress
    BY DEF PoolIInv, TypeOK
  <2> QED BY <1>1, <2>1 DEF NoRequest, Progress
<1>4. q.st \notin Choosing /\ q.st # "picked" /\ q.st # "weigh" /\ req[r].st # "weigh"
  BY <1>3 DEF Choosing
<1>5. Informed(q)
  BY <1>4 DEF Informed, Choosing
<1> QED BY <1>2, <1>4, <1>5, ChoiceKeeps DEF Move, poolVars

(* Sending, an answer and a close.                                         *)
LEMMA AfterKeeps ==
  ASSUME PoolIInv, HealthIInv, NEW r \in Requests, Send(r) \/ Answer(r) \/ Close(r)
  PROVE  HealthIInv'
<1>1. \E p \in {"none", "sent", "open", "closed"} : Move(r, p) /\ req[r].st \notin Choosing
  BY DEF Send, Answer, Close, Choosing
<1> QED BY <1>1, MoveInforms

(* A choice begins.                                                        *)
LEMMA StartInforms ==
  ASSUME PoolIInv, HealthIInv, NEW r \in Requests, Start(r)
  PROVE  HealthIInv'
<1>1. PICK q : q = [NoRequest EXCEPT !.st = "count", !.gen = gen, !.seen = Up(gen), !.kept = Up(gen)]
  OBVIOUS
<1>2. req' = [req EXCEPT ![r] = q] /\ req[r].st = "none"
  BY <1>1 DEF Start
<1>3. q = [st |-> "count", gen |-> gen, at |-> 1, only |-> FALSE, n |-> 0, idx |-> 0,
           best |-> 0, low |-> 0, other |-> 0, seen |-> Up(gen), kept |-> Up(gen)]
  BY <1>1 DEF NoRequest
<1>4. q.st = "count" /\ q.gen = gen /\ q.kept = Up(gen) /\ q.seen = Up(gen) /\ q.at = 1 /\ q.n = 0 /\ q.best = 0
  BY <1>3
<1>5. gen \in Gens /\ Up(gen) \subseteq Members
  BY DEF PoolIInv, TypeOK, Up
<1>6. Behind(q.kept, 1) = {}
  BY <1>4, <1>5, PassEnds
<1>7. Informed(q)
  BY <1>4, <1>6, FS_EmptySet DEF Informed
<1>8. ~flipped[gen] => Up(gen) = Members
  BY <1>5 DEF HealthIInv, AllUp
<1> QED BY <1>2, <1>4, <1>7, <1>8, ChoiceKeeps DEF Start, poolVars

(* Counting healthy members.                                               *)
LEMMA CountInforms ==
  ASSUME PoolIInv, HealthIInv, NEW r \in Requests, Count(r)
  PROVE  HealthIInv'
<1> DEFINE q == req[r]
           n == q.n + (IF healthy[q.gen][q.at] THEN 1 ELSE 0)
<1>1. /\ q \in Progress /\ q.st = "count" /\ q.at \in Members /\ q.gen \in Gens /\ q.n \in Nat
      /\ q.kept \subseteq Members /\ Informed(q) /\ healthy[q.gen][q.at] \in BOOLEAN
      /\ q.st \in Choosing
  <2>1. q \in Progress /\ q.st = "count" /\ Informed(q)
    BY DEF PoolIInv, TypeOK, Count, At, HealthIInv
  <2>2. q.at \in Members /\ q.gen \in Gens /\ q.n \in Nat /\ q.kept \subseteq Members
    BY <2>1 DEF Progress
  <2> QED BY <2>1, <2>2 DEF PoolIInv, TypeOK, Choosing
<1>2. UNCHANGED <<method, monitorVars, rr, tally>>
  BY DEF Count, At, poolVars
<1>3. n \in Nat
  BY <1>1
<1>4. /\ q.kept \subseteq Up(q.gen) /\ Up(q.gen) \subseteq q.seen /\ q.best = 0
      /\ Behind(q.kept, q.at) # {} => q.n > 0
      /\ q.kept = q.seen => q.n = Cardinality(Behind(q.kept, q.at))
  BY <1>1 DEF Informed
<1>5. /\ q.at \in q.kept => healthy[q.gen][q.at]
      /\ q.kept = q.seen => (q.at \in q.kept <=> healthy[q.gen][q.at])
  BY <1>1, <1>4 DEF Up
<1>6. /\ Behind(q.kept, q.at + 1) # {} => n > 0
      /\ q.kept = q.seen => n = Cardinality(Behind(q.kept, q.at + 1))
  <2>1. /\ q.at \in q.kept => Behind(q.kept, q.at + 1) = Behind(q.kept, q.at) \cup {q.at}
        /\ q.at \notin q.kept => Behind(q.kept, q.at + 1) = Behind(q.kept, q.at)
    BY <1>1, PassGoesOn
  <2>2. Cardinality(Behind(q.kept, q.at + 1)) = Cardinality(Behind(q.kept, q.at)) + (IF q.at \in q.kept THEN 1 ELSE 0)
    BY <1>1, PassCounts
  <2> QED BY <1>1, <1>4, <1>5, <2>1, <2>2
<1>7. CASE q.at < N
  <2>1. PICK p : p = [q EXCEPT !.n = n, !.at = @ + 1]
    OBVIOUS
  <2>2. req' = [req EXCEPT ![r] = p]
    BY <1>7, <2>1 DEF Count, Becomes
  <2> HIDE DEF n
  <2>3. /\ p.st = "count" /\ p.gen = q.gen /\ p.kept = q.kept /\ p.seen = q.seen /\ p.best = q.best
        /\ p.n = n /\ p.at = q.at + 1
    BY <1>1, <2>1 DEF Progress
  <2>4. Informed(p)
    BY <1>4, <1>6, <2>3 DEF Informed
  <2> QED BY <1>1, <1>2, <2>2, <2>3, <2>4, ChoiceKeeps
<1>8. CASE ~(q.at < N)
  <2>1. q.at = N
    BY <1>1, <1>8, MemberFacts DEF Members
  <2>2. PICK e : e = IF n > 0 THEN n ELSE N
    OBVIOUS
  <2>3. PICK s : s = [q EXCEPT !.only = n > 0]
    OBVIOUS
  <2>4. Counted(r, s, e)
    BY <1>8, <2>2, <2>3 DEF Count
  <2> HIDE DEF n
  <2>5. Behind(q.kept, q.at + 1) = q.kept
    BY <1>1, <2>1, PassEnds
  <2>6. (n > 0) \in BOOLEAN
    OBVIOUS
  <2>7. /\ s \in Progress /\ s.st = "count" /\ s.gen = q.gen /\ s.kept = q.kept /\ s.seen = q.seen /\ s.best = q.best
        /\ s.only = (n > 0)
    BY <1>1, <2>3, <2>6 DEF Progress
  <2>8. Steady(q) => n > 0 /\ e = Cardinality(q.kept)
    BY <1>6, <2>2, <2>5 DEF Steady
  <2>9. q.kept # {} => s.only
    BY <1>6, <2>5, <2>7
  <2>10. Behind(q.kept, 1) = {} /\ Ahead(q.kept, 1) = q.kept
    BY <1>1, PassEnds
  <2>11. CASE method = "least_conn" /\ Becomes(r, Pass(s, "least"))
    <3>1. PICK p : p = Pass(s, "least")
      OBVIOUS
    <3>2. /\ p.st = "least" /\ p.at = 1 /\ p.gen = s.gen /\ p.only = s.only /\ p.best = s.best
          /\ p.kept = s.kept /\ p.seen = s.seen
      BY <2>7, <3>1 DEF Pass, Progress
    <3>3. Informed(p)
      BY <1>4, <2>7, <2>9, <2>10, <2>11, <3>2 DEF Informed
    <3>4. req' = [req EXCEPT ![r] = p]
      BY <2>11, <3>1 DEF Becomes
    <3> QED BY <1>1, <1>2, <2>7, <3>2, <3>3, <3>4, ChoiceKeeps
  <2>12. ASSUME NEW i \in 0..(e - 1), NEW m, Becomes(r, Indexed(s, i, m)), method \in {"ip_hash", "random"}
         PROVE  HealthIInv'
    <3>1. PICK p : p = Indexed(s, i, m)
      OBVIOUS
    <3>2. /\ p.st = "nth" /\ p.at = 1 /\ p.gen = s.gen /\ p.only = s.only /\ p.idx = i
          /\ p.kept = s.kept /\ p.seen = s.seen
      BY <2>7, <3>1 DEF Indexed, Pass, Progress
    <3>3. Informed(p)
      BY <1>4, <2>7, <2>8, <2>9, <2>10, <2>12, <3>2 DEF Informed, Steady
    <3>4. req' = [req EXCEPT ![r] = p]
      BY <2>12, <3>1 DEF Becomes
    <3> QED BY <1>1, <1>2, <2>7, <3>2, <3>3, <3>4, ChoiceKeeps
  <2>13. CASE method = "round_robin" /\ Becomes(r, [Pass(s, "total") EXCEPT !.n = 0])
    <3>1. PICK p : p = [Pass(s, "total") EXCEPT !.n = 0]
      OBVIOUS
    <3>2. /\ p.st = "total" /\ p.at = 1 /\ p.gen = s.gen /\ p.only = s.only /\ p.n = 0
          /\ p.kept = s.kept /\ p.seen = s.seen
      BY <2>7, <3>1 DEF Pass, Progress
    <3>3. Informed(p)
      BY <1>4, <2>7, <2>9, <2>10, <2>13, <3>2, ShareFacts DEF Informed, Steady
    <3>4. req' = [req EXCEPT ![r] = p]
      BY <2>13, <3>1 DEF Becomes
    <3> QED BY <1>1, <1>2, <2>7, <3>2, <3>3, <3>4, ChoiceKeeps
  <2>14. e \in Nat \ {0}
    BY <1>3, <2>2, MemberFacts
  <2>15. \A h \in Hashes : h % e \in 0..(e - 1)
    BY <2>14, PoolAssumption
  <2> QED BY <2>4, <2>11, <2>12, <2>13, <2>15 DEF Counted
<1> QED BY <1>7, <1>8

(* The facts about a request that every step of a pass uses.               *)
LEMMA ChoosingFacts ==
  ASSUME PoolIInv, HealthIInv, NEW r \in Requests
  PROVE  /\ req[r] \in Progress /\ Informed(req[r])
         /\ req[r].at \in Members /\ req[r].at \in Nat /\ req[r].gen \in Gens /\ req[r].kept \subseteq Members
         /\ req[r].idx \in Int /\ req[r].n \in Nat /\ req[r].only \in BOOLEAN /\ N \in Nat
         /\ healthy[req[r].gen][req[r].at] \in BOOLEAN
         /\ ~(req[r].at < N) => req[r].at = N
<1>1. req[r] \in Progress /\ Informed(req[r])
  BY DEF PoolIInv, TypeOK, HealthIInv
<1>2. /\ req[r].at \in Members /\ req[r].gen \in Gens /\ req[r].kept \subseteq Members
      /\ req[r].idx \in Int /\ req[r].n \in Nat /\ req[r].only \in BOOLEAN
  BY <1>1 DEF Progress
<1>3. N \in Nat
  BY MemberFacts
<1>4. req[r].at \in Nat /\ (~(req[r].at < N) => req[r].at = N)
  BY <1>2, <1>3 DEF Members
<1>5. healthy[req[r].gen][req[r].at] \in BOOLEAN
  BY <1>2 DEF PoolIInv, TypeOK
<1> QED BY <1>1, <1>2, <1>3, <1>4, <1>5

(* While only healthy members are eligible, all kept ones are, and a found *)
(* member was seen up.                                                     *)
LEMMA EligibleSeen ==
  ASSUME NEW q \in Progress, Informed(q), q.st \in Choosing, q.only
  PROVE  /\ q.at \in q.kept => Eligible(q, q.at)
         /\ Eligible(q, q.at) => q.at \in q.seen
         /\ q.kept = q.seen => (q.at \in q.kept <=> Eligible(q, q.at))
<1>1. q.at \in Members /\ q.kept \subseteq Up(q.gen) /\ Up(q.gen) \subseteq q.seen
  BY DEF Progress, Informed
<1>2. Eligible(q, q.at) <=> q.at \in Up(q.gen)
  BY <1>1 DEF Eligible, Up
<1> QED BY <1>1, <1>2

(* least_conn.                                                             *)
LEMMA LeastInforms ==
  ASSUME PoolIInv, HealthIInv, NEW r \in Requests, Least(r)
  PROVE  HealthIInv'
<1> DEFINE o == req[r]
<1>1. /\ o \in Progress /\ Informed(o) /\ o.at \in Members /\ o.at \in Nat /\ o.kept \subseteq Members
      /\ N \in Nat /\ (~(o.at < N) => o.at = N) /\ o.st = "least" /\ o.st \in Choosing
      /\ 0 \notin Members
  <2>1. o.st = "least" /\ o.st \in Choosing
    BY DEF Least, At, Choosing
  <2>2. 0 \notin Members
    BY DEF Members
  <2> QED BY <2>1, <2>2, ChoosingFacts
<1>2. UNCHANGED <<method, monitorVars, rr, tally>>
  BY DEF Least, At, poolVars
<1>3. PICK q : q = IF Better(o) THEN [o EXCEPT !.best = o.at, !.low = active[o.gen][o.at]] ELSE o
  OBVIOUS
<1>4. req' = [req EXCEPT ![r] = IF q.at < N THEN [q EXCEPT !.at = @ + 1] ELSE LeastDone(q)]
  BY <1>3 DEF Least
<1>5. /\ method = "least_conn" /\ o.kept \subseteq Up(o.gen) /\ Up(o.gen) \subseteq o.seen
      /\ o.kept # {} => /\ o.only /\ (o.best # 0 => o.best \in o.seen)
                        /\ Behind(o.kept, o.at) # {} => o.best # 0
  BY <1>1 DEF Informed
<1>6. /\ q.st = o.st /\ q.at = o.at /\ q.gen = o.gen /\ q.only = o.only /\ q.kept = o.kept /\ q.seen = o.seen
      /\ q.best = IF Better(o) THEN o.at ELSE o.best
      /\ DOMAIN q = DOMAIN o /\ DOMAIN o = DOMAIN NoRequest
  BY <1>1, <1>3 DEF Progress, NoRequest
<1>7. o.kept # {} => /\ q.best # 0 => q.best \in o.seen
                     /\ Behind(o.kept, o.at + 1) # {} => q.best # 0
  <2>1. /\ o.at \in o.kept => Behind(o.kept, o.at + 1) = Behind(o.kept, o.at) \cup {o.at}
        /\ o.at \notin o.kept => Behind(o.kept, o.at + 1) = Behind(o.kept, o.at)
    <3>1. o.kept \subseteq Members /\ o.at \in Members
      BY <1>1
    <3> QED BY ONLY <3>1, PassGoesOn
  <2>2. o.only => (o.at \in o.kept => Eligible(o, o.at)) /\ (Eligible(o, o.at) => o.at \in o.seen)
    BY <1>1, EligibleSeen
  <2>3. CASE Better(o)
    BY <1>1, <1>5, <1>6, <2>2, <2>3 DEF Better
  <2>4. CASE ~Better(o)
    <3>1. Eligible(o, o.at) => o.best # 0
      BY <2>4 DEF Better
    <3> QED BY <1>5, <1>6, <2>1, <2>2, <2>4, <3>1
  <2> QED BY <2>3, <2>4
<1>8. CASE o.at < N
  <2>1. PICK p : p = [q EXCEPT !.at = @ + 1]
    OBVIOUS
  <2>2. req' = [req EXCEPT ![r] = p]
    BY <1>4, <1>6, <1>8, <2>1
  <2>3. /\ p.st = "least" /\ p.at = o.at + 1 /\ p.gen = o.gen /\ p.only = o.only /\ p.kept = o.kept
        /\ p.seen = o.seen /\ p.best = q.best
    BY <1>1, <1>6, <2>1 DEF NoRequest
  <2>4. Informed(p)
    BY <1>5, <1>7, <2>3 DEF Informed
  <2>5. o.st # "weigh" /\ p.st # "weigh" /\ p.gen = o.gen /\ p.kept = o.kept
    BY <1>1, <2>3
  <2> QED BY <1>1, <1>2, <2>2, <2>4, <2>5, ChoiceKeeps
<1>9. CASE ~(o.at < N)
  <2>1. o.at = N /\ Behind(o.kept, o.at + 1) = o.kept
    BY <1>1, <1>9, PassEnds
  <2>2. req' = [req EXCEPT ![r] = LeastDone(q)]
    BY <1>4, <1>6, <1>9
  <2>3. CASE q.best = 0 /\ q.only
    <3>1. o.kept = {}
      BY <1>7, <2>1, <2>3
    <3>2. PICK p : p = [Pass(q, "least") EXCEPT !.only = FALSE]
      OBVIOUS
    <3>3. p.st = "least" /\ p.gen = o.gen /\ p.kept = o.kept /\ p.seen = o.seen
      BY <1>6, <3>2 DEF Pass, NoRequest
    <3>4. Informed(p)
      BY <1>5, <3>1, <3>3 DEF Informed
    <3>5. req' = [req EXCEPT ![r] = p]
      BY <2>2, <2>3, <3>2 DEF LeastDone
    <3>6. o.st # "weigh" /\ p.st # "weigh"
      BY <1>1, <3>3
    <3> QED BY <1>1, <1>2, <3>3, <3>4, <3>5, <3>6, ChoiceKeeps
  <2>4. CASE ~(q.best = 0 /\ q.only)
    <3>1. PICK p : p = Found(q, q.best)
      OBVIOUS
    <3>2. p.st = "picked" /\ p.best = q.best /\ p.kept = o.kept /\ p.seen = o.seen
      BY <1>6, <3>1 DEF Found, NoRequest
    <3>3. p.kept # {} => p.best \in p.seen
      BY <1>5, <1>6, <1>7, <2>1, <2>4, <3>2
    <3>4. Informed(p)
      BY <3>2, <3>3 DEF Informed, Choosing
    <3>5. req' = [req EXCEPT ![r] = p]
      BY <2>2, <2>4, <3>1 DEF LeastDone
    <3>6. o.st # "weigh" /\ p.st # "weigh" /\ p.st \notin Choosing
      BY <1>1, <3>2 DEF Choosing
    <3> QED BY <1>2, <3>4, <3>5, <3>6, ChoiceKeeps
  <2> QED BY <2>3, <2>4
<1> QED BY <1>8, <1>9

(* ip_hash and random.                                                     *)
LEMMA NthInforms ==
  ASSUME PoolIInv, HealthIInv, NEW r \in Requests, Nth(r)
  PROVE  HealthIInv'
<1> DEFINE o == req[r]
<1>1. /\ o \in Progress /\ Informed(o) /\ o.at \in Members /\ o.at \in Nat /\ o.kept \subseteq Members
      /\ N \in Nat /\ (~(o.at < N) => o.at = N) /\ o.st = "nth" /\ o.st \in Choosing /\ o.idx \in Int
  <2>1. o.st = "nth" /\ o.st \in Choosing
    BY DEF Nth, At, Choosing
  <2> QED BY <2>1, ChoosingFacts
<1>2. UNCHANGED <<method, monitorVars, rr, tally>>
  BY DEF Nth, At, poolVars
<1>3. PICK q : q = IF Eligible(o, o.at) THEN [o EXCEPT !.idx = @ - 1] ELSE o
  OBVIOUS
<1>4. req' = [req EXCEPT ![r] =
          IF q.idx < 0 THEN Found([q EXCEPT !.idx = 0], o.at)
          ELSE IF o.at < N THEN [q EXCEPT !.at = @ + 1] ELSE NthDone(q)]
  BY <1>3 DEF Nth
<1>5. /\ method \in {"ip_hash", "random"} /\ o.kept \subseteq Up(o.gen) /\ Up(o.gen) \subseteq o.seen
      /\ Steady(o) => o.only /\ o.idx \in 0..(Cardinality(Ahead(o.kept, o.at)) - 1)
  BY <1>1 DEF Informed
<1>6. /\ q.st = o.st /\ q.at = o.at /\ q.gen = o.gen /\ q.only = o.only /\ q.kept = o.kept /\ q.seen = o.seen
      /\ q.idx = (IF Eligible(o, o.at) THEN o.idx - 1 ELSE o.idx)
      /\ DOMAIN q = DOMAIN o /\ DOMAIN o = DOMAIN NoRequest
  BY <1>1, <1>3 DEF Progress, NoRequest
<1>7. method # "least_conn"
  BY <1>5
<1>8. /\ Cardinality(Ahead(o.kept, o.at)) = Cardinality(Ahead(o.kept, o.at + 1)) + (IF o.at \in o.kept THEN 1 ELSE 0)
      /\ Cardinality(Ahead(o.kept, o.at + 1)) \in Nat
  BY <1>1, PassCounts
<1>9. Steady(o) => (o.at \in o.kept <=> Eligible(o, o.at))
  BY <1>1, <1>5, EligibleSeen DEF Steady
<1>10. CASE q.idx < 0
  <2>1. PICK p : p = Found([q EXCEPT !.idx = 0], o.at)
    OBVIOUS
  <2>2. p.st = "picked" /\ p.best = o.at /\ p.kept = o.kept /\ p.seen = o.seen
    BY <1>6, <2>1 DEF Found, NoRequest
  <2>3. Steady(o) => o.at \in o.seen
    BY <1>1, <1>5, <1>6, <1>8, <1>9, <1>10 DEF Steady
  <2>4. Informed(p)
    BY <1>7, <2>2, <2>3 DEF Informed, Choosing, Steady
  <2>5. req' = [req EXCEPT ![r] = p]
    BY <1>4, <1>10, <2>1
  <2>6. o.st # "weigh" /\ p.st # "weigh" /\ p.st \notin Choosing
    BY <1>1, <2>2 DEF Choosing
  <2> QED BY <1>2, <2>4, <2>5, <2>6, ChoiceKeeps
<1>11. CASE ~(q.idx < 0) /\ o.at < N
  <2>1. PICK p : p = [q EXCEPT !.at = @ + 1]
    OBVIOUS
  <2>2. /\ p.st = "nth" /\ p.at = o.at + 1 /\ p.gen = o.gen /\ p.only = o.only /\ p.kept = o.kept
        /\ p.seen = o.seen /\ p.idx = q.idx
    BY <1>1, <1>6, <2>1 DEF NoRequest
  <2>3. Steady(o) => o.only /\ q.idx \in 0..(Cardinality(Ahead(o.kept, o.at + 1)) - 1)
    BY <1>1, <1>5, <1>6, <1>8, <1>9, <1>11
  <2>4. Informed(p)
    BY <1>5, <2>2, <2>3 DEF Informed, Steady
  <2>5. req' = [req EXCEPT ![r] = p]
    BY <1>4, <1>11, <2>1
  <2>6. o.st # "weigh" /\ p.st # "weigh" /\ p.gen = o.gen /\ p.kept = o.kept
    BY <1>1, <2>2
  <2> QED BY <1>1, <1>2, <2>4, <2>5, <2>6, ChoiceKeeps
<1>12. CASE ~(q.idx < 0) /\ ~(o.at < N)
  <2>1. PICK p : p = Found(q, q.other)
    OBVIOUS
  <2>2. p.st = "picked" /\ p.kept = o.kept /\ p.seen = o.seen
    BY <1>6, <2>1 DEF Found, NoRequest
  <2>3. Cardinality(Ahead(o.kept, o.at + 1)) = 0
    BY <1>1, <1>12, PassEnds, FS_EmptySet
  <2>4. ~Steady(o)
    BY <1>1, <1>5, <1>6, <1>8, <1>9, <1>12, <2>3
  <2>5. Informed(p)
    BY <1>7, <2>2, <2>4 DEF Informed, Choosing, Steady
  <2>6. req' = [req EXCEPT ![r] = p]
    BY <1>4, <1>12, <2>1 DEF NthDone
  <2>7. o.st # "weigh" /\ p.st # "weigh" /\ p.st \notin Choosing
    BY <1>1, <2>2 DEF Choosing
  <2> QED BY <1>2, <2>5, <2>6, <2>7, ChoiceKeeps
<1> QED BY <1>10, <1>11, <1>12

-----------------------------------------------------------------------------
(* Turns of the cursor.                                                    *)

(* The rest of a cursor after some turns.                                  *)
LEMMA TurnsAndRest ==
  ASSUME NEW a \in Nat, NEW t \in Nat \ {0}, NEW p \in 0..(t - 1)
  PROVE  (a * t + p) % t = p
OBVIOUS

(* Each member has its own places in a turn, one after another.            *)
LEMMA BeforeFacts ==
  /\ Before(1) = 0
  /\ \A m \in Members : /\ Before(m) \in Nat /\ Weight[m] \in Nat \ {0}
                        /\ Before(m) + Weight[m] <= TotalWeight
                        /\ Before(m + 1) = Before(m) + Weight[m]
  /\ \A m, k \in Members : m < k => Before(m) + Weight[m] <= Before(k)
<1>1. ASSUME NEW m \in Members
      PROVE  /\ 1..(m - 1) \subseteq Members /\ Before(m) = Share(Behind(Members, m))
             /\ Before(m) \in Nat /\ Weight[m] \in Nat \ {0}
             /\ Before(m + 1) = Before(m) + Weight[m]
             /\ Share(1..m) = Before(m) + Weight[m] /\ 1..m \subseteq Members
  <2>1. m \in 1..N /\ N \in Nat /\ m \in Nat
    BY MemberFacts DEF Members
  <2>2. PICK b, c : b = m - 1 /\ c = m + 1
    OBVIOUS
  <2>3. c - 1 = m /\ 1..b \subseteq 1..N /\ 1..m \subseteq 1..N
    BY <2>1, <2>2
  <2>4. 1..N = Members
    BY DEF Members
  <2>5. Behind(Members, m) = 1..b /\ Behind(Members, m + 1) = 1..m
    BY <2>2, <2>3, <2>4 DEF Behind
  <2>6. /\ Share(Behind(Members, m)) \in Nat
        /\ Share(Behind(Members, m + 1)) = Share(Behind(Members, m)) + Weight[m]
    BY PassCounts
  <2>7. Weight[m] \in Nat \ {0}
    BY PoolAssumption
  <2>8. Before(m) = Share(1..b) /\ Before(m + 1) = Share(1..m)
    BY <2>2, <2>3 DEF Before
  <2> QED BY <2>2, <2>3, <2>4, <2>5, <2>6, <2>7, <2>8
<1>2. Before(1) = 0
  <2>1. PICK z : z = 1 - 1
    OBVIOUS
  <2>2. 1..z = {}
    BY <2>1
  <2> QED BY <2>1, <2>2, ShareFacts DEF Before
<1>3. ASSUME NEW m \in Members PROVE Before(m) + Weight[m] <= TotalWeight
  <2>1. Share(1..m) <= Share(Members)
    BY <1>1, ShareFacts
  <2> QED BY <1>1, <2>1 DEF TotalWeight
<1>4. ASSUME NEW m \in Members, NEW k \in Members, m < k PROVE Before(m) + Weight[m] <= Before(k)
  <2>1. PICK b : b = k - 1
    OBVIOUS
  <2>2. m \in Nat /\ k \in Nat
    BY MemberFacts
  <2>3. 1..m \subseteq 1..b
    BY <1>4, <2>1, <2>2
  <2>4. Share(1..m) <= Share(1..b)
    BY <1>1, <2>1, <2>3, ShareFacts
  <2> QED BY <1>1, <2>1, <2>4 DEF Before
<1> QED BY <1>1, <1>2, <1>3, <1>4

(* No two members have a place in common.                                  *)
LEMMA LandsOnOne ==
  ASSUME NEW i \in Int, NEW m \in Members, NEW k \in Members, Lands(i, m), Lands(i, k)
  PROVE  m = k
<1>1. m \in Nat /\ k \in Nat
  BY MemberFacts
<1>2. /\ Before(m) \in Nat /\ Before(k) \in Nat /\ Weight[m] \in Nat /\ Weight[k] \in Nat
      /\ m < k => Before(m) + Weight[m] <= Before(k)
      /\ k < m => Before(k) + Weight[k] <= Before(m)
  BY BeforeFacts
<1>3. Before(m) <= i /\ i < Before(m) + Weight[m] /\ Before(k) <= i /\ i < Before(k) + Weight[k]
  BY DEF Lands
<1>4. ~(m < k) /\ ~(k < m)
  BY <1>2, <1>3
<1> QED BY <1>1, <1>4

(* What one step of the cursor adds.                                       *)
LEMMA TurnedGrows ==
  ASSUME NEW p \in Nat, NEW m \in Members
  PROVE  /\ Cardinality(Turned(p, m)) \in Nat /\ Cardinality(Turned(0, m)) = 0
         /\ Cardinality(Turned(p + 1, m)) = Cardinality(Turned(p, m)) + (IF Lands(p + 1, m) THEN 1 ELSE 0)
<1>1. IsFiniteSet(Turned(p, m))
  <2>1. IsFiniteSet(1..p)
    BY FS_Interval
  <2>2. Turned(p, m) \subseteq 1..p
    BY DEF Turned
  <2> QED BY <2>1, <2>2, FS_Subset
<1>2. Turned(0, m) = {} /\ Cardinality(Turned(p, m)) \in Nat
  BY <1>1, FS_CardinalityType DEF Turned
<1>3. PICK n \in Nat : n = p + 1
  OBVIOUS
<1>4. n \notin Turned(p, m)
  BY <1>3 DEF Turned
<1>5. Turned(n, m) = IF Lands(n, m) THEN Turned(p, m) \cup {n} ELSE Turned(p, m)
  <2>1. \A k : k \in 1..n <=> (k \in 1..p \/ k = n)
    BY <1>3
  <2> QED BY <2>1 DEF Turned
<1>6. Cardinality(Turned(p, m) \cup {n}) = Cardinality(Turned(p, m)) + 1
  BY <1>1, <1>4, FS_AddElement
<1>7. Cardinality({}) = 0
  BY FS_EmptySet
<1> QED BY <1>2, <1>3, <1>5, <1>6, <1>7

(* A full turn gives each member its weight.                               *)
LEMMA TurnGivesWeight ==
  ASSUME NEW m \in Members
  PROVE  Cardinality(Turned(TotalWeight - 1, m)) + (IF Lands(0, m) THEN 1 ELSE 0) = Weight[m]
<1>1. PICK b, w, t : b = Before(m) /\ w = Weight[m] /\ t = TotalWeight - 1
  OBVIOUS
<1>2. b \in Nat /\ w \in Nat \ {0} /\ b + w <= t + 1 /\ t \in Nat
  BY <1>1, BeforeFacts, ShareFacts
<1>3. Turned(t, m) = {k \in 1..t : b <= k /\ k < b + w}
  BY <1>1 DEF Turned, Lands
<1>4. PICK e : e = b + w - 1
  OBVIOUS
<1>5. CASE b = 0
  <2>1. Turned(t, m) = 1..e
    BY <1>2, <1>3, <1>4, <1>5
  <2>2. e \in Nat /\ e = w - 1
    BY <1>2, <1>4, <1>5
  <2>3. Cardinality(1..e) = e
    BY <2>2, FS_Interval
  <2>4. Lands(0, m)
    BY <1>1, <1>2, <1>5 DEF Lands
  <2> QED BY <1>1, <1>2, <2>1, <2>2, <2>3, <2>4
<1>6. CASE b # 0
  <2>1. Turned(t, m) = b..e
    BY <1>2, <1>3, <1>4, <1>6
  <2>2. e \in Int /\ b \in Int /\ b <= e /\ e - b + 1 = w
    BY <1>2, <1>4
  <2>3. Cardinality(b..e) = e - b + 1
    BY <2>2, FS_Interval
  <2>4. ~Lands(0, m)
    BY <1>1, <1>2, <1>6 DEF Lands
  <2> QED BY <1>1, <1>2, <2>1, <2>2, <2>3, <2>4
<1> QED BY <1>5, <1>6

(* The requests due to a member are finitely many.                         *)
LEMMA DueFinite ==
  ASSUME NEW g, NEW m
  PROVE  IsFiniteSet(DueTo(g, m)) /\ Cardinality(DueTo(g, m)) \in Nat
<1>1. DueTo(g, m) \subseteq Requests
  BY DEF DueTo
<1>2. IsFiniteSet(DueTo(g, m))
  BY <1>1, FS_Subset, PoolAssumption
<1> QED BY <1>2, FS_CardinalityType

(* A request gets its place in the turn.                                   *)
LEMMA DueGrows ==
  ASSUME PoolIInv, NEW r \in Requests, NEW p, req' = [req EXCEPT ![r] = p],
         req[r].st # "weigh", p.st = "weigh", p.at = 1, p.idx \in Int
  PROVE  \A g \in Gens, m \in Members :
           Cardinality(DueTo(g, m)') = Cardinality(DueTo(g, m)) + (IF p.gen = g /\ Lands(p.idx, m) THEN 1 ELSE 0)
<1> SUFFICES ASSUME NEW g \in Gens, NEW m \in Members
             PROVE  Cardinality(DueTo(g, m)')
                      = Cardinality(DueTo(g, m)) + (IF p.gen = g /\ Lands(p.idx, m) THEN 1 ELSE 0)
  OBVIOUS
<1>1. \A x \in Requests : req'[x] = IF x = r THEN p ELSE req[x]
  BY DEF PoolIInv, TypeOK
<1>2. Before(p.at) + p.idx = p.idx
  <2>1. PICK i \in Int : i = p.idx
    OBVIOUS
  <2>2. PICK b : b = Before(p.at)
    OBVIOUS
  <2>3. b = 0
    BY <2>2, BeforeFacts
  <2>4. b + i = i
    BY <2>1, <2>3
  <2> QED BY <2>1, <2>2, <2>4
<1>3. DueTo(g, m)' = IF p.gen = g /\ Lands(p.idx, m) THEN DueTo(g, m) \cup {r} ELSE DueTo(g, m)
  <2>1. ASSUME NEW x \in Requests, x # r PROVE x \in DueTo(g, m)' <=> x \in DueTo(g, m)
    BY <1>1, <2>1 DEF DueTo
  <2>2. r \in DueTo(g, m)' <=> p.gen = g /\ Lands(p.idx, m)
    BY <1>1, <1>2 DEF DueTo
  <2>3. DueTo(g, m)' \subseteq Requests /\ DueTo(g, m) \subseteq Requests /\ r \notin DueTo(g, m)
    BY DEF DueTo
  <2>4. CASE p.gen = g /\ Lands(p.idx, m)
    BY <2>1, <2>2, <2>3, <2>4
  <2>5. CASE ~(p.gen = g /\ Lands(p.idx, m))
    BY <2>1, <2>2, <2>3, <2>5
  <2> QED BY <2>4, <2>5
<1>4. r \notin DueTo(g, m) /\ IsFiniteSet(DueTo(g, m)) /\ Cardinality(DueTo(g, m)) \in Nat
  BY DueFinite DEF DueTo
<1>5. Cardinality(DueTo(g, m) \cup {r}) = Cardinality(DueTo(g, m)) + 1
  BY <1>4, FS_AddElement
<1> QED BY <1>3, <1>4, <1>5

(* The cursor moves on by one, to index i of the turn.                     *)
Moved(a, p, c, i) ==
  \E b \in 0..(c + 1), q \in 0..(TotalWeight - 1) :
    /\ c + 1 = b * TotalWeight + q
    /\ \A m \in Members : b * Weight[m] + Cardinality(Turned(q, m))
                            = a * Weight[m] + Cardinality(Turned(p, m)) + (IF Lands(i, m) THEN 1 ELSE 0)

(* What a member is due then.                                              *)
LEMMA CursorShares ==
  ASSUME NEW a \in Nat, NEW p \in 0..(TotalWeight - 1), NEW c \in Nat, c = a * TotalWeight + p,
         NEW i, i = (c + 1) % TotalWeight
  PROVE  Moved(a, p, c, i)
<1>1. PICK t \in Nat \ {0} : t = TotalWeight
  BY ShareFacts
<1>2. p \in Nat /\ p <= t - 1 /\ c = a * t + p
  BY <1>1
<1>3. CASE p + 1 < t
  <2>1. PICK q \in 0..(t - 1) : q = p + 1
    BY <1>1, <1>2, <1>3
  <2>2. c + 1 = a * t + q
    BY <1>2, <2>1
  <2>3. i = q
    BY <1>1, <2>2, TurnsAndRest
  <2>4. a <= a * t
    BY <1>1
  <2>5. a \in 0..(c + 1)
    BY <1>2, <2>4
  <2>6. ASSUME NEW m \in Members
        PROVE  a * Weight[m] + Cardinality(Turned(q, m))
                 = a * Weight[m] + Cardinality(Turned(p, m)) + (IF Lands(i, m) THEN 1 ELSE 0)
    <3>1. /\ Cardinality(Turned(p, m)) \in Nat
          /\ Cardinality(Turned(p + 1, m)) = Cardinality(Turned(p, m)) + (IF Lands(p + 1, m) THEN 1 ELSE 0)
      BY <1>2, TurnedGrows
    <3>2. Cardinality(Turned(q, m)) = Cardinality(Turned(p, m)) + (IF Lands(i, m) THEN 1 ELSE 0)
      BY <2>1, <2>3, <3>1
    <3>3. Weight[m] \in Nat
      BY MemberFacts
    <3>4. PICK x \in Nat : x = a * Weight[m]
      BY <3>3
    <3> QED BY <3>1, <3>2, <3>4
  <2> QED BY <1>1, <2>1, <2>2, <2>5, <2>6 DEF Moved
<1>4. CASE ~(p + 1 < t)
  <2>1. p + 1 = t
    BY <1>1, <1>2, <1>4
  <2>2. PICK b \in Nat : b = a + 1
    OBVIOUS
  <2>3. b * t = a * t + t
    BY <1>1, <2>2
  <2>4. c + 1 = b * t + 0
    BY <1>1, <1>2, <2>1, <2>3
  <2>5. 0 \in 0..(t - 1)
    BY <1>1
  <2>6. i = 0
    BY <1>1, <2>4, <2>5, TurnsAndRest
  <2>7. b <= b * t
    BY <1>1, <2>2
  <2>8. b \in 0..(c + 1)
    BY <2>2, <2>4, <2>7
  <2>9. ASSUME NEW m \in Members
        PROVE  b * Weight[m] + Cardinality(Turned(0, m))
                 = a * Weight[m] + Cardinality(Turned(p, m)) + (IF Lands(i, m) THEN 1 ELSE 0)
    <3>1. PICK w \in Nat : w = Weight[m]
      BY MemberFacts
    <3>2. Cardinality(Turned(0, m)) = 0 /\ Cardinality(Turned(p, m)) \in Nat
      BY <1>2, TurnedGrows
    <3>3. p = TotalWeight - 1
      BY <1>1, <1>2, <2>1
    <3>4. Cardinality(Turned(p, m)) + (IF Lands(i, m) THEN 1 ELSE 0) = w
      BY <2>6, <3>1, <3>3, TurnGivesWeight
    <3>5. b * w = a * w + w
      <4>1. (a + 1) * w = a * w + w
        BY ONLY a \in Nat, w \in Nat
      <4> QED BY <2>2, <4>1
    <3>6. PICK x \in Nat : x = a * w
      BY <3>1
    <3> QED BY <3>1, <3>2, <3>4, <3>5, <3>6
  <2> QED BY <1>1, <2>4, <2>5, <2>8, <2>9 DEF Moved
<1> QED BY <1>3, <1>4

(* While no flag changed, every request knows all members up.              *)
LEMMA KnowsAllUp ==
  ASSUME PoolIInv, HealthIInv, NEW r \in Requests, req[r].st \in Choosing, ~flipped[req[r].gen]
  PROVE  /\ req[r].kept = Members /\ Steady(req[r])
         /\ \A m \in Members : Eligible(req[r], m)
<1>1. req[r] \in Progress /\ Informed(req[r])
  BY ChoosingFacts
<1>2. req[r].gen \in Gens /\ req[r].seen \subseteq Members
  BY <1>1 DEF Progress
<1>3. Up(req[r].gen) = Members /\ req[r].kept = Members
  BY <1>2 DEF HealthIInv, AllUp
<1>4. Members \subseteq req[r].seen
  BY <1>1, <1>3 DEF Informed
<1> QED BY <1>2, <1>3, <1>4, MemberFacts DEF Steady, Eligible, Up

(* Summing the weights.                                                    *)
LEMMA TotalInforms ==
  ASSUME PoolIInv, HealthIInv, NEW r \in Requests, Total(r)
  PROVE  HealthIInv'
<1> DEFINE o == req[r]
           sum == o.n + (IF Eligible(o, o.at) THEN Weight[o.at] ELSE 0)
<1>1. /\ o \in Progress /\ Informed(o) /\ o.at \in Members /\ o.at \in Nat /\ o.kept \subseteq Members
      /\ N \in Nat /\ (~(o.at < N) => o.at = N) /\ o.st = "total" /\ o.st \in Choosing /\ o.n \in Nat
      /\ o.gen \in Gens /\ o.only \in BOOLEAN
  <2>1. o.st = "total" /\ o.st \in Choosing
    BY DEF Total, At, Choosing
  <2> QED BY <2>1, ChoosingFacts
<1>2. UNCHANGED <<method, monitorVars, tally>>
  BY DEF Total, At, poolVars
<1>3. sum \in Nat
  BY <1>1, MemberFacts
<1>4. /\ method = "round_robin" /\ o.kept \subseteq Up(o.gen) /\ Up(o.gen) \subseteq o.seen
      /\ Steady(o) => o.only /\ o.n = Share(Behind(o.kept, o.at))
  BY <1>1 DEF Informed
<1>5. Steady(o) => o.only /\ sum = Share(Behind(o.kept, o.at + 1))
  <2>1. /\ Share(Behind(o.kept, o.at + 1)) = Share(Behind(o.kept, o.at)) + (IF o.at \in o.kept THEN Weight[o.at] ELSE 0)
    BY <1>1, PassCounts
  <2>2. Steady(o) => (o.at \in o.kept <=> Eligible(o, o.at))
    BY <1>1, <1>4, EligibleSeen DEF Steady
  <2> QED BY <1>4, <2>1, <2>2
<1>6. DOMAIN o = DOMAIN NoRequest
  BY <1>1 DEF Progress, NoRequest
<1>7. CASE o.at < N
  <2>1. PICK p : p = [o EXCEPT !.n = sum, !.at = @ + 1]
    OBVIOUS
  <2>2. req' = [req EXCEPT ![r] = p] /\ rr' = rr
    <3>1. req' = [req EXCEPT ![r].n = sum, ![r].at = @ + 1] /\ rr' = rr
      BY <1>7 DEF Total
    <3>2. req \in [Requests -> Progress]
      BY DEF PoolIInv, TypeOK
    <3>3. [req EXCEPT ![r].n = sum, ![r].at = @ + 1] = [req EXCEPT ![r] = [o EXCEPT !.n = sum, !.at = @ + 1]]
      <4> HIDE DEF sum
      <4> QED BY <1>1, <3>2 DEF Progress
    <3> QED BY <2>1, <3>1, <3>3
  <2> HIDE DEF sum
  <2>3. /\ p.st = "total" /\ p.at = o.at + 1 /\ p.gen = o.gen /\ p.only = o.only /\ p.kept = o.kept
        /\ p.seen = o.seen /\ p.n = sum
    BY <1>1, <1>6, <2>1 DEF NoRequest
  <2>4. Informed(p)
    BY <1>4, <1>5, <2>3 DEF Informed, Steady
  <2>5. o.st # "weigh" /\ p.st # "weigh" /\ p.gen = o.gen /\ p.kept = o.kept
    BY <1>1, <2>3
  <2> QED BY <1>1, <1>2, <2>2, <2>4, <2>5, ChoiceKeeps
<1>8. CASE ~(o.at < N)
  <2>1. o.at = N
    BY <1>1, <1>8
  <2>2. PICK n : n = IF sum = 0 THEN TotalWeight ELSE sum
    OBVIOUS
  <2>3. PICK i : i = (rr[o.gen] + 1) % n
    OBVIOUS
  <2>4. PICK p : p = [Pass(o, "weigh") EXCEPT !.only = @ /\ sum # 0, !.n = n, !.idx = i]
    OBVIOUS
  <2>5. rr' = [rr EXCEPT ![o.gen] = @ + 1] /\ req' = [req EXCEPT ![r] = p]
    BY <1>8, <2>2, <2>3, <2>4 DEF Total
  <2> HIDE DEF sum
  <2>6. PICK z \in BOOLEAN : z = (sum # 0)
    OBVIOUS
  <2>7. /\ p.st = "weigh" /\ p.at = 1 /\ p.gen = o.gen /\ p.only = (o.only /\ z) /\ p.kept = o.kept
        /\ p.seen = o.seen /\ p.idx = i
    BY <1>1, <1>6, <2>4, <2>6 DEF NoRequest, Pass
  <2>8. n \in Nat \ {0} /\ rr \in [Gens -> Nat] /\ rr[o.gen] \in Nat
    BY <1>1, <1>3, <2>2, ShareFacts DEF PoolIInv, TypeOK
  <2>9. i \in 0..(n - 1) /\ i \in Int
    BY <2>3, <2>8
  <2>10. Behind(o.kept, o.at + 1) = o.kept /\ Ahead(o.kept, 1) = o.kept
    BY <1>1, <2>1, PassEnds
  <2>11. Steady(o) => o.only /\ z /\ n = Share(o.kept)
    <3>1. Steady(o) => o.only /\ sum = Share(o.kept) /\ Share(o.kept) > 0
      BY <1>1, <1>5, <2>10, ShareFacts DEF Steady
    <3>2. ASSUME Steady(o) PROVE o.only /\ z /\ n = Share(o.kept)
      <4>1. o.only /\ sum # 0
        BY <1>3, <3>1, <3>2
      <4>2. n = sum
        BY <2>2, <4>1
      <4>3. z
        BY <2>6, <4>1
      <4> QED BY <3>1, <3>2, <4>1, <4>2, <4>3
    <3> QED BY <3>2
  <2>12. Informed(p)
    BY <1>4, <2>7, <2>9, <2>10, <2>11 DEF Informed, Steady
  <2>13. \A x \in Requests : Informed(req[x])'
    BY <1>2, <2>5, <2>12, OthersInformed DEF monitorVars
  <2>14. \A g \in Gens : ~flipped[g]' => AllUp(g)'
    BY <1>1, <1>2, <2>5, <2>7, AllUpStays DEF monitorVars
  <2>15. HistoryOK' /\ \A g \in Gens, m \in Members : Streaks(g, m)'
    BY <1>2 DEF HealthIInv, HistoryOK, Streaks, monitorVars
  <2>16. ASSUME NEW g \in Gens, NEW m \in Members
         PROVE  /\ Cardinality(DueTo(g, m)) \in Nat
                /\ Cardinality(DueTo(g, m)') = Cardinality(DueTo(g, m)) + (IF o.gen = g /\ Lands(i, m) THEN 1 ELSE 0)
    <3>1. req[r].st # "weigh" /\ req' = [req EXCEPT ![r] = p]
      BY <1>1, <2>5
    <3>2. p.idx \in Int /\ p.st = "weigh" /\ p.at = 1
      BY <2>7, <2>9
    <3>3. \A h \in Gens, k \in Members :
            Cardinality(DueTo(h, k)') = Cardinality(DueTo(h, k)) + (IF p.gen = h /\ Lands(p.idx, k) THEN 1 ELSE 0)
      BY <3>1, <3>2, DueGrows
    <3> QED BY <2>7, <3>3, DueFinite
  <2>17. ASSUME NEW g \in Gens, ~flipped[g] PROVE Shared(g)'
    <3>1. PICK a \in 0..rr[g], q \in 0..(TotalWeight - 1) :
            /\ rr[g] = a * TotalWeight + q
            /\ \A m \in Members : tally[g][m] + Cardinality(DueTo(g, m)) = a * Weight[m] + Cardinality(Turned(q, m))
      BY <2>17 DEF HealthIInv, Shared
    <3>2. rr'[g] = IF g = o.gen THEN rr[g] + 1 ELSE rr[g]
      BY <1>1, <2>5, <2>8
    <3>3. tally' = tally /\ tally \in [Gens -> [Members -> Nat]] /\ rr[g] \in Nat /\ a \in Nat
      BY <1>2, <2>8 DEF HealthIInv, HistoryOK
    <3>4. CASE g # o.gen
      <4>1. \A m \in Members : Cardinality(DueTo(g, m)') = Cardinality(DueTo(g, m))
        BY <2>16, <3>4
      <4>2. \A m \in Members : tally'[g][m] + Cardinality(DueTo(g, m)') = a * Weight[m] + Cardinality(Turned(q, m))
        BY <3>1, <3>3, <4>1
      <4>3. rr'[g] = rr[g]
        BY <3>2, <3>4
      <4> QED BY <3>1, <4>2, <4>3 DEF Shared
    <3>5. CASE g = o.gen
      <4>1. o.kept = Members /\ Steady(o)
        BY <1>1, <2>17, <3>5, KnowsAllUp
      <4>2. n = TotalWeight
        BY <2>11, <4>1 DEF TotalWeight
      <4>3. PICK c \in Nat : c = rr[g]
        BY <3>3
      <4>4. i = (c + 1) % TotalWeight /\ c = a * TotalWeight + q
        BY <2>3, <3>1, <3>5, <4>2, <4>3
      <4>5. PICK b \in 0..(c + 1), s \in 0..(TotalWeight - 1) :
              /\ c + 1 = b * TotalWeight + s
              /\ \A m \in Members : b * Weight[m] + Cardinality(Turned(s, m))
                                      = a * Weight[m] + Cardinality(Turned(q, m)) + (IF Lands(i, m) THEN 1 ELSE 0)
        <5>1. a \in Nat
          BY <3>3
        <5>2. Moved(a, q, c, i)
          BY <4>4, <5>1, CursorShares
        <5> QED BY <5>2 DEF Moved
      <4>6. ASSUME NEW m \in Members
            PROVE  tally'[g][m] + Cardinality(DueTo(g, m)') = b * Weight[m] + Cardinality(Turned(s, m))
        <5>1. tally[g][m] + Cardinality(DueTo(g, m)) = a * Weight[m] + Cardinality(Turned(q, m))
          BY <3>1
        <5>2. Cardinality(DueTo(g, m)) \in Nat /\ tally[g][m] \in Nat /\ tally'[g][m] = tally[g][m]
          BY <2>16, <3>3
        <5>3. Cardinality(DueTo(g, m)') = Cardinality(DueTo(g, m)) + (IF Lands(i, m) THEN 1 ELSE 0)
          BY <2>16, <3>5
        <5>4. b * Weight[m] + Cardinality(Turned(s, m))
                = a * Weight[m] + Cardinality(Turned(q, m)) + (IF Lands(i, m) THEN 1 ELSE 0)
          BY <4>5
        <5>5. PICK x, y, d, e, u : /\ x = tally[g][m] /\ y = Cardinality(DueTo(g, m))
                                   /\ d = a * Weight[m] + Cardinality(Turned(q, m))
                                   /\ e = b * Weight[m] + Cardinality(Turned(s, m))
                                   /\ u = IF Lands(i, m) THEN 1 ELSE 0
          OBVIOUS
        <5>6. x \in Nat /\ y \in Nat /\ u \in Nat /\ x + y = d /\ e = d + u
          BY <5>1, <5>2, <5>4, <5>5
        <5>7. x + (y + u) = e
          BY ONLY <5>6
        <5> QED BY <5>2, <5>3, <5>5, <5>7
      <4>7. rr'[g] = c + 1
        BY <3>2, <3>5, <4>3
      <4>8. b \in 0..rr'[g] /\ rr'[g] = b * TotalWeight + s
        BY <4>5, <4>7
      <4> QED BY <4>5, <4>6, <4>8 DEF Shared
    <3> QED BY <3>4, <3>5
  <2>18. flipped' = flipped
    BY <1>2 DEF monitorVars
  <2> QED BY <2>13, <2>14, <2>15, <2>17, <2>18 DEF HealthIInv
<1> QED BY <1>7, <1>8

(* Where the cursor falls.                                                 *)
LEMMA WeighInforms ==
  ASSUME PoolIInv, HealthIInv, NEW r \in Requests, Weigh(r)
  PROVE  HealthIInv'
<1> DEFINE o == req[r]
           hit == Eligible(o, o.at) /\ Within(o.idx, Weight[o.at])
<1>1. /\ o \in Progress /\ Informed(o) /\ o.at \in Members /\ o.at \in Nat /\ o.kept \subseteq Members
      /\ N \in Nat /\ (~(o.at < N) => o.at = N) /\ o.st = "weigh" /\ o.st \in Choosing /\ o.idx \in Int
      /\ o.gen \in Gens /\ Weight[o.at] \in Nat \ {0} /\ DOMAIN o = DOMAIN NoRequest
  <2>1. o.st = "weigh" /\ o.st \in Choosing
    BY DEF Weigh, At, Choosing
  <2>2. o \in Progress /\ o.at \in Members
    BY ChoosingFacts
  <2>3. Weight[o.at] \in Nat \ {0} /\ DOMAIN o = DOMAIN NoRequest
    BY <2>2, PoolAssumption DEF Progress, NoRequest
  <2> QED BY <2>1, <2>3, ChoosingFacts
<1>2. UNCHANGED <<method, monitorVars, rr>>
  BY DEF Weigh, At, poolVars
<1>3. /\ method = "round_robin" /\ o.kept \subseteq Up(o.gen) /\ Up(o.gen) \subseteq o.seen
      /\ Steady(o) => o.only /\ o.idx \in 0..(Share(Ahead(o.kept, o.at)) - 1)
  BY <1>1 DEF Informed
<1>4. /\ Share(Ahead(o.kept, o.at)) = Share(Ahead(o.kept, o.at + 1)) + (IF o.at \in o.kept THEN Weight[o.at] ELSE 0)
      /\ Share(Ahead(o.kept, o.at + 1)) \in Nat
  BY <1>1, PassCounts
<1>5. Steady(o) => (o.at \in o.kept <=> Eligible(o, o.at)) /\ (Eligible(o, o.at) => o.at \in o.seen)
  BY <1>1, <1>3, EligibleSeen DEF Steady
<1>6. Steady(o) /\ ~hit => /\ o.at < N
                           /\ (IF Eligible(o, o.at) THEN o.idx - Weight[o.at] ELSE o.idx)
                                \in 0..(Share(Ahead(o.kept, o.at + 1)) - 1)
  <2> SUFFICES ASSUME Steady(o), ~hit
               PROVE  /\ o.at < N
                      /\ (IF Eligible(o, o.at) THEN o.idx - Weight[o.at] ELSE o.idx)
                           \in 0..(Share(Ahead(o.kept, o.at + 1)) - 1)
    OBVIOUS
  <2>1. (IF Eligible(o, o.at) THEN o.idx - Weight[o.at] ELSE o.idx) \in 0..(Share(Ahead(o.kept, o.at + 1)) - 1)
    <3>1. CASE Eligible(o, o.at)
      <4>1. o.idx >= Weight[o.at]
        BY <1>1, <3>1 DEF Within
      <4> QED BY <1>1, <1>3, <1>4, <1>5, <3>1, <4>1
    <3>2. CASE ~Eligible(o, o.at)
      BY <1>1, <1>3, <1>4, <1>5, <3>2
    <3> QED BY <3>1, <3>2
  <2>2. ASSUME o.at = N PROVE FALSE
    <3>1. Ahead(o.kept, o.at + 1) = {}
      BY <1>1, <2>2, PassEnds
    <3>2. Share(Ahead(o.kept, o.at + 1)) = 0
      BY <3>1, ShareFacts
    <3> QED BY <2>1, <3>2
  <2> QED BY <1>1, <2>1, <2>2
<1>7. ~flipped[o.gen] => Steady(o) /\ Eligible(o, o.at)
  BY <1>1, KnowsAllUp
<1>8. \A p : req' = [req EXCEPT ![r] = p] => \A x \in Requests : req'[x] = IF x = r THEN p ELSE req[x]
  BY DEF PoolIInv, TypeOK
<1>9. CASE hit \/ o.at = N
  <2>1. PICK m : m = IF hit THEN o.at ELSE 1
    OBVIOUS
  <2>2. PICK p : p = Found(o, m)
    OBVIOUS
  <2>3. req' = [req EXCEPT ![r] = p] /\ tally' = [tally EXCEPT ![o.gen][m] = @ + 1]
    BY <1>9, <2>1, <2>2 DEF Weigh
  <2>4. p.st = "picked" /\ p.best = m /\ p.kept = o.kept /\ p.seen = o.seen
    BY <1>1, <2>2 DEF Found, NoRequest
  <2>5. Steady(o) => hit
    BY <1>1, <1>6, <1>9
  <2>6. Steady(o) => m \in o.seen
    BY <1>5, <2>1, <2>5
  <2>7. Informed(p)
    BY <1>3, <2>4, <2>6 DEF Informed, Choosing, Steady
  <2>8. \A x \in Requests : Informed(req[x])'
    BY <1>2, <2>3, <2>7, OthersInformed DEF monitorVars
  <2>9. \A g \in Gens : ~flipped[g]' => AllUp(g)'
    <3>1. p.st \notin Choosing
      BY <2>4 DEF Choosing
    <3> QED BY <1>2, <2>3, <3>1, AllUpStays DEF monitorVars
  <2>10. m \in Members
    BY <1>1, <2>1, MemberFacts
  <2>11. tally \in [Gens -> [Members -> Nat]]
    BY DEF HealthIInv, HistoryOK
  <2>12. \A g \in Gens, k \in Members :
           tally'[g][k] = IF g = o.gen /\ k = m THEN tally[g][k] + 1 ELSE tally[g][k]
    BY <1>1, <2>3, <2>10, <2>11
  <2>13. HistoryOK' /\ \A g \in Gens, k \in Members : Streaks(g, k)'
    <3>1. tally' \in [Gens -> [Members -> Nat]]
      BY <1>1, <2>3, <2>10, <2>11
    <3> QED BY <1>2, <3>1 DEF HealthIInv, HistoryOK, Streaks, monitorVars
  <2>14. \A x \in Requests : req'[x] = IF x = r THEN p ELSE req[x]
    BY <1>8, <2>3
  <2>15. ASSUME NEW g \in Gens, NEW k \in Members
         PROVE  DueTo(g, k)' = DueTo(g, k) \ {r}
    <3>1. ASSUME NEW x \in Requests, x # r PROVE x \in DueTo(g, k)' <=> x \in DueTo(g, k)
      BY <2>14, <3>1 DEF DueTo
    <3>2. r \notin DueTo(g, k)'
      BY <2>4, <2>14 DEF DueTo
    <3> QED BY <3>1, <3>2 DEF DueTo
  <2>16. ASSUME NEW g \in Gens, ~flipped[g] PROVE Shared(g)'
    <3>1. PICK a \in 0..rr[g], q \in 0..(TotalWeight - 1) :
            /\ rr[g] = a * TotalWeight + q
            /\ \A k \in Members : tally[g][k] + Cardinality(DueTo(g, k)) = a * Weight[k] + Cardinality(Turned(q, k))
      BY <2>16 DEF HealthIInv, Shared
    <3>2. ASSUME NEW k \in Members
          PROVE  tally'[g][k] + Cardinality(DueTo(g, k)') = tally[g][k] + Cardinality(DueTo(g, k))
      <4>1. /\ IsFiniteSet(DueTo(g, k)) /\ Cardinality(DueTo(g, k)) \in Nat /\ tally[g][k] \in Nat
        BY <2>11, DueFinite
      <4>2. CASE g = o.gen /\ k = m
        <5>1. hit /\ m = o.at
          BY <1>7, <2>1, <2>5, <2>16, <4>2
        <5>2. Steady(o)
          BY <1>7, <2>16, <4>2
        <5>3. Lands(Before(o.at) + o.idx, k)
          <6>1. 0 <= o.idx /\ o.idx < Weight[o.at] /\ Before(o.at) \in Nat
            BY <1>1, <1>3, <1>4, <5>1, <5>2, BeforeFacts DEF Within
          <6> QED BY <1>1, <4>2, <5>1, <6>1 DEF Lands
        <5>4. r \in DueTo(g, k)
          BY <1>1, <4>2, <5>3 DEF DueTo
        <5>5. Cardinality(DueTo(g, k) \ {r}) = Cardinality(DueTo(g, k)) - 1
          BY <4>1, <5>4, FS_RemoveElement
        <5>6. DueTo(g, k)' = DueTo(g, k) \ {r}
          BY <2>15
        <5>7. tally'[g][k] = tally[g][k] + 1
          BY <2>12, <4>2
        <5>8. Cardinality(DueTo(g, k)') = Cardinality(DueTo(g, k)) - 1
          BY <5>5, <5>6
        <5> QED BY <4>1, <5>7, <5>8
      <4>3. CASE ~(g = o.gen /\ k = m)
        <5>1. r \notin DueTo(g, k)
          <6>1. CASE g # o.gen
            BY <6>1 DEF DueTo
          <6>2. CASE g = o.gen /\ k # m
            <7>1. hit /\ m = o.at /\ Steady(o)
              BY <1>7, <2>1, <2>5, <2>16, <6>2
            <7>2. PICK i \in Int : i = Before(o.at) + o.idx
              BY <1>1, BeforeFacts
            <7>3. Lands(i, m)
              <8>1. 0 <= o.idx /\ o.idx < Weight[o.at] /\ Before(o.at) \in Nat
                BY <1>1, <1>3, <1>4, <7>1, BeforeFacts DEF Within
              <8> QED BY <1>1, <7>1, <7>2, <8>1 DEF Lands
            <7>4. ~Lands(i, k)
              BY <2>10, <6>2, <7>3, LandsOnOne
            <7> QED BY <7>2, <7>4 DEF DueTo
          <6> QED BY <4>3, <6>1, <6>2
        <5>2. DueTo(g, k)' = DueTo(g, k)
          BY <2>15, <5>1
        <5>3. tally'[g][k] = tally[g][k]
          BY <2>12, <4>3
        <5> QED BY <5>2, <5>3
      <4> QED BY <4>2, <4>3
    <3>3. rr' = rr
      BY <1>2
    <3>4. \A k \in Members : tally'[g][k] + Cardinality(DueTo(g, k)') = a * Weight[k] + Cardinality(Turned(q, k))
      BY <3>1, <3>2
    <3> QED BY <3>1, <3>3, <3>4 DEF Shared
  <2>17. flipped' = flipped
    BY <1>2 DEF monitorVars
  <2> QED BY <2>8, <2>9, <2>13, <2>16, <2>17 DEF HealthIInv
<1>10. CASE ~(hit \/ o.at = N)
  <2>1. PICK i : i = IF Eligible(o, o.at) THEN o.idx - Weight[o.at] ELSE o.idx
    OBVIOUS
  <2>2. PICK p : p = [o EXCEPT !.at = @ + 1, !.idx = i]
    OBVIOUS
  <2>3. req' = [req EXCEPT ![r] = p] /\ tally' = tally
    <3>1. req' = [req EXCEPT ![r].at = @ + 1,
                             ![r].idx = IF Eligible(o, o.at) THEN @ - Weight[o.at] ELSE @] /\ tally' = tally
      BY <1>10 DEF Weigh
    <3>2. req \in [Requests -> Progress]
      BY DEF PoolIInv, TypeOK
    <3>3. [req EXCEPT ![r].at = @ + 1, ![r].idx = IF Eligible(o, o.at) THEN @ - Weight[o.at] ELSE @]
            = [req EXCEPT ![r] = [o EXCEPT !.at = @ + 1, !.idx = i]]
      BY <1>1, <2>1, <3>2 DEF Progress
    <3> QED BY <2>2, <3>1, <3>3
  <2>4. /\ p.st = "weigh" /\ p.at = o.at + 1 /\ p.gen = o.gen /\ p.only = o.only /\ p.kept = o.kept
        /\ p.seen = o.seen /\ p.idx = i
    BY <1>1, <2>2 DEF NoRequest
  <2>5. Steady(o) => o.only /\ i \in 0..(Share(Ahead(o.kept, o.at + 1)) - 1)
    BY <1>3, <1>6, <1>10, <2>1
  <2>6. Informed(p)
    BY <1>3, <2>4, <2>5 DEF Informed, Steady
  <2>7. \A x \in Requests : Informed(req[x])'
    BY <1>2, <2>3, <2>6, OthersInformed DEF monitorVars
  <2>8. \A g \in Gens : ~flipped[g]' => AllUp(g)'
    BY <1>1, <1>2, <2>3, <2>4, AllUpStays DEF monitorVars
  <2>9. HistoryOK' /\ \A g \in Gens, k \in Members : Streaks(g, k)'
    BY <1>2, <2>3 DEF HealthIInv, HistoryOK, Streaks, monitorVars
  <2>10. \A x \in Requests : req'[x] = IF x = r THEN p ELSE req[x]
    BY <1>8, <2>3
  <2>11. ASSUME ~flipped[o.gen] PROVE Before(p.at) + p.idx = Before(o.at) + o.idx
    <3>1. i = o.idx - Weight[o.at]
      BY <1>7, <2>1, <2>11
    <3>2. Before(o.at + 1) = Before(o.at) + Weight[o.at] /\ Before(o.at) \in Nat
      BY <1>1, BeforeFacts
    <3>3. PICK b, c, w, d : b = Before(o.at) /\ c = Before(p.at) /\ w = Weight[o.at] /\ d = o.idx
      OBVIOUS
    <3>4. c = b + w /\ i = d - w /\ b \in Nat /\ w \in Nat /\ d \in Int
      BY <1>1, <2>4, <3>1, <3>2, <3>3
    <3>5. c + i = b + d
      BY ONLY <3>4
    <3> QED BY <2>4, <3>3, <3>5
  <2>12. ASSUME NEW g \in Gens, ~flipped[g], NEW k \in Members PROVE DueTo(g, k)' = DueTo(g, k)
    <3>1. ASSUME NEW x \in Requests, x # r PROVE x \in DueTo(g, k)' <=> x \in DueTo(g, k)
      BY <2>10, <3>1 DEF DueTo
    <3>2. r \in DueTo(g, k)' <=> r \in DueTo(g, k)
      <4>1. CASE g = o.gen
        <5>1. Before(p.at) + p.idx = Before(o.at) + o.idx
          BY <2>11, <2>12, <4>1
        <5>2. req'[r] = p /\ p.st = "weigh" /\ o.st = "weigh" /\ p.gen = o.gen
          BY <1>1, <2>4, <2>10
        <5> QED BY <4>1, <5>1, <5>2 DEF DueTo
      <4>2. CASE g # o.gen
        BY <2>4, <2>10, <4>2 DEF DueTo
      <4> QED BY <4>1, <4>2
    <3> QED BY <3>1, <3>2 DEF DueTo
  <2>13. flipped' = flipped
    BY <1>2 DEF monitorVars
  <2>14. \A g \in Gens : ~flipped[g]' => Shared(g)'
    BY <1>2, <2>3, <2>12, <2>13, SharesStay
  <2> QED BY <2>7, <2>8, <2>9, <2>14 DEF HealthIInv
<1> QED BY <1>9, <1>10

(* A probe changes what the requests of its generation know.               *)
LEMMA ProbeInforms ==
  ASSUME PoolIInv, HealthIInv, NEW g \in Gens, NEW alive \in BOOLEAN, Probe(g, alive)
  PROVE  HealthIInv'
<1>1. PICK m, up, down : /\ m = turn[g] /\ up = Streak(ok[g][m], alive, Rise)
                         /\ down = Streak(bad[g][m], ~alive, Fall)
  OBVIOUS
<1>2. PICK flag : flag = IF alive THEN healthy[g][m] \/ up = Rise ELSE healthy[g][m] /\ down < Fall
  OBVIOUS
<1>3. m \in Members /\ healthy \in [Gens -> [Members -> BOOLEAN]] /\ flipped \in [Gens -> BOOLEAN]
  BY <1>1 DEF PoolIInv, TypeOK, HealthIInv, HistoryOK
<1>4. flag \in BOOLEAN
  <2>1. healthy[g][m] \in BOOLEAN
    BY <1>3
  <2>2. (healthy[g][m] \/ up = Rise) \in BOOLEAN /\ (healthy[g][m] /\ down < Fall) \in BOOLEAN
    OBVIOUS
  <2> QED BY <1>2, <2>2
<1>5. /\ healthy' = [healthy EXCEPT ![g][m] = flag]
      /\ flipped' = [flipped EXCEPT ![g] = @ \/ flag # healthy[g][m]]
      /\ req' = [r \in Requests |->
             IF req[r].st \in Choosing /\ req[r].gen = g
             THEN IF flag THEN [req[r] EXCEPT !.seen = @ \cup {m}]
                          ELSE [req[r] EXCEPT !.kept = @ \ {m}]
             ELSE req[r]]
  BY <1>1, <1>2 DEF Probe
<1>6. UNCHANGED <<method, rr, tally>>
  BY DEF Probe, poolVars
<1>7. /\ \A h \in Gens, k \in Members : healthy'[h][k] = IF h = g /\ k = m THEN flag ELSE healthy[h][k]
      /\ \A h \in Gens : h # g => Up(h)' = Up(h)
      /\ Up(g)' = IF flag THEN Up(g) \cup {m} ELSE Up(g) \ {m}
  <2>1. \A h \in Gens, k \in Members : healthy'[h][k] = IF h = g /\ k = m THEN flag ELSE healthy[h][k]
    BY <1>3, <1>5
  <2> QED BY <1>3, <2>1 DEF Up
<1>8. ASSUME NEW x \in Requests
      PROVE  /\ req'[x].st = req[x].st /\ req'[x].gen = req[x].gen /\ req'[x].at = req[x].at
             /\ req'[x].only = req[x].only /\ req'[x].n = req[x].n /\ req'[x].idx = req[x].idx
             /\ req'[x].best = req[x].best
             /\ req'[x].kept = (IF req[x].st \in Choosing /\ req[x].gen = g /\ ~flag
                                THEN req[x].kept \ {m} ELSE req[x].kept)
             /\ req'[x].seen = (IF req[x].st \in Choosing /\ req[x].gen = g /\ flag
                                THEN req[x].seen \cup {m} ELSE req[x].seen)
  <2>1. DOMAIN req[x] = DOMAIN NoRequest
    <3>1. req[x] \in Progress
      BY DEF PoolIInv, TypeOK
    <3> QED BY <3>1 DEF Progress, NoRequest
  <2>2. CASE ~(req[x].st \in Choosing /\ req[x].gen = g)
    <3>1. req'[x] = req[x]
      BY <1>5, <2>2
    <3> QED BY <2>2, <3>1
  <2>3. CASE req[x].st \in Choosing /\ req[x].gen = g /\ flag
    <3>1. req'[x] = [req[x] EXCEPT !.seen = @ \cup {m}]
      BY <1>5, <2>3
    <3> QED BY <2>1, <2>3, <3>1 DEF NoRequest
  <2>4. CASE req[x].st \in Choosing /\ req[x].gen = g /\ ~flag
    <3>1. req'[x] = [req[x] EXCEPT !.kept = @ \ {m}]
      BY <1>5, <2>4
    <3> QED BY <2>1, <2>4, <3>1 DEF NoRequest
  <2> QED BY <2>2, <2>3, <2>4
<1>9. ASSUME NEW x \in Requests PROVE Informed(req[x])'
  <2>1. PICK o, p : o = req[x] /\ p = req'[x]
    OBVIOUS
  <2>2. /\ p.st = o.st /\ p.gen = o.gen /\ p.at = o.at /\ p.only = o.only /\ p.n = o.n /\ p.idx = o.idx
        /\ p.best = o.best
        /\ p.kept = (IF o.st \in Choosing /\ o.gen = g /\ ~flag THEN o.kept \ {m} ELSE o.kept)
        /\ p.seen = (IF o.st \in Choosing /\ o.gen = g /\ flag THEN o.seen \cup {m} ELSE o.seen)
    BY <1>8, <2>1
  <2>3. Informed(o) /\ o.gen \in Gens
    <3>1. Informed(o)
      BY <2>1 DEF HealthIInv
    <3>2. o \in Progress
      BY <2>1 DEF PoolIInv, TypeOK
    <3> QED BY <3>1, <3>2 DEF Progress
  <2>4. o.st \in Choosing => o.kept \subseteq Up(o.gen) /\ Up(o.gen) \subseteq o.seen
    BY <2>3 DEF Informed
  <2>5. o.st \in Choosing => p.kept \subseteq Up(o.gen)' /\ Up(o.gen)' \subseteq p.seen
    <3>1. CASE o.gen = g /\ flag
      BY <1>7, <2>2, <2>4, <3>1
    <3>2. CASE o.gen = g /\ ~flag
      BY <1>7, <2>2, <2>4, <3>2
    <3>3. CASE o.gen # g
      BY <1>7, <2>2, <2>3, <2>4, <3>3
    <3> QED BY <3>1, <3>2, <3>3
  <2>6. p.kept \subseteq o.kept /\ o.seen \subseteq p.seen
    BY <2>2
  <2>7. o.st \in Choosing /\ p.kept = p.seen => p.kept = o.kept /\ o.kept = o.seen
    <3>1. CASE o.gen = g /\ flag
      BY <2>2, <2>4, <3>1
    <3>2. CASE o.gen = g /\ ~flag
      BY <2>2, <2>4, <3>2
    <3>3. CASE o.gen # g
      BY <2>2, <3>3
    <3> QED BY <3>1, <3>2, <3>3
  <2>8. Behind(p.kept, o.at) \subseteq Behind(o.kept, o.at)
    BY <2>6 DEF Behind
  <2>9. method' = method /\ Up(p.gen)' = Up(o.gen)'
    <3>1. p.gen = o.gen
      BY <2>2
    <3> QED BY <1>6, <3>1
  <2>10. CASE o.st \in Choosing
    <3>1. Steady(p) => Steady(o) /\ p.kept = o.kept
      BY <2>7, <2>10 DEF Steady
    <3>2. CASE o.st = "count"
      <4>1. o.best = 0 /\ (Behind(o.kept, o.at) # {} => o.n > 0) /\ (o.kept = o.seen => o.n = Cardinality(Behind(o.kept, o.at)))
        BY <2>3, <3>2 DEF Informed
      <4>2. o.best = 0 /\ (Behind(p.kept, o.at) # {} => o.n > 0) /\ (p.kept = p.seen => o.n = Cardinality(Behind(p.kept, o.at)))
        BY <2>7, <2>8, <2>10, <4>1
      <4>3. Informed(p)'
        BY <2>2, <2>5, <2>9, <3>2, <4>2 DEF Informed
      <4> QED BY <2>1, <4>3
    <3>3. CASE o.st = "least"
      <4>1. /\ method = "least_conn"
            /\ o.kept # {} => /\ o.only /\ (o.best # 0 => o.best \in o.seen)
                              /\ Behind(o.kept, o.at) # {} => o.best # 0
        BY <2>3, <3>3 DEF Informed
      <4>2. p.kept # {} => /\ o.only /\ (o.best # 0 => o.best \in p.seen)
                           /\ Behind(p.kept, o.at) # {} => o.best # 0
        BY <2>6, <2>8, <4>1
      <4>3. Informed(p)'
        BY <2>2, <2>5, <2>9, <3>3, <4>1, <4>2 DEF Informed
      <4> QED BY <2>1, <4>3
    <3>4. CASE o.st = "nth"
      <4>1. /\ method \in {"ip_hash", "random"}
            /\ Steady(o) => o.only /\ o.idx \in 0..(Cardinality(Ahead(o.kept, o.at)) - 1)
        BY <2>3, <3>4 DEF Informed
      <4>2. Steady(p) => o.only /\ o.idx \in 0..(Cardinality(Ahead(p.kept, o.at)) - 1)
        BY <3>1, <4>1
      <4>3. Informed(p)'
        BY <2>2, <2>5, <2>9, <3>4, <4>1, <4>2 DEF Informed
      <4> QED BY <2>1, <4>3
    <3>5. CASE o.st = "total"
      <4>1. /\ method = "round_robin"
            /\ Steady(o) => o.only /\ o.n = Share(Behind(o.kept, o.at))
        BY <2>3, <3>5 DEF Informed
      <4>2. Steady(p) => o.only /\ o.n = Share(Behind(p.kept, o.at))
        BY <3>1, <4>1
      <4>3. Informed(p)'
        BY <2>2, <2>5, <2>9, <3>5, <4>1, <4>2 DEF Informed
      <4> QED BY <2>1, <4>3
    <3>6. CASE o.st = "weigh"
      <4>1. /\ method = "round_robin"
            /\ Steady(o) => o.only /\ o.idx \in 0..(Share(Ahead(o.kept, o.at)) - 1)
        BY <2>3, <3>6 DEF Informed
      <4>2. Steady(p) => o.only /\ o.idx \in 0..(Share(Ahead(p.kept, o.at)) - 1)
        BY <3>1, <4>1
      <4>3. Informed(p)'
        BY <2>2, <2>5, <2>9, <3>6, <4>1, <4>2 DEF Informed
      <4> QED BY <2>1, <4>3
    <3> QED BY <2>10, <3>2, <3>3, <3>4, <3>5, <3>6 DEF Choosing
  <2>11. CASE o.st \notin Choosing
    <3>1. p.kept = o.kept /\ p.seen = o.seen /\ p.st = o.st /\ p.best = o.best
      BY <2>2, <2>11
    <3>2. o.st = "picked" /\ o.kept # {} /\ (method = "least_conn" \/ o.kept = o.seen) => o.best \in o.seen
      BY <2>3 DEF Informed
    <3>3. Informed(p)'
      BY <2>9, <2>11, <3>1, <3>2 DEF Informed, Choosing
    <3> QED BY <2>1, <3>3
  <2> QED BY <2>10, <2>11
<1>10. ASSUME NEW h \in Gens, ~flipped'[h] PROVE ~flipped[h] /\ AllUp(h)'
  <2>1. flipped'[h] = IF h = g THEN flipped[g] \/ flag # healthy[g][m] ELSE flipped[h]
    BY <1>3, <1>5
  <2>2. ~flipped[h] /\ (h = g => flag = healthy[g][m])
    BY <1>10, <2>1
  <2>3. Up(h) = Members /\ \A x \in Requests : req[x].st \in Choosing /\ req[x].gen = h => req[x].kept = Members
    BY <2>2 DEF HealthIInv, AllUp
  <2>4. h = g => flag
    BY <1>3, <2>2, <2>3 DEF Up
  <2>5. Up(h)' = Members
    BY <1>3, <1>7, <2>3, <2>4
  <2>6. ASSUME NEW x \in Requests, req'[x].st \in Choosing, req'[x].gen = h PROVE req'[x].kept = Members
    BY <1>8, <2>3, <2>4, <2>6
  <2> QED BY <2>2, <2>5, <2>6 DEF AllUp
<1>11. ASSUME NEW h \in Gens, ~flipped'[h] PROVE Shared(h)'
  <2>1. ASSUME NEW k \in Members PROVE DueTo(h, k)' = DueTo(h, k)
    BY <1>8 DEF DueTo
  <2>2. Shared(h)
    BY <1>10, <1>11 DEF HealthIInv
  <2>3. PICK a \in 0..rr[h], q \in 0..(TotalWeight - 1) :
          /\ rr[h] = a * TotalWeight + q
          /\ \A k \in Members : tally[h][k] + Cardinality(DueTo(h, k)) = a * Weight[k] + Cardinality(Turned(q, k))
    BY <2>2 DEF Shared
  <2>4. \A k \in Members : Cardinality(DueTo(h, k)') = Cardinality(DueTo(h, k))
    BY <2>1
  <2>5. \A k \in Members : tally'[h][k] + Cardinality(DueTo(h, k)') = a * Weight[k] + Cardinality(Turned(q, k))
    BY <1>6, <2>3, <2>4
  <2> QED BY <1>6, <2>3, <2>5 DEF Shared
<1>12. HistoryOK' /\ \A h \in Gens, k \in Members : Streaks(h, k)'
  <2>1. HistoryOK /\ \A h \in Gens, k \in Members : Streaks(h, k)
    BY DEF HealthIInv
  <2>2. trail' \in [Gens -> [Members -> Seq(BOOLEAN)]] /\ \A h \in Gens, k \in Members : Streaks(h, k)'
    BY <2>1, ProbeStreaks
  <2>3. flipped' \in [Gens -> BOOLEAN]
    <3>1. (flipped[g] \/ flag # healthy[g][m]) \in BOOLEAN
      OBVIOUS
    <3> QED BY <1>3, <1>5, <3>1
  <2> QED BY <1>6, <2>1, <2>2, <2>3 DEF HistoryOK
<1> QED BY <1>9, <1>10, <1>11, <1>12 DEF HealthIInv

(* A new generation, and nothing at all.                                   *)
LEMMA NothingInforms ==
  ASSUME HealthIInv, UNCHANGED <<method, monitorVars, rr, req, tally>>
  PROVE  HealthIInv'
<1>1. UNCHANGED <<healthy, ok, bad, trail, flipped>>
  BY DEF monitorVars
<1>2. ASSUME NEW r \in Requests PROVE Informed(req[r])'
  <2>1. Informed(req[r])
    BY DEF HealthIInv
  <2>2. PICK q : q = req[r]
    OBVIOUS
  <2>3. Up(q.gen)' = Up(q.gen)
    BY <1>1 DEF Up
  <2>4. Informed(q)'
    BY <2>1, <2>2, <2>3 DEF Informed
  <2> QED BY <2>2, <2>4
<1>3. ASSUME NEW g \in Gens, ~flipped[g] PROVE AllUp(g)'
  <2>1. AllUp(g)
    BY <1>3 DEF HealthIInv
  <2> QED BY <1>1, <2>1 DEF AllUp, Up
<1>4. \A g \in Gens, m \in Members : DueTo(g, m)' = DueTo(g, m)
  BY DEF DueTo
<1>5. \A g \in Gens : ~flipped[g]' => Shared(g)'
  BY <1>1, <1>4, SharesStay
<1>6. HistoryOK' /\ \A g \in Gens, m \in Members : Streaks(g, m)'
  BY <1>1 DEF HealthIInv, HistoryOK, Streaks
<1> QED BY <1>1, <1>2, <1>3, <1>5, <1>6 DEF HealthIInv

(* A fresh pool.                                                           *)
LEMMA FreshHealth == Init => HealthIInv
<1> SUFFICES ASSUME Init PROVE HealthIInv
  OBVIOUS
<1>1. /\ \A r \in Requests : req[r] = NoRequest
      /\ \A g \in Gens, m \in Members : /\ healthy[g][m] = TRUE /\ ok[g][m] = 0 /\ bad[g][m] = 0
                                        /\ trail[g][m] = <<>> /\ tally[g][m] = 0
      /\ \A g \in Gens : rr[g] = 0 /\ flipped[g] = FALSE
  BY DEF Init, Each
<1>2. NoRequest.st = "none"
  BY DEF NoRequest
<1>3. \A r \in Requests : Informed(req[r])
  BY <1>1, <1>2 DEF Informed, Choosing
<1>4. \A g \in Gens : AllUp(g)
  BY <1>1, <1>2 DEF AllUp, Up, Choosing
<1>5. ASSUME NEW g \in Gens PROVE Shared(g)
  <2>1. \A m \in Members : DueTo(g, m) = {}
    BY <1>1, <1>2 DEF DueTo
  <2>2. PICK z : z = 0
    OBVIOUS
  <2>3. z \in 0..rr[g] /\ z \in 0..(TotalWeight - 1) /\ rr[g] = z * TotalWeight + z
    BY <1>1, <2>2, ShareFacts
  <2>4. \A m \in Members : tally[g][m] + Cardinality(DueTo(g, m)) = z * Weight[m] + Cardinality(Turned(z, m))
    <3> SUFFICES ASSUME NEW m \in Members
                 PROVE  tally[g][m] + Cardinality(DueTo(g, m)) = z * Weight[m] + Cardinality(Turned(z, m))
      OBVIOUS
    <3>1. Cardinality(DueTo(g, m)) = 0
      BY <2>1, FS_EmptySet
    <3>2. Cardinality(Turned(z, m)) = 0
      BY <2>2, TurnedGrows
    <3>3. Weight[m] \in Nat
      BY MemberFacts
    <3>4. z * Weight[m] = 0
      BY <2>2, <3>3
    <3> QED BY <1>1, <3>1, <3>2, <3>4
  <2> QED BY <2>3, <2>4 DEF Shared
<1>6. ASSUME NEW g \in Gens, NEW m \in Members PROVE Streaks(g, m)
  <2>1. PICK t, z : t = <<>> /\ z = 0
    OBVIOUS
  <2>2. Len(t) = 0
    BY <2>1
  <2>3. Ends(t, z, TRUE) /\ Ends(t, z, FALSE)
    BY <2>1, <2>2 DEF Ends
  <2>4. trail[g][m] = t /\ ok[g][m] = z /\ bad[g][m] = z
    BY <1>1, <2>1
  <2>5. Len(t) <= Rise + Fall
    BY <2>2, PoolAssumption
  <2> QED BY <2>3, <2>4, <2>5 DEF Streaks
<1>7. HistoryOK
  BY DEF Init, Each, HistoryOK
<1> QED BY <1>3, <1>4, <1>5, <1>6, <1>7 DEF HealthIInv

(* What is known of the preferred members holds in every state.            *)
THEOREM HealthInvariant == Spec => []HealthIInv
<1>1. ASSUME PoolIInv, HealthIInv, [Next]_vars PROVE HealthIInv'
  <2>1. CASE Apply
    BY <1>1, <2>1, NothingInforms DEF Apply
  <2>2. ASSUME NEW g \in Gens, NEW alive \in BOOLEAN, Probe(g, alive) PROVE HealthIInv'
    BY <1>1, <2>2, ProbeInforms
  <2>3. ASSUME NEW r \in Requests, Start(r) PROVE HealthIInv'
    BY <1>1, <2>3, StartInforms
  <2>4. ASSUME NEW r \in Requests, Count(r) PROVE HealthIInv'
    BY <1>1, <2>4, CountInforms
  <2>5. ASSUME NEW r \in Requests, Least(r) PROVE HealthIInv'
    BY <1>1, <2>5, LeastInforms
  <2>6. ASSUME NEW r \in Requests, Nth(r) PROVE HealthIInv'
    BY <1>1, <2>6, NthInforms
  <2>7. ASSUME NEW r \in Requests, Total(r) PROVE HealthIInv'
    BY <1>1, <2>7, TotalInforms
  <2>8. ASSUME NEW r \in Requests, Weigh(r) PROVE HealthIInv'
    BY <1>1, <2>8, WeighInforms
  <2>9. ASSUME NEW r \in Requests, Send(r) \/ Answer(r) \/ Close(r) PROVE HealthIInv'
    BY <1>1, <2>9, AfterKeeps
  <2>10. CASE UNCHANGED vars
    BY <1>1, <2>10, NothingInforms DEF vars, monitorVars
  <2> QED BY <1>1, <2>1, <2>2, <2>3, <2>4, <2>5, <2>6, <2>7, <2>8, <2>9, <2>10 DEF Next
<1> QED BY <1>1, FreshHealth, PoolInvariant, PTL DEF Spec

(* Whole turns are shared by weight.                                       *)
LEMMA TurnsAreShared ==
  ASSUME PoolIInv, HealthIInv
  PROVE  WeightedShare
<1> SUFFICES ASSUME NEW g \in Gens, ~flipped[g], \A r \in Requests : ~(req[r].st = "weigh" /\ req[r].gen = g),
                    rr[g] % TotalWeight = 0, NEW m \in Members
             PROVE  tally[g][m] * TotalWeight = rr[g] * Weight[m]
  BY DEF WeightedShare
<1>1. PICK a \in 0..rr[g], p \in 0..(TotalWeight - 1) :
        /\ rr[g] = a * TotalWeight + p
        /\ tally[g][m] + Cardinality(DueTo(g, m)) = a * Weight[m] + Cardinality(Turned(p, m))
  BY DEF HealthIInv, Shared
<1>2. PICK t \in Nat \ {0} : t = TotalWeight
  BY ShareFacts
<1>3. rr[g] \in Nat /\ a \in Nat
  BY DEF PoolIInv, TypeOK
<1>4. p = 0
  BY <1>1, <1>2, <1>3, TurnsAndRest
<1>5. Cardinality(DueTo(g, m)) = 0
  <2>1. DueTo(g, m) = {}
    BY DEF DueTo
  <2> QED BY <2>1, FS_EmptySet
<1>6. Cardinality(Turned(p, m)) = 0
  BY <1>4, TurnedGrows
<1>7. PICK w \in Nat : w = Weight[m]
  BY MemberFacts
<1>8. tally[g][m] \in Nat
  BY DEF HealthIInv, HistoryOK
<1>9. tally[g][m] = a * w /\ rr[g] = a * t
  BY <1>1, <1>2, <1>3, <1>4, <1>5, <1>6, <1>7, <1>8
<1>10. (a * w) * t = (a * t) * w
  BY ONLY a \in Nat, w \in Nat, t \in Nat
<1> QED BY <1>2, <1>3, <1>7, <1>9, <1>10

(* Only probes change health.                                              *)
LEMMA OnlyProbesFlip ==
  ASSUME PoolIInv, HealthIInv, [Next]_vars
  PROVE  [FlipsFollowStreaks]_vars
<1>1. ASSUME NEW g \in Gens, NEW alive \in BOOLEAN, Probe(g, alive) PROVE FlipsFollowStreaks
  BY <1>1, ProbeStreaks DEF HealthIInv
<1>2. ASSUME healthy' = healthy PROVE FlipsFollowStreaks
  BY <1>2 DEF FlipsFollowStreaks
<1>3. CASE Apply
  BY <1>2, <1>3 DEF Apply, monitorVars
<1>4. ASSUME NEW r \in Requests,
             Start(r) \/ Count(r) \/ Least(r) \/ Nth(r) \/ Total(r) \/ Weigh(r) \/ Send(r) \/ Answer(r) \/ Close(r)
      PROVE  healthy' = healthy
  BY <1>4 DEF Start, Count, Least, Nth, Total, Weigh, Send, Answer, Close, At, Move, monitorVars
<1> QED BY <1>1, <1>2, <1>3, <1>4 DEF Next

(* Requests follow health and weight, and health follows the probes: a     *)
(* member that stayed up is preferred, whole turns are shared by weight,   *)
(* and a flag changes only after as many results in a row as are required. *)
THEOREM HealthAlwaysFollowed == Spec => MembersFollowHealth
<1>1. HealthIInv => HealthyFirst
  BY DEF HealthIInv, HealthyFirst, Informed
<1>2. PoolIInv /\ HealthIInv => WeightedShare
  BY TurnsAreShared
<1>3. PoolIInv /\ HealthIInv /\ [Next]_vars => [FlipsFollowStreaks]_vars
  BY OnlyProbesFlip
<1> QED BY <1>1, <1>2, <1>3, PoolInvariant, HealthInvariant, PTL DEF Spec, MembersFollowHealth, Hysteresis

(***************************************************************************)
(* The limiter.                                                            *)
(***************************************************************************)

(* The tokens a bucket has now.                                            *)
Level(b) == IF b.last = -1 THEN Full
            ELSE Lesser(Full, b.tokens + (now - b.last) * Capacity)

Buckets == [tokens : Int, last : Nat]

(* A full bucket is a number of tokens.                                    *)
LEMMA FullIsNat == Full \in Nat /\ Capacity \in Nat /\ Window \in Nat \ {0}
  BY AbuseAssumption DEF Full

(* What a refill makes of an entry.                                        *)
LEMMA RefilledEntry ==
  ASSUME now \in Nat, NEW e \in Entries
  PROVE  /\ Refilled(e) \in Entries /\ Refilled(e).tokens = Level(e)
         /\ Refilled(e).last = now /\ Refilled(e).seen = e.seen
         /\ Refilled(e).active = e.active
         /\ Level(e) \in Int /\ Level(e) <= Full
<1>1. e.last \in Int /\ e.tokens \in Int /\ (now - e.last) * Capacity \in Int
  BY FullIsNat DEF Entries
<1>2. Level(e) \in Int /\ Level(e) <= Full
  BY <1>1, FullIsNat DEF Level, Lesser
<1>3. Refilled(e) = [tokens |-> Level(e), last |-> now, seen |-> e.seen, active |-> e.active]
  BY DEF Refilled, Level, Entries
<1> QED BY <1>2, <1>3 DEF Entries

(* And of a history bucket.                                                *)
LEMMA RefilledBucket ==
  ASSUME now \in Nat, NEW b \in Buckets
  PROVE  /\ Refilled(b) \in Buckets /\ Refilled(b).tokens = Level(b)
         /\ Refilled(b).last = now /\ Level(b) \in Int /\ Level(b) <= Full
<1>1. b.last \in Nat /\ b.tokens \in Int /\ (now - b.last) * Capacity \in Int
  BY FullIsNat DEF Buckets
<1>2. Level(b) \in Int /\ Level(b) <= Full
  BY <1>1, FullIsNat DEF Level, Lesser
<1>3. Refilled(b) = [b EXCEPT !.tokens = Level(b), !.last = now]
  BY DEF Refilled, Level, Buckets
<1>4. [b EXCEPT !.tokens = Level(b), !.last = now] \in Buckets
  BY <1>2 DEF Buckets
<1> QED BY <1>2, <1>3, <1>4 DEF Buckets

(* A tick refills every bucket by Capacity, up to a full one.              *)
LEMMA LaterTokens ==
  ASSUME NEW x \in Int, NEW l \in Int, NEW t \in Int
  PROVE  /\ (t - l) * Capacity \in Int
         /\ x + ((t + 1) - l) * Capacity = x + (t - l) * Capacity + Capacity
<1>1. Capacity \in Int
  BY FullIsNat
<1>2. \A a \in Int : (a + 1) * Capacity = a * Capacity + Capacity
  BY <1>1
<1>3. (t - l) \in Int /\ (t + 1) - l = (t - l) + 1
  OBVIOUS
<1> QED BY <1>1, <1>2, <1>3

(* After a window without an admission a bucket is full.                   *)
LEMMA FullAgain ==
  ASSUME now \in Nat, NEW b \in Buckets, b.tokens >= 0, now - b.last >= Window
  PROVE  Level(b) = Full
<1> DEFINE d == now - b.last
<1>1. d \in Nat /\ d >= Window /\ b.last # -1 /\ b.tokens \in Int
  BY FullIsNat DEF Buckets
<1> HIDE DEF d
<1>2. d * Capacity >= Window * Capacity /\ d * Capacity \in Int
  <2>1. (d - Window) * Capacity >= 0
    BY <1>1, FullIsNat
  <2>2. (d - Window) * Capacity = d * Capacity - Window * Capacity
    BY <1>1, FullIsNat
  <2> QED BY <1>1, <2>1, <2>2, FullIsNat
<1>3. Window * Capacity = Full
  BY FullIsNat DEF Full
<1>4. b.tokens + d * Capacity >= Full
  BY <1>1, <1>2, <1>3, FullIsNat
<1>5. Level(b) = Lesser(Full, b.tokens + d * Capacity)
  BY <1>1 DEF Level, d
<1> QED BY <1>1, <1>2, <1>4, <1>5, FullIsNat DEF Lesser

(* A table that forgot some of its idle entries.                           *)
Kept(s, t) == /\ DOMAIN t \subseteq DOMAIN s
              /\ t = [d \in DOMAIN t |-> s[d]]
              /\ \A d \in DOMAIN s \ DOMAIN t : Idle(s[d])

(* Pruning forgets all idle entries and no other.                          *)
LEMMA PrunedKeeps ==
  ASSUME NEW s
  PROVE  /\ Kept(s, Pruned(s))
         /\ \A d \in DOMAIN Pruned(s) : ~Idle(Pruned(s)[d])
  BY DEF Kept, Pruned, Restrict

(* Eviction, tried right after a prune, finds nothing left to evict: room  *)
(* is made by the prune or not at all.                                     *)
LEMMA ClearedKeeps ==
  ASSUME NEW s, s = [d \in DOMAIN s |-> s[d]]
  PROVE  Cleared(s) \in {s, Pruned(s)}
<1>1. {d \in DOMAIN Pruned(s) : Idle(Pruned(s)[d])} = {}
  BY PrunedKeeps
<1>2. Evicted(Pruned(s)) = Pruned(s)
  BY <1>1 DEF Evicted
<1> QED BY <1>2 DEF Cleared

(* So the table an arrival works on has forgotten idle entries only.       *)
LEMMA ArrivalKeeps ==
  ASSUME NEW s, s = [d \in DOMAIN s |-> s[d]], NEW c, NEW t, NEW t0 \in {s, Pruned(s)},
         t = IF c \in DOMAIN t0 THEN t0 ELSE Cleared(t0)
  PROVE  Kept(s, t)
<1>1. Kept(s, s) /\ Kept(s, Pruned(s))
  BY PrunedKeeps DEF Kept
<1>2. Pruned(s) = [d \in DOMAIN Pruned(s) |-> Pruned(s)[d]]
  BY DEF Pruned, Restrict
<1>3. Pruned(Pruned(s)) = Pruned(s)
  <2>1. {d \in DOMAIN Pruned(s) : ~Idle(Pruned(s)[d])} = DOMAIN Pruned(s)
    BY PrunedKeeps
  <2>2. Pruned(Pruned(s)) = [d \in DOMAIN Pruned(s) |-> Pruned(s)[d]]
    BY <2>1 DEF Pruned, Restrict
  <2> QED BY <1>2, <2>2
<1>4. t \in {s, Pruned(s)}
  BY <1>2, <1>3, ClearedKeeps
<1> QED BY <1>1, <1>4

(* The entry after an arrival: used now, and poorer by one admission if    *)
(* there was one.                                                          *)
LEMMA UsedEntry ==
  ASSUME now \in Nat, NEW k, NEW e \in Entries
  PROVE  /\ Used(k, e) \in Entries
         /\ Used(k, e).seen = now /\ Used(k, e).last \in {e.last, now}
         /\ Admits(k, e) /\ k = "http" => Used(k, e).active = e.active + 1
         /\ ~(Admits(k, e) /\ k = "http") => Used(k, e).active = e.active
         /\ Admits(k, e) => Level(Used(k, e)) = Level(e) - Window
         /\ ~Admits(k, e) => Level(Used(k, e)) = Level(e)
         /\ Admits(k, e) => Level(e) >= Window
         /\ Admits(k, e) /\ k = "http" => e.active + 1 <= MaxConcurrent
<1> DEFINE seen == [tokens |-> e.tokens, last |-> e.last, seen |-> now, active |-> e.active]
           full == [tokens |-> Level(e), last |-> now, seen |-> now, active |-> e.active]
           more == IF k = "http" THEN 1 ELSE 0
           spent == [tokens |-> Level(e) - Window, last |-> now, seen |-> now,
                     active |-> e.active + more]
<1>1. Level(e) \in Int /\ Level(e) <= Full /\ Refilled(e).tokens = Level(e)
  BY RefilledEntry
<1>2. seen \in Entries /\ full \in Entries /\ spent \in Entries
  BY <1>1, FullIsNat DEF Entries
<1>3. [e EXCEPT !.seen = now] = seen
  BY DEF Entries
<1>4. Level(seen) = Level(e)
  BY DEF Level
<1>5. Refilled(seen) = full
  <2>1. /\ Refilled(seen) \in Entries /\ Refilled(seen).tokens = Level(e)
        /\ Refilled(seen).last = now /\ Refilled(seen).seen = now
        /\ Refilled(seen).active = e.active
    BY <1>2, <1>4, RefilledEntry
  <2> HIDE DEF seen
  <2> QED BY <2>1 DEF Entries
<1>6. Used(k, e) = IF Busy(k, e) THEN seen ELSE IF ~Admits(k, e) THEN full ELSE spent
  <2>1. [full EXCEPT !.tokens = @ - Window, !.active = @ + more] = spent
    <3> DEFINE l == Level(e)
               a == e.active
               paid == [tokens |-> l - Window, last |-> now, seen |-> now, active |-> a]
    <3> HIDE DEF more, l, a
    <3>1. [full EXCEPT !.tokens = @ - Window] = paid
      BY DEF l, a
    <3>2. [paid EXCEPT !.active = @ + more] = spent
      BY DEF l, a
    <3>3. [full EXCEPT !.tokens = @ - Window, !.active = @ + more]
          = [[full EXCEPT !.tokens = @ - Window] EXCEPT !.active = @ + more]
      <4> HIDE DEF full
      <4> QED OBVIOUS
    <3> QED BY <3>1, <3>2, <3>3
  <2> QED BY <1>3, <1>5, <2>1 DEF Used
<1>7. Level(full) = Level(e) /\ Level(spent) = Level(e) - Window
  <2>1. now # -1 /\ (now - now) * Capacity = 0
    BY FullIsNat
  <2>2. Lesser(Full, Level(e) + 0) = Level(e)
    BY <1>1, FullIsNat DEF Lesser
  <2>3. Lesser(Full, (Level(e) - Window) + 0) = Level(e) - Window
    BY <1>1, FullIsNat DEF Lesser
  <2>4. Level(full) = Lesser(Full, Level(e) + (now - now) * Capacity)
    BY <2>1 DEF Level
  <2>5. Level(spent) = Lesser(Full, (Level(e) - Window) + (now - now) * Capacity)
    BY <2>1 DEF Level
  <2> QED BY <2>1, <2>2, <2>3, <2>4, <2>5
<1>8. Admits(k, e) => /\ ~Busy(k, e) /\ Level(e) >= Window
                      /\ k = "http" => e.active + 1 <= MaxConcurrent
  <2>1. e.active \in Nat /\ MaxConcurrent \in Nat
    BY AbuseAssumption DEF Entries
  <2> QED BY <1>1, <2>1 DEF Admits, Busy
<1>9. Busy(k, e) => ~Admits(k, e)
  BY DEF Admits
<1>10. CASE Busy(k, e)
  BY <1>2, <1>4, <1>6, <1>9, <1>10
<1>11. CASE ~Busy(k, e) /\ ~Admits(k, e)
  BY <1>2, <1>6, <1>7, <1>11
<1>12. CASE ~Busy(k, e) /\ Admits(k, e)
  <2>1. e.active \in Nat
    BY DEF Entries
  <2> QED BY <1>2, <1>6, <1>7, <1>8, <1>12, <2>1
<1> QED BY <1>10, <1>11, <1>12

(* The history bucket after an admission.                                  *)
LEMMA SpentBucket ==
  ASSUME now \in Nat, NEW b \in Buckets
  PROVE  LET u == [Refilled(b) EXCEPT !.tokens = @ - Window]
         IN /\ u \in Buckets /\ u.last = now
            /\ u.tokens = Level(b) - Window /\ Level(u) = Level(b) - Window
<1>1. /\ Refilled(b) \in Buckets /\ Refilled(b).tokens = Level(b)
      /\ Refilled(b).last = now /\ Level(b) \in Int /\ Level(b) <= Full
  BY RefilledBucket
<1> DEFINE u == [tokens |-> Level(b) - Window, last |-> now]
<1>2. [Refilled(b) EXCEPT !.tokens = @ - Window] = u
  BY <1>1 DEF Buckets
<1>3. u \in Buckets
  BY <1>1, FullIsNat DEF Buckets
<1>4. Level(u) = Level(b) - Window
  <2>1. now # -1 /\ (now - now) * Capacity = 0
    BY FullIsNat
  <2>2. Lesser(Full, (Level(b) - Window) + 0) = Level(b) - Window
    BY <1>1, FullIsNat DEF Lesser
  <2>3. Level(u) = Lesser(Full, (Level(b) - Window) + (now - now) * Capacity)
    BY <2>1 DEF Level
  <2> QED BY <2>1, <2>2, <2>3
<1> QED BY <1>2, <1>3, <1>4

(* While the clock stands still, levels do.                                *)
LEMMA SameNow ==
  ASSUME now' = now
  PROVE  \A b : Level(b)' = Level(b) /\ Refilled(b)' = Refilled(b)
  BY DEF Level, Refilled

(* The limiter starts empty.                                               *)
LEMMA AbuseStarts == AbuseInit => AbuseIInv
<1> SUFFICES ASSUME AbuseInit PROVE AbuseIInv
  OBVIOUS
<1>1. now \in Nat /\ own \in [Clients -> Nat] /\ sharing \in Nat
  BY DEF AbuseInit
<1>2. table = [k \in Kinds |-> [c \in {} |-> Entry(0)]]
  BY DEF AbuseInit
<1>3. \A k \in Kinds : DOMAIN table[k] = {} /\ table[k] \in [{} -> Entries]
  BY <1>2
<1>4. table = [k \in Kinds |-> table[k]]
  BY <1>2
<1>5. overflow \in [Kinds -> Entries]
  <2>1. Entry(-1) \in Entries
    BY FullIsNat DEF Entry, Entries
  <2> QED BY <2>1 DEF AbuseInit
<1>6. ideal = [k \in Kinds |-> [c \in Clients |-> [tokens |-> Full, last |-> 0]]]
  BY DEF AbuseInit
<1>7. [tokens |-> Full, last |-> 0] \in Buckets
  BY FullIsNat DEF Buckets
<1>8. AbuseTypeOK
  BY <1>1, <1>3, <1>4, <1>5, <1>6, <1>7, FS_EmptySet DEF AbuseTypeOK, Buckets
<1>9. Refilled([tokens |-> Full, last |-> 0]).tokens = Full
  <2>1. Level([tokens |-> Full, last |-> 0]) = Full
    BY FullIsNat DEF Level, Lesser, AbuseInit
  <2> QED BY <1>1, <1>7, <2>1, RefilledBucket
<1>10. ConcurrencyLimit
  <2>1. "http" \in Kinds /\ MaxConcurrent \in Nat
    BY AbuseAssumption DEF Kinds
  <2>2. overflow["http"].active = 0
    BY <2>1 DEF AbuseInit, Entry
  <2> QED BY <1>3, <2>1, <2>2 DEF AbuseInit, ConcurrencyLimit
<1>11. EvictionInvisible
  BY <1>3, FS_EmptySet, AbuseAssumption DEF EvictionInvisible
<1> QED
  <2>1. \A k \in Kinds, c \in Clients : ideal[k][c] = [tokens |-> Full, last |-> 0]
    BY <1>6
  <2>2. now = 0
    BY DEF AbuseInit
  <2> QED BY <1>3, <1>8, <1>9, <1>10, <1>11, <2>1, <2>2, FullIsNat DEF AbuseIInv, LimitsHold

(* What the invariant says of one client of one kind.                      *)
History(k, c) ==
  /\ ideal[k][c] \in Buckets
  /\ ideal[k][c].tokens >= 0 /\ ideal[k][c].last <= now
  /\ c \in DOMAIN table[k] =>
       /\ table[k][c] \in Entries
       /\ table[k][c].last \in 0..now /\ ideal[k][c].last <= table[k][c].seen
       /\ Level(table[k][c]) <= Level(ideal[k][c])
  /\ c \notin DOMAIN table[k] => Level(ideal[k][c]) = Full

Histories == \A k \in Kinds, c \in Clients : History(k, c)

Bounded == \A k \in Kinds : Cardinality(DOMAIN table[k]) <= MaxEntries

(* The invariant taken apart.                                              *)
LEMMA HistoryFacts ==
  AbuseTypeOK => (AbuseIInv <=> ConcurrencyLimit /\ Bounded /\ Histories)
<1> SUFFICES ASSUME AbuseTypeOK
             PROVE  AbuseIInv <=> ConcurrencyLimit /\ Bounded /\ Histories
  OBVIOUS
<1>1. now \in Nat
  BY DEF AbuseTypeOK
<1>2. \A k \in Kinds, c \in Clients : ideal[k][c] \in Buckets
  BY DEF AbuseTypeOK, Buckets
<1>3. \A k \in Kinds : \A c \in DOMAIN table[k] : table[k][c] \in Entries /\ c \in Clients
  BY DEF AbuseTypeOK
<1>4. \A k \in Kinds, c \in Clients : Refilled(ideal[k][c]).tokens = Level(ideal[k][c])
  BY <1>1, <1>2, RefilledBucket
<1>5. \A k \in Kinds : \A c \in DOMAIN table[k] :
        Refilled(table[k][c]).tokens = Level(table[k][c])
  BY <1>1, <1>3, RefilledEntry
<1> QED BY <1>2, <1>3, <1>4, <1>5 DEF AbuseIInv, LimitsHold, EvictionInvisible, History,
                                     Histories, Bounded

(* A tick: both buckets of a client fill up at the same rate.              *)
LEMMA TickKeeps ==
  ASSUME AbuseIInv, Tick
  PROVE  AbuseIInv'
<1>1. AbuseTypeOK /\ now \in Nat /\ now' = now + 1
  BY DEF AbuseIInv, AbuseTypeOK, Tick
<1>2. UNCHANGED <<table, overflow, own, sharing, ideal>>
  BY DEF Tick
<1>3. AbuseTypeOK'
  BY <1>1, <1>2 DEF AbuseTypeOK
<1>4. ConcurrencyLimit' /\ Bounded'
  BY <1>2 DEF AbuseIInv, LimitsHold, ConcurrencyLimit, EvictionInvisible, Bounded
<1>5. ASSUME NEW k \in Kinds, NEW c \in Clients
      PROVE  History(k, c)'
  <2>1. History(k, c)
    BY <1>1, HistoryFacts DEF Histories
  <2> DEFINE b == ideal[k][c]
             e == table[k][c]
  <2>2. b \in Buckets /\ b.last \in Nat /\ b.last # -1 /\ b.tokens \in Int /\ b.tokens >= 0 /\ b.last <= now
    BY <2>1 DEF History, Buckets
  <2>3. Level(b)' = Lesser(Full, b.tokens + (now - b.last) * Capacity + Capacity)
    <3>1. Level(b)' = Lesser(Full, b.tokens + ((now + 1) - b.last) * Capacity)
      BY <1>1, <1>2, <2>2 DEF Level
    <3> QED BY <1>1, <2>2, <3>1, LaterTokens
  <2>4. Level(b) = Lesser(Full, b.tokens + (now - b.last) * Capacity)
    BY <2>2 DEF Level
  <2>5. (now - b.last) * Capacity \in Int
    BY <1>1, <2>2, LaterTokens
  <2>6. CASE c \in DOMAIN table[k]
    <3>1. e \in Entries /\ e.last \in 0..now /\ b.last <= e.seen /\ Level(e) <= Level(b)
      BY <2>1, <2>6 DEF History
    <3>2. e.tokens \in Int /\ e.last \in Int /\ e.last # -1
      <4> HIDE DEF e
      <4>1. e.tokens \in Int /\ e.last \in Int
        BY <3>1 DEF Entries
      <4>2. e.last # -1
        BY <1>1, <3>1
      <4> QED BY <4>1, <4>2
    <3>3. Level(e)' = Lesser(Full, e.tokens + (now - e.last) * Capacity + Capacity)
      <4>1. Level(e)' = Lesser(Full, e.tokens + ((now + 1) - e.last) * Capacity)
        BY <1>1, <1>2, <3>2 DEF Level
      <4>2. e.tokens + ((now + 1) - e.last) * Capacity
            = e.tokens + (now - e.last) * Capacity + Capacity
        <5> HIDE DEF e
        <5>1. now \in Int
          BY <1>1
        <5> QED BY <3>2, <5>1, LaterTokens
      <4> QED BY <4>1, <4>2
    <3>4. Level(e) = Lesser(Full, e.tokens + (now - e.last) * Capacity)
      BY <3>2 DEF Level
    <3>5. (now - e.last) * Capacity \in Int
      BY <1>1, <3>2, LaterTokens
    <3> DEFINE x == e.tokens + (now - e.last) * Capacity
               y == b.tokens + (now - b.last) * Capacity
    <3>6. x \in Int /\ y \in Int
      BY <2>2, <2>5, <3>2, <3>5
    <3>7. Lesser(Full, x) <= Lesser(Full, y) =>
          Lesser(Full, x + Capacity) <= Lesser(Full, y + Capacity)
      <4> HIDE DEF x, y
      <4> QED BY <3>6, FullIsNat DEF Lesser
    <3>8. (Level(e) <= Level(b))'
      BY <2>3, <2>4, <3>1, <3>3, <3>4, <3>7
    <3> QED BY <1>1, <1>2, <2>2, <2>6, <3>1, <3>8 DEF History
  <2>7. CASE c \notin DOMAIN table[k]
    <3> DEFINE y == b.tokens + (now - b.last) * Capacity
    <3>1. Lesser(Full, y) = Full
      BY <2>1, <2>4, <2>7 DEF History
    <3>2. y \in Int
      BY <2>2, <2>5
    <3>3. Lesser(Full, y + Capacity) = Full
      <4> HIDE DEF y
      <4> QED BY <3>1, <3>2, FullIsNat DEF Lesser
    <3> QED BY <1>1, <1>2, <2>2, <2>3, <2>7, <3>3 DEF History
  <2> QED BY <2>6, <2>7
<1>6. Histories'
  BY <1>5 DEF Histories
<1> QED BY <1>3, <1>4, <1>6, HistoryFacts, PTL

(* Who leaves takes his count along, and nothing else.                     *)
LEMMA LessEntry ==
  ASSUME NEW e \in Entries, e.active > 0
  PROVE  /\ Less(e) \in Entries /\ Less(e).active = e.active - 1
         /\ Less(e).last = e.last /\ Less(e).seen = e.seen /\ Level(Less(e)) = Level(e)
<1> DEFINE f == [tokens |-> e.tokens, last |-> e.last, seen |-> e.seen, active |-> e.active - 1]
<1>1. Less(e) = f
  BY DEF Less, Entries
<1>2. f \in Entries
  BY DEF Entries
<1>3. Level(f) = Level(e)
  BY DEF Level
<1> QED BY <1>1, <1>2, <1>3

(* A release.                                                              *)
LEMMA ReleaseKeeps ==
  ASSUME AbuseIInv, NEW r \in Clients, Release(r)
  PROVE  AbuseIInv'
<1>1. AbuseTypeOK /\ ConcurrencyLimit /\ Bounded /\ Histories
  BY HistoryFacts DEF AbuseIInv
<1>2. /\ own[r] > 0 /\ own' = [own EXCEPT ![r] = @ - 1]
      /\ UNCHANGED <<now, overflow, sharing, ideal, arrivals>>
  BY DEF Release
<1> DEFINE T == table["http"]
<1>3. /\ "http" \in Kinds /\ r \in DOMAIN T /\ T \in [DOMAIN T -> Entries]
      /\ T[r] \in Entries /\ T[r].active = own[r]
  BY <1>1, <1>2 DEF AbuseTypeOK, ConcurrencyLimit, Kinds
<1>4. LET e == Less(T[r])
      IN /\ e \in Entries /\ e.active = own[r] - 1 /\ e.last = T[r].last
         /\ e.seen = T[r].seen /\ Level(e) = Level(T[r])
  BY <1>2, <1>3, LessEntry
<1> DEFINE U == [d \in DOMAIN T |-> IF d = r THEN Less(T[d]) ELSE T[d]]
<1>5. table' = [table EXCEPT !["http"] = U]
  BY DEF Release
<1>6. U \in [DOMAIN T -> Entries] /\ DOMAIN U = DOMAIN T
  BY <1>3, <1>4
<1>7. /\ table'["http"] = U
      /\ \A k \in Kinds : k # "http" => table'[k] = table[k]
      /\ \A k \in Kinds : DOMAIN table'[k] = DOMAIN table[k]
      /\ table' = [k \in Kinds |-> table'[k]]
  <2>1. table = [k \in Kinds |-> table[k]]
    BY <1>1 DEF AbuseTypeOK
  <2> HIDE DEF U
  <2> QED BY <1>3, <1>5, <1>6, <2>1
<1>8. \A d \in DOMAIN T \ {r} : U[d] = T[d]
  OBVIOUS
<1>9. U[r] = Less(T[r])
  BY <1>3
<1>10. own' \in [Clients -> Nat] /\ own'[r] = own[r] - 1
       /\ \A d \in Clients \ {r} : own'[d] = own[d]
  BY <1>1, <1>2 DEF AbuseTypeOK
<1> HIDE DEF U
<1>11. AbuseTypeOK'
  <2>1. \A k \in Kinds : table'[k] \in [DOMAIN table'[k] -> Entries]
    BY <1>1, <1>6, <1>7 DEF AbuseTypeOK
  <2> QED BY <1>1, <1>2, <1>7, <1>10, <2>1 DEF AbuseTypeOK
<1>12. Bounded'
  BY <1>1, <1>7 DEF Bounded
<1>13. ConcurrencyLimit'
  <2>1. \A c \in Clients : own[c] \in Nat
    BY <1>1 DEF AbuseTypeOK
  <2>2. MaxConcurrent \in Nat
    BY AbuseAssumption
  <2> QED BY <1>1, <1>2, <1>3, <1>4, <1>7, <1>8, <1>9, <1>10, <2>1, <2>2 DEF ConcurrencyLimit
<1>14. ASSUME NEW k \in Kinds, NEW c \in Clients
       PROVE  History(k, c)'
  <2>1. History(k, c)
    BY <1>1 DEF Histories
  <2>2. \A b : Level(b)' = Level(b)
    BY <1>2, SameNow
  <2>3. CASE k = "http" /\ c = r
    BY <1>2, <1>3, <1>4, <1>7, <1>9, <2>1, <2>2, <2>3 DEF History
  <2>4. CASE ~(k = "http" /\ c = r)
    <3>1. /\ DOMAIN table'[k] = DOMAIN table[k] /\ ideal' = ideal /\ now' = now
          /\ c \in DOMAIN table[k] => table'[k][c] = table[k][c]
      BY <1>2, <1>7, <1>8, <2>4
    <3> QED BY <2>1, <2>2, <3>1 DEF History
  <2> QED BY <2>3, <2>4
<1>15. Histories'
  BY <1>14 DEF Histories
<1> QED BY <1>11, <1>12, <1>13, <1>15, HistoryFacts, PTL

(* A release of the shared entry.                                          *)
LEMMA ReleaseSharedKeeps ==
  ASSUME AbuseIInv, ReleaseShared
  PROVE  AbuseIInv'
<1>1. AbuseTypeOK /\ ConcurrencyLimit
  BY DEF AbuseIInv, LimitsHold
<1>2. /\ sharing > 0 /\ sharing' = sharing - 1
      /\ UNCHANGED <<now, table, own, ideal, arrivals>>
  BY DEF ReleaseShared
<1>3. /\ "http" \in Kinds /\ overflow["http"] \in Entries
      /\ overflow["http"].active = sharing
  BY <1>1 DEF AbuseTypeOK, ConcurrencyLimit, Kinds
<1>4. Less(overflow["http"]) \in Entries /\ Less(overflow["http"]).active = sharing'
  BY <1>2, <1>3, LessEntry
<1>5. overflow' \in [Kinds -> Entries] /\ overflow'["http"].active = sharing'
  BY <1>1, <1>3, <1>4 DEF ReleaseShared, AbuseTypeOK
<1>6. AbuseTypeOK'
  BY <1>1, <1>2, <1>5 DEF AbuseTypeOK
<1>7. ConcurrencyLimit'
  <2>1. sharing - 1 <= MaxConcurrent
    BY <1>1, AbuseAssumption DEF ConcurrencyLimit, AbuseTypeOK
  <2> QED BY <1>1, <1>2, <1>5, <2>1 DEF ConcurrencyLimit
<1>8. \A b : Refilled(b)' = Refilled(b)
  BY <1>2, SameNow
<1>9. EvictionInvisible'
  BY <1>2, <1>8 DEF AbuseIInv, LimitsHold, EvictionInvisible
<1> QED BY <1>2, <1>6, <1>7, <1>8, <1>9 DEF AbuseIInv, LimitsHold

(* The bucket of a client whose entry was forgotten is full again, so his  *)
(* next entry may start full.                                              *)
LEMMA ForgottenIsFull ==
  ASSUME AbuseTypeOK, NEW k \in Kinds, NEW c \in Clients, History(k, c),
         c \in DOMAIN table[k], Idle(table[k][c])
  PROVE  Level(ideal[k][c]) = Full
<1> DEFINE b == ideal[k][c]
           e == table[k][c]
<1>1. now \in Nat /\ b \in Buckets /\ e \in Entries /\ b.tokens >= 0 /\ b.last <= e.seen
  BY DEF AbuseTypeOK, History
<1>2. e.seen < now - TTL
  BY DEF Idle
<1> HIDE DEF b, e
<1>3. b.last \in Nat /\ e.seen \in Int
  BY <1>1 DEF Buckets, Entries
<1>4. now - b.last >= Window
  BY <1>1, <1>2, <1>3, AbuseAssumption
<1> QED BY <1>1, <1>4, FullAgain DEF b

(* An arrival at the shared entry: the table forgets idle entries, and the *)
(* newcomer counts with the others who have none.                          *)
LEMMA SharedArrivalKeeps ==
  ASSUME AbuseIInv, NEW k \in Kinds, NEW c \in Clients, NEW t, Kept(table[k], t),
         c \notin DOMAIN t,
         table' = [table EXCEPT ![k] = t],
         overflow' = [overflow EXCEPT ![k] = Used(k, overflow[k])],
         IF Admits(k, overflow[k]) /\ k = "http"
           THEN sharing' = sharing + 1 /\ UNCHANGED own
           ELSE UNCHANGED <<own, sharing>>,
         UNCHANGED <<ideal, now>>
  PROVE  AbuseIInv'
<1>1. AbuseTypeOK /\ ConcurrencyLimit /\ Bounded /\ Histories /\ now \in Nat
  BY HistoryFacts DEF AbuseIInv, AbuseTypeOK
<1>2. /\ table'[k] = t /\ \A j \in Kinds : j # k => table'[j] = table[j]
      /\ table' = [j \in Kinds |-> table'[j]]
  BY <1>1 DEF AbuseTypeOK
<1>3. /\ DOMAIN t \subseteq DOMAIN table[k] /\ DOMAIN t \subseteq Clients
      /\ \A d \in DOMAIN t : t[d] = table[k][d]
      /\ t \in [DOMAIN t -> Entries]
  <2>1. t = [d \in DOMAIN t |-> table[k][d]] /\ DOMAIN t \subseteq DOMAIN table[k]
    BY DEF Kept
  <2>2. table[k] \in [DOMAIN table[k] -> Entries] /\ DOMAIN table[k] \subseteq Clients
    BY <1>1 DEF AbuseTypeOK
  <2>3. \A d \in DOMAIN t : t[d] = table[k][d] /\ table[k][d] \in Entries
    BY <2>1, <2>2
  <2>4. t \in [DOMAIN t -> Entries]
    BY <2>1, <2>3
  <2> QED BY <2>1, <2>2, <2>3, <2>4
<1>4. /\ IsFiniteSet(DOMAIN t)
      /\ Cardinality(DOMAIN t) <= Cardinality(DOMAIN table[k])
      /\ Cardinality(DOMAIN t) \in Nat /\ Cardinality(DOMAIN table[k]) \in Nat
  BY <1>1, <1>3, FS_Subset, FS_CardinalityType DEF AbuseTypeOK
<1> DEFINE o == overflow[k]
           u == Used(k, o)
<1>5. o \in Entries
  BY <1>1 DEF AbuseTypeOK
<1>6. /\ u \in Entries
      /\ Admits(k, o) /\ k = "http" => u.active = o.active + 1
      /\ ~(Admits(k, o) /\ k = "http") => u.active = o.active
      /\ Admits(k, o) /\ k = "http" => o.active + 1 <= MaxConcurrent
  BY <1>1, <1>5, UsedEntry
<1>7. /\ overflow' \in [Kinds -> Entries] /\ overflow'[k] = u
      /\ \A j \in Kinds : j # k => overflow'[j] = overflow[j]
  <2>1. overflow \in [Kinds -> Entries] /\ overflow' = [overflow EXCEPT ![k] = u] /\ u \in Entries
    BY <1>1, <1>6 DEF AbuseTypeOK
  <2> HIDE DEF u
  <2> QED BY <2>1
<1>8. sharing' \in Nat /\ own' = own
  <2>1. sharing \in Nat
    BY <1>1 DEF AbuseTypeOK
  <2> QED BY <2>1
<1>9. AbuseTypeOK'
  <2>1. now' \in Nat /\ own' \in [Clients -> Nat] /\ sharing' \in Nat
        /\ ideal' \in [Kinds -> [Clients -> [tokens : Int, last : Nat]]]
    BY <1>1, <1>8 DEF AbuseTypeOK
  <2>2. \A j \in Kinds : /\ DOMAIN table'[j] \subseteq Clients
                         /\ IsFiniteSet(DOMAIN table'[j])
                         /\ table'[j] \in [DOMAIN table'[j] -> Entries]
    BY <1>1, <1>2, <1>3, <1>4 DEF AbuseTypeOK
  <2> QED BY <1>2, <1>7, <2>1, <2>2 DEF AbuseTypeOK
<1>10. Bounded'
  <2>1. MaxEntries \in Nat /\ Cardinality(DOMAIN table[k]) <= MaxEntries
    BY <1>1, AbuseAssumption DEF Bounded
  <2> QED BY <1>1, <1>2, <1>4, <2>1 DEF Bounded
<1>11. \A d \in DOMAIN table[k] \ DOMAIN t : Idle(table[k][d])
  BY DEF Kept
<1>12. ConcurrencyLimit'
  <2>1. "http" \in Kinds
    BY DEF Kinds
  <2>2. ASSUME NEW d \in Clients
        PROVE  /\ own[d] > 0 => d \in DOMAIN table'["http"]
               /\ d \in DOMAIN table'["http"] => table'["http"][d].active = own[d]
    <3>1. CASE k = "http"
      <4>1. d \in DOMAIN table["http"] \ DOMAIN t => own[d] = 0
        BY <1>1, <1>11, <3>1 DEF Idle, ConcurrencyLimit
      <4> QED BY <1>1, <1>2, <1>3, <3>1, <4>1 DEF ConcurrencyLimit
    <3>2. CASE k # "http"
      BY <1>1, <1>2, <2>1, <3>2 DEF ConcurrencyLimit
    <3> QED BY <3>1, <3>2
  <2>3. overflow'["http"].active = sharing' /\ sharing' <= MaxConcurrent
    BY <1>1, <1>6, <1>7, <2>1 DEF ConcurrencyLimit
  <2> QED BY <1>1, <1>8, <2>2, <2>3 DEF ConcurrencyLimit
<1>13. ASSUME NEW j \in Kinds, NEW d \in Clients
       PROVE  History(j, d)'
  <2>1. History(j, d) /\ \A b : Level(b)' = Level(b)
    BY <1>1, SameNow DEF Histories
  <2>2. CASE j = k /\ d \in DOMAIN table[k] \ DOMAIN t
    <3>1. Level(ideal[k][d]) = Full
      BY <1>1, <1>11, <2>1, <2>2, ForgottenIsFull
    <3> QED BY <1>2, <2>1, <2>2, <3>1 DEF History
  <2>3. CASE ~(j = k /\ d \in DOMAIN table[k] \ DOMAIN t)
    <3>1. /\ d \in DOMAIN table'[j] <=> d \in DOMAIN table[j]
          /\ d \in DOMAIN table[j] => table'[j][d] = table[j][d]
      BY <1>2, <1>3, <2>3
    <3> QED BY <2>1, <3>1 DEF History
  <2> QED BY <2>2, <2>3
<1>14. Histories'
  BY <1>13 DEF Histories
<1> QED BY <1>9, <1>10, <1>12, <1>14, HistoryFacts, PTL

(* An arrival at an entry of its own, kept or new.                         *)
LEMMA OwnArrivalKeeps ==
  ASSUME AbuseIInv, NEW k \in Kinds, NEW c \in Clients, NEW t, Kept(table[k], t),
         c \in DOMAIN t \/ ~(Cardinality(DOMAIN t) >= MaxEntries),
         NEW e, e = IF c \in DOMAIN t THEN t[c] ELSE Entry(now),
         table' = [table EXCEPT ![k] =
                     [d \in DOMAIN t \cup {c} |-> IF d = c THEN Used(k, e) ELSE t[d]]],
         overflow' = overflow,
         IF Admits(k, e) /\ k = "http"
           THEN own' = [own EXCEPT ![c] = @ + 1] /\ UNCHANGED sharing
           ELSE UNCHANGED <<own, sharing>>,
         ideal' = IF Admits(k, e) THEN Ideal(k, c) ELSE ideal,
         UNCHANGED now
  PROVE  AbuseIInv'
<1>1. AbuseTypeOK /\ ConcurrencyLimit /\ Bounded /\ Histories /\ now \in Nat
  BY HistoryFacts DEF AbuseIInv, AbuseTypeOK
<1> DEFINE s == table[k]
           u == Used(k, e)
           T == [d \in DOMAIN t \cup {c} |-> IF d = c THEN u ELSE t[d]]
           b == ideal[k][c]
<1>2. /\ DOMAIN t \subseteq DOMAIN s /\ DOMAIN t \subseteq Clients
      /\ \A d \in DOMAIN t : t[d] = s[d] /\ t[d] \in Entries
  <2>1. t = [d \in DOMAIN t |-> s[d]] /\ DOMAIN t \subseteq DOMAIN s
    BY DEF Kept
  <2>2. s \in [DOMAIN s -> Entries] /\ DOMAIN s \subseteq Clients
    BY <1>1 DEF AbuseTypeOK
  <2>3. \A d \in DOMAIN t : t[d] = s[d] /\ s[d] \in Entries
    BY <2>1, <2>2
  <2> QED BY <2>1, <2>2, <2>3
<1>3. \A d \in DOMAIN s \ DOMAIN t : Idle(s[d])
  BY DEF Kept
<1>4. History(k, c) /\ b \in Buckets /\ b.tokens >= 0 /\ b.last <= now
      /\ b.last \in Nat /\ b.tokens \in Int /\ Level(b) \in Int /\ Level(b) <= Full
  <2>1. History(k, c)
    BY <1>1 DEF Histories
  <2>2. b \in Buckets /\ b.tokens >= 0 /\ b.last <= now
    BY <2>1 DEF History
  <2>3. Level(b) \in Int /\ Level(b) <= Full
    BY <1>1, <2>2, RefilledBucket
  <2>4. b.last \in Nat /\ b.tokens \in Int
    BY <2>2 DEF Buckets
  <2> QED BY <2>1, <2>2, <2>3, <2>4
<1>5. /\ e \in Entries /\ e.last \in 0..now
      /\ Level(e) \in Int /\ Level(e) <= Level(b)
  <2>1. CASE c \in DOMAIN t
    <3>1. e = s[c] /\ c \in DOMAIN s
      BY <1>2, <2>1
    <3>2. e \in Entries /\ e.last \in 0..now /\ Level(e) <= Level(b)
      BY <1>4, <3>1 DEF History
    <3> QED BY <1>1, <3>2, RefilledEntry
  <2>2. CASE c \notin DOMAIN t
    <3>1. e = [tokens |-> Full, last |-> now, seen |-> now, active |-> 0]
      BY <2>2 DEF Entry
    <3>2. e \in Entries /\ e.last = now
      BY <1>1, <3>1, FullIsNat DEF Entries
    <3>3. Level(b) = Full
      <4>1. CASE c \in DOMAIN s
        BY <1>1, <1>3, <1>4, <2>2, <4>1, ForgottenIsFull
      <4>2. CASE c \notin DOMAIN s
        BY <1>4, <4>2 DEF History
      <4> QED BY <4>1, <4>2
    <3>4. Level(e) \in Int /\ Level(e) <= Full
      BY <1>1, <3>2, RefilledEntry
    <3> QED BY <1>1, <3>2, <3>3, <3>4
  <2> QED BY <2>1, <2>2
<1>6. k = "http" => e.active = own[c]
  <2>1. CASE c \in DOMAIN t
    BY <1>1, <1>2, <2>1 DEF ConcurrencyLimit
  <2>2. CASE c \notin DOMAIN t
    <3>1. e.active = 0
      BY <2>2 DEF Entry
    <3>2. own[c] \in Nat
      BY <1>1 DEF AbuseTypeOK
    <3>3. k = "http" => own[c] = 0
      BY <1>1, <1>3, <2>2, <3>2 DEF ConcurrencyLimit, Idle
    <3> QED BY <3>1, <3>3
  <2> QED BY <2>1, <2>2
<1>7. /\ u \in Entries /\ u.seen = now /\ u.last \in {e.last, now}
      /\ Admits(k, e) /\ k = "http" => u.active = e.active + 1
      /\ ~(Admits(k, e) /\ k = "http") => u.active = e.active
      /\ Admits(k, e) => Level(u) = Level(e) - Window
      /\ ~Admits(k, e) => Level(u) = Level(e)
      /\ Admits(k, e) => Level(e) >= Window
      /\ Admits(k, e) /\ k = "http" => e.active + 1 <= MaxConcurrent
  BY <1>1, <1>5, UsedEntry
<1>8. /\ table'[k] = T /\ \A j \in Kinds : j # k => table'[j] = table[j]
      /\ table' = [j \in Kinds |-> table'[j]]
  <2>1. table = [j \in Kinds |-> table[j]] /\ table' = [table EXCEPT ![k] = T]
    BY <1>1 DEF AbuseTypeOK
  <2> HIDE DEF T
  <2> QED BY <2>1
<1>9. /\ DOMAIN T = DOMAIN t \cup {c} /\ T[c] = u
      /\ \A d \in DOMAIN t : d # c => T[d] = s[d]
      /\ DOMAIN T \subseteq Clients /\ T \in [DOMAIN T -> Entries]
  <2>1. DOMAIN T = DOMAIN t \cup {c} /\ T[c] = u
    OBVIOUS
  <2>2. \A d \in DOMAIN t : d # c => T[d] = s[d] /\ T[d] \in Entries
    BY <1>2
  <2>3. \A d \in DOMAIN T : T[d] \in Entries
    BY <1>7, <2>1, <2>2
  <2>4. T = [d \in DOMAIN T |-> T[d]]
    OBVIOUS
  <2> HIDE DEF T
  <2> QED BY <1>2, <2>1, <2>2, <2>3, <2>4
<1> HIDE DEF T, u
<1>10. /\ IsFiniteSet(DOMAIN T) /\ Cardinality(DOMAIN T) <= MaxEntries
  <2>1. IsFiniteSet(DOMAIN s) /\ Cardinality(DOMAIN s) <= MaxEntries
    BY <1>1 DEF AbuseTypeOK, Bounded
  <2>2. IsFiniteSet(DOMAIN t) /\ Cardinality(DOMAIN t) <= Cardinality(DOMAIN s)
    BY <1>2, <2>1, FS_Subset
  <2>3. Cardinality(DOMAIN t) \in Nat /\ Cardinality(DOMAIN s) \in Nat /\ MaxEntries \in Nat
    BY <2>1, <2>2, FS_CardinalityType, AbuseAssumption
  <2>4. /\ IsFiniteSet(DOMAIN t \cup {c})
        /\ Cardinality(DOMAIN t \cup {c}) =
             IF c \in DOMAIN t THEN Cardinality(DOMAIN t) ELSE Cardinality(DOMAIN t) + 1
    BY <2>2, FS_AddElement
  <2> QED BY <1>9, <2>1, <2>2, <2>3, <2>4
<1>11. /\ own' \in [Clients -> Nat] /\ sharing' = sharing
       /\ Admits(k, e) /\ k = "http" => own'[c] = own[c] + 1
       /\ ~(Admits(k, e) /\ k = "http") => own'[c] = own[c]
       /\ \A d \in Clients : d # c => own'[d] = own[d]
  <2>1. own \in [Clients -> Nat]
    BY <1>1 DEF AbuseTypeOK
  <2>2. CASE Admits(k, e) /\ k = "http"
    <3>1. own' = [own EXCEPT ![c] = @ + 1] /\ sharing' = sharing
      BY <2>2
    <3> QED BY <2>1, <2>2, <3>1
  <2>3. CASE ~(Admits(k, e) /\ k = "http")
    BY <2>1, <2>3
  <2> QED BY <2>2, <2>3
<1> DEFINE b2 == [Refilled(b) EXCEPT !.tokens = @ - Window]
           I == [ideal EXCEPT ![k][c] = b2]
<1>12. /\ b2 \in Buckets /\ b2.last = now
       /\ b2.tokens = Level(b) - Window /\ Level(b2) = Level(b) - Window
  BY <1>1, <1>4, SpentBucket
<1>13. /\ Admits(k, e) => ideal'[k][c] = b2
       /\ ~Admits(k, e) => ideal'[k][c] = b
       /\ \A j \in Kinds, d \in Clients : ~(j = k /\ d = c) => ideal'[j][d] = ideal[j][d]
       /\ ideal' \in [Kinds -> [Clients -> Buckets]]
  <2>1. ideal \in [Kinds -> [Clients -> Buckets]]
    BY <1>1 DEF AbuseTypeOK, Buckets
  <2>2. CASE Admits(k, e)
    <3>1. ideal' = I
      BY <2>2 DEF Ideal
    <3> HIDE DEF b2
    <3>2. I[k][c] = b2 /\ I \in [Kinds -> [Clients -> Buckets]]
          /\ \A j \in Kinds, d \in Clients : ~(j = k /\ d = c) => I[j][d] = ideal[j][d]
      <4>1. b2 \in Buckets /\ k \in Kinds /\ c \in Clients
        BY <1>1, <1>12
      <4>2. [ideal[k] EXCEPT ![c] = b2] \in [Clients -> Buckets] /\ [ideal[k] EXCEPT ![c] = b2][c] = b2
            /\ \A d \in Clients : d # c => [ideal[k] EXCEPT ![c] = b2][d] = ideal[k][d]
        BY <2>1, <4>1
      <4>3. I = [ideal EXCEPT ![k] = [ideal[k] EXCEPT ![c] = b2]]
        OBVIOUS
      <4> HIDE DEF I
      <4>4. I[k] = [ideal[k] EXCEPT ![c] = b2] /\ I \in [Kinds -> [Clients -> Buckets]]
            /\ \A j \in Kinds : j # k => I[j] = ideal[j]
        BY <2>1, <4>1, <4>2, <4>3
      <4> QED BY <4>2, <4>4
    <3> HIDE DEF I
    <3> QED BY <2>2, <3>1, <3>2
  <2>3. CASE ~Admits(k, e)
    BY <2>1, <2>3
  <2> QED BY <2>2, <2>3
<1> HIDE DEF b2, I
<1>14. AbuseTypeOK'
  <2>1. now' \in Nat /\ sharing' \in Nat /\ overflow' \in [Kinds -> Entries]
    BY <1>1, <1>11 DEF AbuseTypeOK
  <2>2. \A j \in Kinds : /\ DOMAIN table'[j] \subseteq Clients
                         /\ IsFiniteSet(DOMAIN table'[j])
                         /\ table'[j] \in [DOMAIN table'[j] -> Entries]
    BY <1>1, <1>8, <1>9, <1>10 DEF AbuseTypeOK
  <2>3. ideal' \in [Kinds -> [Clients -> [tokens : Int, last : Nat]]]
    BY <1>13 DEF Buckets
  <2> QED BY <1>8, <1>11, <2>1, <2>2, <2>3 DEF AbuseTypeOK
<1>15. Bounded'
  BY <1>1, <1>8, <1>10 DEF Bounded
<1>16. ConcurrencyLimit'
  <2>1. "http" \in Kinds /\ MaxConcurrent \in Nat /\ \A d \in Clients : own[d] \in Nat
    BY <1>1, AbuseAssumption DEF Kinds, AbuseTypeOK
  <2>2. ASSUME NEW d \in Clients
        PROVE  /\ own'[d] > 0 => d \in DOMAIN table'["http"]
               /\ d \in DOMAIN table'["http"] => table'["http"][d].active = own'[d]
               /\ own'[d] <= MaxConcurrent
    <3>1. CASE k = "http" /\ d = c
      <4>1. own[c] <= MaxConcurrent
        BY <1>1 DEF ConcurrencyLimit
      <4>2. own'[c] <= MaxConcurrent
        BY <1>6, <1>7, <1>11, <3>1, <4>1
      <4>3. u.active = own'[c]
        BY <1>6, <1>7, <1>11, <3>1
      <4> QED BY <1>8, <1>9, <3>1, <4>2, <4>3
    <3>2. CASE k = "http" /\ d # c
      <4>1. own'[d] = own[d] /\ own[d] <= MaxConcurrent
        BY <1>1, <1>11, <3>2 DEF ConcurrencyLimit
      <4>2. d \in DOMAIN s \ DOMAIN t => own[d] = 0
        BY <1>1, <1>3, <3>2 DEF Idle, ConcurrencyLimit
      <4>3. /\ own[d] > 0 => d \in DOMAIN s
            /\ d \in DOMAIN s => s[d].active = own[d]
        BY <1>1, <3>2 DEF ConcurrencyLimit
      <4> QED BY <1>2, <1>8, <1>9, <3>2, <4>1, <4>2, <4>3
    <3>3. CASE k # "http"
      <4>1. own'[d] = own[d] /\ table'["http"] = table["http"]
        BY <1>8, <1>11, <2>1, <3>3
      <4> QED BY <1>1, <4>1 DEF ConcurrencyLimit
    <3> QED BY <3>1, <3>2, <3>3
  <2>3. overflow'["http"].active = sharing' /\ sharing' <= MaxConcurrent
    BY <1>1, <1>11 DEF ConcurrencyLimit
  <2> QED BY <2>2, <2>3 DEF ConcurrencyLimit
<1>17. ASSUME NEW j \in Kinds, NEW d \in Clients
       PROVE  History(j, d)'
  <2>1. History(j, d) /\ now' = now /\ \A x : Level(x)' = Level(x)
    BY <1>1, SameNow DEF Histories
  <2>2. CASE j = k /\ d = c
    <3>1. d \in DOMAIN table'[j] /\ table'[j][d] = u
      BY <1>8, <1>9, <2>2
    <3>2. u.last \in 0..now'
      BY <1>1, <1>5, <1>7
    <3>3. CASE Admits(k, e)
      <4>1. ideal'[j][d] = b2
        BY <1>13, <2>2, <3>3
      <4>2. b2.tokens >= 0 /\ b2.last <= now /\ b2.last <= u.seen /\ Level(u) <= Level(b2)
        BY <1>1, <1>4, <1>5, <1>7, <1>12, <3>3, FullIsNat
      <4> QED BY <1>7, <1>12, <2>1, <3>1, <3>2, <4>1, <4>2 DEF History
    <3>4. CASE ~Admits(k, e)
      <4>1. ideal'[j][d] = b
        BY <1>13, <2>2, <3>4
      <4>2. b.last <= u.seen /\ Level(u) <= Level(b)
        BY <1>1, <1>4, <1>5, <1>7, <3>4
      <4> QED BY <1>4, <1>7, <2>1, <3>1, <3>2, <4>1, <4>2 DEF History
    <3> QED BY <3>3, <3>4
  <2>3. CASE j = k /\ d # c /\ d \in DOMAIN s \ DOMAIN t
    <3>1. Level(ideal[k][d]) = Full
      BY <1>1, <1>3, <2>1, <2>3, ForgottenIsFull
    <3>2. ideal'[j][d] = ideal[j][d] /\ d \notin DOMAIN table'[j]
      BY <1>8, <1>9, <1>13, <2>3
    <3> QED BY <2>1, <2>3, <3>1, <3>2 DEF History
  <2>4. CASE ~(j = k /\ d = c) /\ ~(j = k /\ d # c /\ d \in DOMAIN s \ DOMAIN t)
    <3>1. /\ d \in DOMAIN table'[j] <=> d \in DOMAIN table[j]
          /\ d \in DOMAIN table[j] => table'[j][d] = table[j][d]
      BY <1>2, <1>8, <1>9, <2>4
    <3>2. ideal'[j][d] = ideal[j][d]
      BY <1>13, <2>4
    <3> QED BY <2>1, <3>1, <3>2 DEF History
  <2> QED BY <2>2, <2>3, <2>4
<1>18. Histories'
  BY <1>17 DEF Histories
<1> QED BY <1>14, <1>15, <1>16, <1>18, HistoryFacts, PTL

(* Every arrival is one of the two.                                        *)
LEMMA ArriveKeeps ==
  ASSUME AbuseIInv, NEW k \in Kinds, NEW c \in Clients, Arrive(k, c)
  PROVE  AbuseIInv'
<1> DEFINE s == table[k]
<1>1. s = [d \in DOMAIN s |-> s[d]]
  BY DEF AbuseIInv, AbuseTypeOK
<1>2. PICK t0 \in {s, Pruned(s)} :
        LET t == IF c \in DOMAIN t0 THEN t0 ELSE Cleared(t0)
            shared == c \notin DOMAIN t /\ Cardinality(DOMAIN t) >= MaxEntries
            e == IF shared THEN overflow[k] ELSE IF c \in DOMAIN t THEN t[c] ELSE Entry(now)
        IN /\ table' = [table EXCEPT ![k] =
                IF shared THEN t
                ELSE [d \in DOMAIN t \cup {c} |-> IF d = c THEN Used(k, e) ELSE t[d]]]
           /\ overflow' = IF shared THEN [overflow EXCEPT ![k] = Used(k, e)] ELSE overflow
           /\ IF Admits(k, e) /\ k = "http"
                THEN IF shared THEN sharing' = sharing + 1 /\ UNCHANGED own
                               ELSE own' = [own EXCEPT ![c] = @ + 1] /\ UNCHANGED sharing
                ELSE UNCHANGED <<own, sharing>>
           /\ ideal' = IF Admits(k, e) /\ ~shared THEN Ideal(k, c) ELSE ideal
  BY DEF Arrive
<1> DEFINE t == IF c \in DOMAIN t0 THEN t0 ELSE Cleared(t0)
           shared == c \notin DOMAIN t /\ Cardinality(DOMAIN t) >= MaxEntries
           e == IF c \in DOMAIN t THEN t[c] ELSE Entry(now)
<1>3. Kept(s, t)
  BY <1>1, ArrivalKeeps
<1>4. now' = now
  BY DEF Arrive
<1>5. CASE shared
  <2>1. /\ c \notin DOMAIN t
        /\ table' = [table EXCEPT ![k] = t]
        /\ overflow' = [overflow EXCEPT ![k] = Used(k, overflow[k])]
        /\ IF Admits(k, overflow[k]) /\ k = "http"
             THEN sharing' = sharing + 1 /\ UNCHANGED own
             ELSE UNCHANGED <<own, sharing>>
        /\ UNCHANGED ideal
    BY <1>2, <1>5
  <2> HIDE DEF t
  <2> QED BY <1>3, <1>4, <2>1, SharedArrivalKeeps
<1>6. CASE ~shared
  <2>1. /\ c \in DOMAIN t \/ ~(Cardinality(DOMAIN t) >= MaxEntries)
        /\ table' = [table EXCEPT ![k] =
                       [d \in DOMAIN t \cup {c} |-> IF d = c THEN Used(k, e) ELSE t[d]]]
        /\ overflow' = overflow
        /\ IF Admits(k, e) /\ k = "http"
             THEN own' = [own EXCEPT ![c] = @ + 1] /\ UNCHANGED sharing
             ELSE UNCHANGED <<own, sharing>>
        /\ ideal' = IF Admits(k, e) THEN Ideal(k, c) ELSE ideal
    BY <1>2, <1>6
  <2>2. e = IF c \in DOMAIN t THEN t[c] ELSE Entry(now)
    OBVIOUS
  <2> HIDE DEF t, e
  <2> QED BY <1>3, <1>4, <2>1, <2>2, OwnArrivalKeeps
<1> QED BY <1>5, <1>6

(* The inductive invariant of the limiter, for any number of clients, any  *)
(* sizes, rates and limits.                                                *)
THEOREM AbuseInvariant == AbuseSpec => []AbuseIInv
<1>1. AbuseIInv /\ [AbuseNext]_abuseVars => AbuseIInv'
  <2> SUFFICES ASSUME AbuseIInv, [AbuseNext]_abuseVars PROVE AbuseIInv'
    OBVIOUS
  <2>1. CASE Tick
    BY <2>1, TickKeeps
  <2>2. ASSUME NEW k \in Kinds, NEW c \in Clients, Arrive(k, c) PROVE AbuseIInv'
    BY <2>2, ArriveKeeps
  <2>3. ASSUME NEW c \in Clients, Release(c) PROVE AbuseIInv'
    BY <2>3, ReleaseKeeps
  <2>4. CASE ReleaseShared
    BY <2>4, ReleaseSharedKeeps
  <2>5. CASE UNCHANGED abuseVars
    <3>1. now' = now /\ UNCHANGED <<table, overflow, own, sharing, ideal>>
      BY <2>5 DEF abuseVars
    <3>2. \A b : Refilled(b)' = Refilled(b)
      BY <3>1, SameNow
    <3>3. AbuseTypeOK' /\ ConcurrencyLimit'
      BY <3>1 DEF AbuseIInv, LimitsHold, AbuseTypeOK, ConcurrencyLimit
    <3>4. EvictionInvisible'
      BY <3>1, <3>2 DEF AbuseIInv, LimitsHold, EvictionInvisible
    <3> QED BY <3>1, <3>2, <3>3, <3>4 DEF AbuseIInv, LimitsHold
  <2> QED BY <2>1, <2>2, <2>3, <2>4, <2>5 DEF AbuseNext
<1> QED BY <1>1, AbuseStarts, PTL DEF AbuseSpec

(* No client, nor those of the shared entry together, exceed the           *)
(* concurrency limit; forgetting an entry gives nobody tokens; the table   *)
(* stays within its bound.                                                 *)
THEOREM LimitsAlwaysHold == AbuseSpec => []LimitsHold
<1>1. AbuseIInv => LimitsHold
  BY DEF AbuseIInv
<1> QED BY <1>1, AbuseInvariant, PTL


(***************************************************************************)
(* The ticket keys.                                                        *)
(***************************************************************************)

(* Types.                                                                  *)
LEMMA TicketTypes ==
  ASSUME TicketsTypeOK, [TicketsNext]_ticketVars
  PROVE  TicketsTypeOK'
<1>1. /\ clock \in Nat /\ epoch \in 0..clock
      /\ attached \subseteq TLSConfigs /\ ring \in [TLSConfigs -> Int]
  BY DEF TicketsTypeOK
<1>2. checked \in BOOLEAN /\ masked \in BOOLEAN
  BY DEF TicketsTypeOK
<1>3. /\ clock' \in Nat /\ epoch' \in 0..clock'
      /\ attached' \subseteq TLSConfigs /\ ring' \in [TLSConfigs -> Int]
  <2>1. ASSUME NEW c \in TLSConfigs, Attach(c)
        PROVE  /\ clock' \in Nat /\ epoch' \in 0..clock'
               /\ attached' \subseteq TLSConfigs /\ ring' \in [TLSConfigs -> Int]
    <3>1. /\ clock' = clock /\ epoch' = clock /\ attached' = attached \cup {c}
          /\ ring' = [ring EXCEPT ![c] = clock]
      BY <2>1 DEF Attach
    <3> QED BY <1>1, <3>1
  <2>2. ASSUME NEW c \in TLSConfigs, Detach(c)
        PROVE  /\ clock' = clock /\ epoch' = epoch /\ ring' = ring
               /\ attached' \subseteq attached
    BY <2>2 DEF Detach
  <2>3. ASSUME Refresh
        PROVE  /\ clock' = clock /\ attached' = attached
               /\ epoch' \in {epoch, clock} /\ ring' \in {ring, Refreshed}
    BY <2>3 DEF Refresh
  <2>4. Refreshed \in [TLSConfigs -> Int]
    BY <1>1 DEF Refreshed
  <2>5. ASSUME EpochPasses
        PROVE  clock' = clock + 1 /\ UNCHANGED <<epoch, attached, ring>>
    BY <2>5 DEF EpochPasses
  <2>6. ASSUME UNCHANGED ticketVars
        PROVE  UNCHANGED <<clock, epoch, attached, ring>>
    BY <2>6 DEF ticketVars
  <2>7. CASE Refresh
    BY <1>1, <2>3, <2>4, <2>7
  <2>8. CASE EpochPasses
    BY <1>1, <2>5, <2>8
  <2>9. CASE UNCHANGED ticketVars
    BY <1>1, <2>6, <2>9
  <2>10. ASSUME NEW c \in TLSConfigs, Detach(c)
         PROVE  /\ clock' \in Nat /\ epoch' \in 0..clock'
                /\ attached' \subseteq TLSConfigs /\ ring' \in [TLSConfigs -> Int]
    BY <1>1, <2>2, <2>10
  <2> QED BY <2>1, <2>7, <2>8, <2>9, <2>10 DEF TicketsNext
<1>4. checked' \in BOOLEAN /\ masked' \in BOOLEAN
  BY <1>2 DEF TicketsNext, ticketVars, Refresh, EpochPasses, Attach, Detach
<1>5. ({checked, masked} \subseteq BOOLEAN)'
  BY <1>4
<1> QED BY <1>3, <1>5 DEF TicketsTypeOK

(* A step that gives no new keys.                                          *)
LEMMA SameRingsKeep ==
  ASSUME TicketsIInv, attached' \subseteq attached, ring' = ring, epoch' = epoch,
         masked => masked'
  PROVE  RingsFollowEpoch'
<1>1. ASSUME NEW c \in attached'
      PROVE  ring'[c] <= epoch' /\ (ring'[c] = epoch' \/ masked')
  <2>1. ring[c] <= epoch /\ (ring[c] = epoch \/ masked)
    BY <1>1 DEF TicketsIInv, RingsFollowEpoch
  <2>2. ring'[c] <= epoch' /\ (ring'[c] = epoch' \/ masked)
    BY <2>1
  <2> QED BY <2>2
<1> QED BY <1>1 DEF RingsFollowEpoch

(* A listener that binds brings the epoch forward: it alone has the keys.  *)
LEMMA AttachKeeps ==
  ASSUME TicketsIInv, NEW c \in TLSConfigs, Attach(c)
  PROVE  RingsFollowEpoch'
<1>1. clock \in Nat /\ epoch \in Nat /\ epoch <= clock /\ ring \in [TLSConfigs -> Int]
      /\ attached \subseteq TLSConfigs
  BY DEF TicketsIInv, TicketsTypeOK
<1>2. ring'[c] = clock /\ \A d \in TLSConfigs : d # c => ring'[d] = ring[d]
  BY <1>1 DEF Attach
<1>3. epoch' = clock /\ attached' = attached \cup {c}
  BY DEF Attach
<1>4. epoch # clock => masked'
  BY DEF Attach
<1>5. epoch = clock /\ masked => masked'
  BY DEF Attach
<1>6. ASSUME NEW d \in attached, d # c
      PROVE  ring'[d] <= epoch' /\ (ring'[d] = epoch' \/ masked')
  <2>1. ring[d] <= epoch /\ (ring[d] = epoch \/ masked)
    BY DEF TicketsIInv, RingsFollowEpoch
  <2>2. ring'[d] = ring[d] /\ ring[d] \in Int
    BY <1>1, <1>2, <1>6
  <2>3. ring'[d] <= epoch'
    BY <1>1, <1>3, <2>1, <2>2
  <2>4. ring'[d] = epoch' \/ masked'
    <3>1. epoch = clock => ring'[d] = epoch' \/ masked
      BY <1>3, <2>1, <2>2
    <3> QED BY <1>4, <1>5, <3>1
  <2> QED BY <2>3, <2>4
<1>7. ring'[c] <= epoch' /\ ring'[c] = epoch'
  BY <1>1, <1>2, <1>3
<1> QED BY <1>3, <1>6, <1>7 DEF RingsFollowEpoch

(* The ticker gives every configuration the keys of the new epoch.         *)
LEMMA RefreshKeeps ==
  ASSUME TicketsIInv, Refresh
  PROVE  RingsFollowEpoch'
<1>1. clock \in Nat /\ attached \subseteq TLSConfigs /\ attached' = attached
  BY DEF TicketsIInv, TicketsTypeOK, Refresh
<1>2. CASE epoch = clock
  BY <1>2 DEF TicketsIInv, RingsFollowEpoch, Refresh
<1>3. CASE epoch # clock
  <2>1. ring' = Refreshed /\ epoch' = clock
    BY <1>3 DEF Refresh
  <2>2. \A c \in attached : ring'[c] = epoch' /\ ring'[c] <= epoch'
    BY <1>1, <2>1 DEF Refreshed
  <2> QED BY <1>1, <2>2 DEF RingsFollowEpoch
<1> QED BY <1>2, <1>3

(* The inductive invariant of the ticket keys, for any configurations.     *)
THEOREM TicketsInvariant == TicketsSpec => []TicketsIInv
<1>1. TicketsInit => TicketsIInv
  <2> SUFFICES ASSUME TicketsInit PROVE TicketsIInv
    OBVIOUS
  <2>1. /\ clock \in Nat /\ epoch \in 0..clock
        /\ attached \subseteq TLSConfigs /\ ring \in [TLSConfigs -> Int]
    BY DEF TicketsInit
  <2>2. {checked, masked} \subseteq BOOLEAN
    BY DEF TicketsInit
  <2>3. RingsFollowEpoch
    BY DEF TicketsInit, RingsFollowEpoch
  <2> QED BY <2>1, <2>2, <2>3 DEF TicketsIInv, TicketsTypeOK
<1>2. TicketsIInv /\ [TicketsNext]_ticketVars => TicketsIInv'
  <2> SUFFICES ASSUME TicketsIInv, [TicketsNext]_ticketVars PROVE RingsFollowEpoch'
    BY TicketTypes DEF TicketsIInv
  <2>1. ASSUME NEW c \in TLSConfigs, Attach(c) PROVE RingsFollowEpoch'
    BY <2>1, AttachKeeps
  <2>2. ASSUME NEW c \in TLSConfigs, Detach(c) PROVE RingsFollowEpoch'
    <3>1. attached' = attached \ {c} /\ ring' = ring /\ epoch' = epoch /\ (masked => masked')
      BY <2>2 DEF Detach
    <3> QED BY <3>1, SameRingsKeep
  <2>3. CASE Refresh
    BY <2>3, RefreshKeeps
  <2>4. CASE EpochPasses
    <3>1. attached' = attached /\ ring' = ring /\ epoch' = epoch /\ (masked => masked')
      BY <2>4 DEF EpochPasses
    <3> QED BY <3>1, SameRingsKeep
  <2>5. CASE UNCHANGED ticketVars
    <3>1. attached' = attached /\ ring' = ring /\ epoch' = epoch /\ (masked => masked')
      BY <2>5 DEF ticketVars
    <3> QED BY <3>1, SameRingsKeep
  <2> QED BY <2>1, <2>2, <2>3, <2>4, <2>5 DEF TicketsNext
<1> QED BY <1>1, <1>2, PTL DEF TicketsSpec

(* Attached configurations hold the keys of the manager's epoch, and none  *)
(* those of a later one, unless a newcomer advanced it.                    *)
THEOREM RingsAlwaysFollow == TicketsSpec => []RingsFollowEpoch
<1>1. TicketsIInv => RingsFollowEpoch
  BY DEF TicketsIInv
<1> QED BY <1>1, TicketsInvariant, PTL

(* Rotation is as prompt as the comment of start says, as long as no       *)
(* newcomer advanced the manager's epoch (attach): an early return of      *)
(* refreshAt is the only way for a listener to keep old keys.              *)
THEOREM PromptUnlessMasked == TicketsSpec => [](~masked => RotationIsPrompt)
<1> DEFINE Seen == checked => epoch = clock
<1>1. TicketsInit => Seen
  BY DEF TicketsInit
<1>2. Seen /\ [TicketsNext]_ticketVars => Seen'
  <2> SUFFICES ASSUME Seen, [TicketsNext]_ticketVars PROVE Seen'
    OBVIOUS
  <2>1. ASSUME NEW c \in TLSConfigs, Attach(c) PROVE Seen'
    BY <2>1 DEF Attach
  <2>2. ASSUME NEW c \in TLSConfigs, Detach(c) PROVE Seen'
    BY <2>2 DEF Detach
  <2>3. CASE Refresh
    BY <2>3 DEF Refresh
  <2>4. CASE EpochPasses
    BY <2>4 DEF EpochPasses
  <2>5. CASE UNCHANGED ticketVars
    BY <2>5 DEF ticketVars
  <2> QED BY <2>1, <2>2, <2>3, <2>4, <2>5 DEF TicketsNext
<1>3. Seen /\ TicketsIInv => (~masked => RotationIsPrompt)
  BY DEF TicketsIInv, RingsFollowEpoch, RotationIsPrompt
<1> QED BY <1>1, <1>2, <1>3, TicketsInvariant, PTL DEF TicketsSpec
=============================================================================
