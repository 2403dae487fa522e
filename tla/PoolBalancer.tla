---------------------------- MODULE PoolBalancer ----------------------------
(***************************************************************************)
(* A pool of backend members (pool.go): requests choose a member in        *)
(* several passes over health flags that the monitor changes meanwhile,    *)
(* and count themselves in flight on it until their response body is       *)
(* closed.  Applying a configuration replaces the pool by a new generation *)
(* with fresh flags and counters; requests under way stay with the         *)
(* generation they loaded, whose monitor is cancelled.                     *)
(*                                                                         *)
(* Each atomic load of a flag is a step of its own.  A pool of one member  *)
(* needs no choice and is left out.                                        *)
(***************************************************************************)
EXTENDS Integers, Sequences, FiniteSets, SequencesExt

CONSTANTS N,              \* members, in the order of the configuration
          Weight,         \* member -> weight, at least 1
          Methods,        \* balancing methods to consider
          Rise, Fall,     \* probes in a row that change a member's health
          Requests,       \* requests at a time
          Hashes,         \* values of fnv32(clientIP)
          MaxGens, MaxPicks, MaxProbes   \* bounds

Members == 1..N
Gens == 1..MaxGens

(* Each member has as many places in a turn as its weight.                 *)
Places(S) == UNION {{m} \X (1..Weight[m]) : m \in S}
Share(S) == Cardinality(Places(S))
TotalWeight == Share(Members)

ASSUME PoolAssumption == /\ N \in Nat /\ N > 1
                         /\ Weight \in [Members -> Nat \ {0}]
                         /\ Rise \in Nat \ {0} /\ Fall \in Nat \ {0}
                         /\ Methods \subseteq {"round_robin", "least_conn", "ip_hash", "random"}
                         /\ Hashes \subseteq Nat /\ IsFiniteSet(Requests)
                         /\ MaxGens \in Nat \ {0} /\ MaxPicks \in Nat /\ MaxProbes \in Nat

VARIABLES
  method,            \* p.method
  gen,               \* the generation new requests use
  healthy, ok, bad,  \* generation -> member -> flag, okStreak, failStreak
  turn,              \* generation -> member its monitor probes next
  active,            \* generation -> member -> requests in flight
  rr,                \* generation -> round-robin cursor
  req,               \* request -> where it is
  trail,             \* history: last probe results
  flipped,           \* history: a health flag of the generation changed
  tally,             \* history: members chosen by weight
  picks, probes

monitorVars == <<healthy, ok, bad, turn, trail, flipped, probes>>
poolVars == <<method, gen>>
vars == <<method, gen, healthy, ok, bad, turn, active, rr, req, trail, flipped,
          tally, picks, probes>>

(* A request: the generation it loaded, its position in the current pass,  *)
(* whether only healthy members are eligible, the sum of the pass, what is *)
(* left of its index, the member found, the fall-back member.  History:    *)
(* members up at some time, and all the time, since the choice began.      *)
NoRequest == [st |-> "none", gen |-> 1, at |-> 1, only |-> FALSE, n |-> 0, idx |-> 0,
              best |-> 0, low |-> 0, other |-> 0, seen |-> {}, kept |-> {}]
Choosing == {"count", "least", "nth", "total", "weigh"}

Each(v) == [g \in Gens |-> [m \in Members |-> v]]

Init ==
  /\ method \in Methods /\ gen = 1
  /\ healthy = Each(TRUE) /\ ok = Each(0) /\ bad = Each(0) /\ turn = [g \in Gens |-> 1]
  /\ active = Each(0) /\ rr = [g \in Gens |-> 0]
  /\ req = [r \in Requests |-> NoRequest]
  /\ trail = Each(<<>>) /\ flipped = [g \in Gens |-> FALSE] /\ tally = Each(0)
  /\ picks = 0 /\ probes = 0

-----------------------------------------------------------------------------
(* pick.                                                                   *)

Up(g) == {m \in Members : healthy[g][m]}
Eligible(q, m) == q.only => healthy[q.gen][m]

(* The request goes on to the next member of the pass, or to another pass. *)
At(r, p) == /\ req[r].st = p
            /\ UNCHANGED <<poolVars, monitorVars, active, picks>>
Pass(q, p) == [q EXCEPT !.st = p, !.at = 1]
Found(q, m) == [q EXCEPT !.st = "picked", !.best = m]
Indexed(q, i, m) == [Pass(q, "nth") EXCEPT !.idx = i, !.other = m]
Becomes(r, p) == req' = [req EXCEPT ![r] = p]

Start(r) ==
  /\ req[r].st = "none" /\ picks < MaxPicks
  /\ picks' = picks + 1
  /\ req' = [req EXCEPT ![r] = [NoRequest EXCEPT !.st = "count", !.gen = gen,
                                                 !.seen = Up(gen), !.kept = Up(gen)]]
  /\ UNCHANGED <<poolVars, monitorVars, active, rr, tally>>

(* After healthyCount: without a healthy member all are eligible.          *)
Counted(r, q, eligible) ==
  \/ method = "least_conn" /\ Becomes(r, Pass(q, "least"))
  \/ /\ method = "ip_hash"
     /\ \E h \in Hashes : Becomes(r, Indexed(q, h % eligible, 1 + (h % N)))
  \/ /\ method = "random"
     /\ \E i \in 0..(eligible - 1), m \in Members : Becomes(r, Indexed(q, i, m))
  \/ method = "round_robin" /\ Becomes(r, [Pass(q, "total") EXCEPT !.n = 0])

Count(r) ==
  /\ At(r, "count")
  /\ LET q == req[r]
         n == q.n + IF healthy[q.gen][q.at] THEN 1 ELSE 0
     IN IF q.at < N
          THEN Becomes(r, [q EXCEPT !.n = n, !.at = @ + 1])
          ELSE Counted(r, [q EXCEPT !.only = n > 0], IF n > 0 THEN n ELSE N)
  /\ UNCHANGED <<rr, tally>>

(* least_conn: the eligible member with the fewest requests; if none is    *)
(* left, the same over all members.                                        *)
Better(q) == Eligible(q, q.at) /\ (q.best = 0 \/ active[q.gen][q.at] < q.low)

LeastDone(q) == IF q.best = 0 /\ q.only
                  THEN [Pass(q, "least") EXCEPT !.only = FALSE]
                  ELSE Found(q, q.best)

Least(r) ==
  /\ At(r, "least")
  /\ LET q == IF Better(req[r])
                THEN [req[r] EXCEPT !.best = req[r].at, !.low = active[req[r].gen][req[r].at]]
                ELSE req[r]
     IN req' = [req EXCEPT ![r] = IF q.at < N THEN [q EXCEPT !.at = @ + 1] ELSE LeastDone(q)]
  /\ UNCHANGED <<rr, tally>>

(* Mutated form: the n-th eligible member, or none.                        *)
NoneLeft(q) == Found(q, 0)

(* ip_hash, random: nthEligible, then the fall-back.                       *)
NthDone(q) == Found(q, q.other)

Nth(r) ==
  /\ At(r, "nth")
  /\ LET q == req[r]
         p == IF Eligible(q, q.at) THEN [q EXCEPT !.idx = @ - 1] ELSE q
     IN req' = [req EXCEPT ![r] =
          IF p.idx < 0 THEN Found([p EXCEPT !.idx = 0], q.at)
          ELSE IF q.at < N THEN [p EXCEPT !.at = @ + 1] ELSE NthDone(p)]
  /\ UNCHANGED <<rr, tally>>

(* round_robin: the weights of the eligible members, all if none is left.  *)
Total(r) ==
  /\ At(r, "total")
  /\ LET q == req[r]
         sum == q.n + IF Eligible(q, q.at) THEN Weight[q.at] ELSE 0
         n == IF sum = 0 THEN TotalWeight ELSE sum
     IN IF q.at < N
          THEN req' = [req EXCEPT ![r].n = sum, ![r].at = @ + 1] /\ UNCHANGED rr
          ELSE /\ rr' = [rr EXCEPT ![q.gen] = @ + 1]
               /\ req' = [req EXCEPT ![r] = [Pass(q, "weigh") EXCEPT
                            !.only = @ /\ sum # 0, !.n = n, !.idx = (rr[q.gen] + 1) % n]]
  /\ UNCHANGED tally

Within(i, w) == i < w

(* The member the cursor falls on; the first one if it has gone.           *)
Weigh(r) ==
  /\ At(r, "weigh")
  /\ LET q == req[r]
         hit == Eligible(q, q.at) /\ Within(q.idx, Weight[q.at])
         m == IF hit THEN q.at ELSE 1
     IN IF hit \/ q.at = N
          THEN /\ req' = [req EXCEPT ![r] = Found(q, m)]
               /\ tally' = [tally EXCEPT ![q.gen][m] = @ + 1]
          ELSE /\ req' = [req EXCEPT ![r].at = @ + 1,
                            ![r].idx = IF Eligible(q, q.at) THEN @ - Weight[q.at] ELSE @]
               /\ UNCHANGED tally
  /\ UNCHANGED rr

-----------------------------------------------------------------------------
(* lbTransport.RoundTrip and countingBody.                                 *)

Add(r, d) == active' = [active EXCEPT ![req[r].gen][req[r].best] = @ + d]
Move(r, p) == /\ req' = [req EXCEPT ![r] = IF p = "none" THEN NoRequest ELSE [@ EXCEPT !.st = p]]
              /\ UNCHANGED <<poolVars, monitorVars, rr, tally, picks>>

Send(r) == req[r].st = "picked" /\ Add(r, 1) /\ Move(r, "sent")

(* The backend answers, or the round trip fails.                           *)
Answer(r) ==
  /\ req[r].st = "sent"
  /\ \/ Move(r, "open") /\ UNCHANGED active
     \/ Move(r, "none") /\ Add(r, -1)

(* Mutated form: each Close counts.                                        *)
CountEach(r) == -1

(* The compare-and-swap of countingBody.one.                               *)
CountOnce(r) == IF req[r].st = "open" THEN -1 ELSE 0

(* The body may be closed once or twice.                                   *)
Close(r) ==
  /\ \/ req[r].st = "open" /\ Move(r, "closed")
     \/ req[r].st = "closed" /\ Move(r, "none")
  /\ Add(r, CountOnce(r))

-----------------------------------------------------------------------------
(* startMonitor: probes one member after another; streaks beyond their     *)
(* threshold do not matter.  A cancelled monitor's probes fail.            *)

AtMost(n, k) == IF n > k THEN k ELSE n

(* Mutated form: a failure does not interrupt the streak of successes.     *)
CountUp(streak, hit, threshold) == IF hit THEN AtMost(streak + 1, threshold) ELSE streak

Streak(streak, hit, threshold) == IF hit THEN AtMost(streak + 1, threshold) ELSE 0

Probe(g, alive) ==
  /\ g <= gen /\ (alive => g = gen)
  /\ probes < MaxProbes /\ probes' = probes + 1
  /\ LET m == turn[g]
         up == Streak(ok[g][m], alive, Rise)
         down == Streak(bad[g][m], ~alive, Fall)
         flag == IF alive THEN healthy[g][m] \/ up = Rise ELSE healthy[g][m] /\ down < Fall
     IN /\ ok' = [ok EXCEPT ![g][m] = up]
        /\ bad' = [bad EXCEPT ![g][m] = down]
        /\ healthy' = [healthy EXCEPT ![g][m] = flag]
        /\ flipped' = [flipped EXCEPT ![g] = @ \/ flag # healthy[g][m]]
        /\ trail' = [trail EXCEPT ![g][m] =
                       LET t == Append(@, alive) IN
                       IF Len(t) > Rise + Fall THEN Tail(t) ELSE t]
        /\ req' = [r \in Requests |->
             IF req[r].st \in Choosing /\ req[r].gen = g
             THEN IF flag THEN [req[r] EXCEPT !.seen = @ \cup {m}]
                          ELSE [req[r] EXCEPT !.kept = @ \ {m}]
             ELSE req[r]]
  /\ turn' = [turn EXCEPT ![g] = 1 + (@ % N)]
  /\ UNCHANGED <<poolVars, active, rr, tally, picks>>

(* buildRuntime and the swap: a new generation, all members up.            *)
Apply ==
  /\ gen < MaxGens /\ gen' = gen + 1
  /\ UNCHANGED <<method, monitorVars, active, rr, req, tally, picks>>

Next ==
  \/ Apply
  \/ \E g \in Gens, alive \in BOOLEAN : Probe(g, alive)
  \/ \E r \in Requests : \/ Start(r) \/ Count(r) \/ Least(r) \/ Nth(r) \/ Total(r)
                         \/ Weigh(r) \/ Send(r) \/ Answer(r) \/ Close(r)

Spec == Init /\ [][Next]_vars
-----------------------------------------------------------------------------
(* Properties.                                                             *)

States == {"none", "picked", "sent", "open", "closed"} \cup Choosing

Progress == [st : States, gen : Gens, at : Members, only : BOOLEAN, n : Nat, idx : Int,
             best : 0..N, low : Int, other : 0..N, seen : SUBSET Members, kept : SUBSET Members]

TypeOK ==
  /\ method \in Methods /\ gen \in Gens
  /\ healthy \in [Gens -> [Members -> BOOLEAN]]
  /\ ok \in [Gens -> [Members -> 0..Rise]] /\ bad \in [Gens -> [Members -> 0..Fall]]
  /\ turn \in [Gens -> Members]
  /\ active \in [Gens -> [Members -> Int]]
  /\ rr \in [Gens -> Nat]
  /\ req \in [Requests -> Progress]
  /\ picks \in 0..MaxPicks /\ probes \in 0..MaxProbes

(* The in-flight count least_conn compares: every request is counted on    *)
(* the member it was sent to, in the generation it came from, from sending *)
(* to the first close of its body or to its failure, across swaps of the   *)
(* configuration; so the counts return to zero and never fall below.       *)
InFlight(g, m) == {r \in Requests : req[r].gen = g /\ req[r].best = m
                                       /\ req[r].st \in {"sent", "open"}}
InFlightExact ==
  \A g \in Gens, m \in Members : active[g][m] = Cardinality(InFlight(g, m))

(* A pool with members always yields one, whatever flags change between    *)
(* the passes.                                                             *)
FailsOpen ==
  \A r \in Requests : req[r].st \in {"picked", "sent", "open"} => req[r].best \in Members

(* A healthy member is preferred: if some member stayed up during the      *)
(* choice, the chosen one was up at some time during it.  The methods that *)
(* count first and index later promise this only when no flag changed.     *)
HealthyFirst ==
  \A r \in Requests :
    (/\ req[r].st = "picked" /\ req[r].kept # {}
     /\ (method = "least_conn" \/ req[r].kept = req[r].seen))
       => req[r].best \in req[r].seen

(* Round robin gives each member its share exactly: after each full turn   *)
(* of the cursor in which no flag changed, whatever way the requests       *)
(* interleaved.                                                            *)
WeightedShare ==
  \A g \in Gens :
    (/\ method = "round_robin" /\ ~flipped[g]
     /\ \A r \in Requests : ~(req[r].st = "weigh" /\ req[r].gen = g)
     /\ rr[g] % TotalWeight = 0)
       => \A m \in Members : tally[g][m] * TotalWeight = rr[g] * Weight[m]

(* Health changes only after Rise successes, or Fall failures, in a row:   *)
(* a member that flaps faster keeps its state.                             *)
LastOf(t, k) == SubSeq(t, Len(t) - k + 1, Len(t))

FlipsFollowStreaks ==
  \A g \in Gens, m \in Members :
    /\ healthy'[g][m] /\ ~healthy[g][m] =>
         Len(trail'[g][m]) >= Rise /\ ToSet(LastOf(trail'[g][m], Rise)) = {TRUE}
    /\ ~healthy'[g][m] /\ healthy[g][m] =>
         Len(trail'[g][m]) >= Fall /\ ToSet(LastOf(trail'[g][m], Fall)) = {FALSE}

Hysteresis == [][FlipsFollowStreaks]_vars

(* Requests follow health and weight, and health follows the probes.       *)
MembersFollowHealth == [](HealthyFirst /\ WeightedShare) /\ Hysteresis

(* Why a choice finds a member: what is known of it in each pass.          *)
Sound(q) ==
  /\ q.st = "least" /\ ~q.only /\ q.at > 1 => q.best \in Members
  /\ q.st = "nth" => q.other \in Members
  /\ q.st \in {"picked", "sent", "open", "closed"} => q.best \in Members

ChoiceInv == \A r \in Requests : Sound(req[r])

(* The inductive invariant.                                                *)
PoolIInv == TypeOK /\ ChoiceInv /\ InFlightExact

(* And of the members that are preferred.  In each pass: which members a   *)
(* request saw up, and what that leaves for the rest of the pass.  While   *)
(* no flag of a generation changed, the members' shares: those chosen and  *)
(* those the requests in the last pass will choose are what the turns of   *)
(* the cursor give.  The streaks are what the last probes say.             *)
Behind(S, m) == S \cap 1..(m - 1)
Ahead(S, m) == S \cap m..N
Steady(q) == q.kept = q.seen /\ q.kept # {}

Informed(q) ==
  /\ q.st \in Choosing => q.kept \subseteq Up(q.gen) /\ Up(q.gen) \subseteq q.seen
  /\ q.st = "count" => /\ q.best = 0 /\ (Behind(q.kept, q.at) # {} => q.n > 0)
                       /\ q.kept = q.seen => q.n = Cardinality(Behind(q.kept, q.at))
  /\ q.st = "least" => /\ method = "least_conn"
                       /\ q.kept # {} => /\ q.only /\ (q.best # 0 => q.best \in q.seen)
                                         /\ Behind(q.kept, q.at) # {} => q.best # 0
  /\ q.st = "nth" => /\ method \in {"ip_hash", "random"}
                     /\ Steady(q) => q.only /\ q.idx \in 0..(Cardinality(Ahead(q.kept, q.at)) - 1)
  /\ q.st = "total" => /\ method = "round_robin"
                       /\ Steady(q) => q.only /\ q.n = Share(Behind(q.kept, q.at))
  /\ q.st = "weigh" => /\ method = "round_robin"
                       /\ Steady(q) => q.only /\ q.idx \in 0..(Share(Ahead(q.kept, q.at)) - 1)
  /\ q.st = "picked" /\ q.kept # {} /\ (method = "least_conn" \/ q.kept = q.seen) => q.best \in q.seen

AllUp(g) == /\ Up(g) = Members
            /\ \A r \in Requests : req[r].st \in Choosing /\ req[r].gen = g => req[r].kept = Members

Before(m) == Share(1..(m - 1))
Lands(i, m) == Before(m) <= i /\ i < Before(m) + Weight[m]
DueTo(g, m) == {r \in Requests : /\ req[r].st = "weigh" /\ req[r].gen = g
                                 /\ Lands(Before(req[r].at) + req[r].idx, m)}
Turned(p, m) == {k \in 1..p : Lands(k, m)}

Shared(g) ==
  \E a \in 0..rr[g], p \in 0..(TotalWeight - 1) :
    /\ rr[g] = a * TotalWeight + p
    /\ \A m \in Members : tally[g][m] + Cardinality(DueTo(g, m)) = a * Weight[m] + Cardinality(Turned(p, m))

(* The last k results were v.                                              *)
Ends(t, k, v) == k <= Len(t) /\ \A j \in 1..Len(t) : j > Len(t) - k => t[j] = v

Streaks(g, m) == /\ Len(trail[g][m]) <= Rise + Fall
                 /\ Ends(trail[g][m], ok[g][m], TRUE) /\ Ends(trail[g][m], bad[g][m], FALSE)

HistoryOK == /\ trail \in [Gens -> [Members -> Seq(BOOLEAN)]] /\ flipped \in [Gens -> BOOLEAN]
             /\ tally \in [Gens -> [Members -> Nat]]

HealthIInv ==
  /\ HistoryOK /\ \A r \in Requests : Informed(req[r])
  /\ \A g \in Gens : ~flipped[g] => AllUp(g) /\ Shared(g)
  /\ \A g \in Gens, m \in Members : Streaks(g, m)
=============================================================================
