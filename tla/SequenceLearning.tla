-------------------------- MODULE SequenceLearning --------------------------
(***************************************************************************)
(* Learning how clients walk through an API (sequence_api61.go to          *)
(* sequence_api64.go).  Each observation belongs to a session and to a     *)
(* workflow, a cohort of identities; an edge counts, per workflow, how     *)
(* often one operation followed another and in how many sessions.  All     *)
(* three tables are bounded and lose their oldest entry when full, and     *)
(* everything expires.  In DETECT mode an observation is judged by what    *)
(* was learned before it.  The state lock makes each step atomic; times    *)
(* are taken before the queue, so they may run backwards.                  *)
(*                                                                         *)
(* One site.  A session keeps the workflow it started in, although later   *)
(* requests of the same identity may belong to another (its roles change). *)
(***************************************************************************)
EXTENDS Integers, FiniteSets, Functions, FiniteSetsExt

CONSTANTS Keys, Workflows, Ops,
          MaxSessions, MaxTransitions, MaxWorkflows, MaxSeen,
          SessionTTL, AbsoluteTTL, TransitionTTL, WorkflowTTL, StaleAfter,
          MinObservations, MinSessions, MinLearning,
          Confidence, EntryConfidence, DivergenceMin, DivergenceMax, Rare,  \* percent
          MinRun,
          MaxEvents, MaxTime                                 \* bounds

NoOp == "none"

ASSUME SequenceAssumption ==
  /\ {MaxSessions, MaxTransitions, MaxWorkflows} \subseteq Nat \ {0}
  /\ {SessionTTL, AbsoluteTTL, TransitionTTL, WorkflowTTL} \subseteq Nat \ {0}
  /\ TransitionTTL <= WorkflowTTL /\ SessionTTL <= AbsoluteTTL
  /\ NoOp \notin Ops

VARIABLES
  clock, events,
  model,      \* [sessions, edges, workflows, verdicts]
  detecting,  \* the site is in DETECT mode
  excepted    \* verdict types an exception covers

seqVars == <<clock, events, model, detecting, excepted>>

None == <<>>
Without(f, S) == Restrict(f, DOMAIN f \ S)
Having(f, x, v) == [y \in DOMAIN f \cup {x} |-> IF y = x THEN v ELSE f[y]]
Later(a, b) == IF a > b THEN a ELSE b
Sooner(a, b) == IF a < b THEN a ELSE b
(* A model with other tables.                                              *)
Tables(m, ss, es, ws) == [sessions |-> ss, edges |-> es, workflows |-> ws, verdicts |-> m.verdicts]
AnomalyKinds == {"unexpected_entry", "repetition", "divergence", "reversal", "skipped", "unknown"}

SequenceInit ==
  /\ clock = 0 /\ events = 0 /\ detecting = FALSE /\ excepted = {}
  /\ model = [sessions |-> None, edges |-> None, workflows |-> None, verdicts |-> {}]

-----------------------------------------------------------------------------
(* Expiry.  A session that ends moves its workflow's last use.             *)
Expires(s) == LET idle == s.last + SessionTTL IN
              IF idle > s.started + AbsoluteTTL THEN s.started + AbsoluteTTL ELSE idle

Moved(x, t) == [obs |-> x.obs, sessions |-> x.sessions, first |-> x.first, last |-> Later(x.last, t),
                entries |-> x.entries]

(* finalizeSessionLocked for the sessions of S.                            *)
Finalized(m, S, t) ==
  Tables(m, Without(m.sessions, S), m.edges,
         [w \in DOMAIN m.workflows |-> IF \E k \in S : m.sessions[k].wf = w THEN Moved(m.workflows[w], t)
                                       ELSE m.workflows[w]])

(* pruneLocked.                                                            *)
Pruned(m, t) ==
  LET f == Finalized(m, {k \in DOMAIN m.sessions : Expires(m.sessions[k]) <= t}, t)
  IN Tables(m, f.sessions,
            Without(f.edges, {e \in DOMAIN f.edges : f.edges[e].last + TransitionTTL <= t}),
            Without(f.workflows, {w \in DOMAIN f.workflows : f.workflows[w].last + WorkflowTTL <= t}))

Oldest(f) == CHOOSE x \in DOMAIN f : \A y \in DOMAIN f : f[x].last <= f[y].last

(* ensureWorkflowCapacityLocked: the oldest workflow goes with its edges   *)
(* and its sessions.                                                       *)
EvictWorkflow(m) ==
  LET w == Oldest(m.workflows)
  IN Tables(m, Without(m.sessions, {k \in DOMAIN m.sessions : m.sessions[k].wf = w}),
            Without(m.edges, {e \in DOMAIN m.edges : e[1] = w}), Without(m.workflows, {w}))

(* workflowLocked.                                                         *)
NewWorkflow(t) == [obs |-> 0, sessions |-> 0, first |-> t, last |-> t, entries |-> None]

WithWorkflow(m, w, t) ==
  IF w \in DOMAIN m.workflows THEN m
  ELSE LET r == IF Cardinality(DOMAIN m.workflows) >= MaxWorkflows THEN EvictWorkflow(m) ELSE m
       IN Tables(m, r.sessions, r.edges, Having(r.workflows, w, NewWorkflow(t)))

-----------------------------------------------------------------------------
(* What is known well enough to judge by: maturityFor and                  *)
(* transitionEvidenceReadyLocked.                                          *)
Mature(x, n, t) == /\ t - x.last < StaleAfter /\ x.obs >= MinObservations
                   /\ n >= MinSessions /\ t - x.first >= MinLearning

WorkflowMature(m, w, t) == /\ w \in DOMAIN m.workflows
                           /\ Mature(m.workflows[w], m.workflows[w].sessions, t)

From(m, w, o) == {e \in DOMAIN m.edges : e[1] = w /\ e[2] = o}
Total(m, w, o) == MapThenSumSet(LAMBDA e : m.edges[e].obs, From(m, w, o))
AtLeast(m, e, percent) == 100 * m.edges[e].obs >= percent * Total(m, e[1], e[2])
Ready(m, e, t) == /\ e \in DOMAIN m.edges
                  /\ Mature(m.edges[e], m.edges[e].n, t)
Proven(m, e, t) == Ready(m, e, t) /\ AtLeast(m, e, Confidence)

(* sourceBaselineReadyLocked.                                              *)
SourceReady(m, w, o, t) ==
  /\ WorkflowMature(m, w, t) /\ Total(m, w, o) >= MinObservations
  /\ \E e \in From(m, w, o) : Proven(m, e, t)

(* detectUnexpectedEntryLocked.                                            *)
EntryVerdicts(m, w, o, t) ==
  IF /\ WorkflowMature(m, w, t)
     /\ LET known == m.workflows[w].entries
        IN /\ o \notin DOMAIN known
           /\ MapThenSumSet(LAMBDA p : known[p], DOMAIN known) >= MinSessions
           /\ \E p \in DOMAIN known : 100 * known[p] >= EntryConfidence * m.workflows[w].sessions
    THEN {"unexpected_entry"} ELSE {}

(* detectTransitionAnomaliesLocked, for an operation o that follows from   *)
(* for the run-th time in a row.                                           *)
StepVerdicts(m, w, from, o, run, t) ==
  LET direct == <<w, from, o>>
      known == direct \in DOMAIN m.edges
      ready == SourceReady(m, w, from, t)
      best == IF From(m, w, from) = {} THEN 0
              ELSE m.edges[CHOOSE e \in From(m, w, from) :
                     \A d \in From(m, w, from) : m.edges[d].obs <= m.edges[e].obs].obs
      total == Total(m, w, from)
      repeated == /\ ready /\ from = o /\ run >= MinRun
                  /\ 100 * best >= Confidence * total
                  /\ \/ ~Ready(m, direct, t)
                     \/ 100 * m.edges[direct].obs ^ (run - 1) < Rare * total ^ (run - 1)
      diverged == /\ ready /\ known /\ Ready(m, direct, t)
                  /\ 100 * best >= DivergenceMin * total /\ m.edges[direct].obs < best
                  /\ 100 * m.edges[direct].obs <= DivergenceMax * total
      reversed == Proven(m, <<w, o, from>>, t)
      skipped == \E p \in Ops \ {o} : Proven(m, <<w, from, p>>, t) /\ Proven(m, <<w, p, o>>, t)
  IN IF ~WorkflowMature(m, w, t) THEN {}
     ELSE (IF repeated THEN {"repetition"} ELSE {})
       \cup IF known THEN IF diverged THEN {"divergence"} ELSE {}
            ELSE IF reversed THEN {"reversal"}
            ELSE IF ~ready THEN {}
            ELSE IF skipped THEN {"skipped"} ELSE {"unknown"}

-----------------------------------------------------------------------------
(* noteWorkflowSessionStartLocked and noteWorkflowObservationLocked.       *)
Bumped(ops, o) == [p \in DOMAIN ops \cup {o} |->
                     (IF p \in DOMAIN ops THEN ops[p] ELSE 0) + IF p = o THEN 1 ELSE 0]
Started(m, w, o, t) ==
  LET r == WithWorkflow(m, w, t)
      x == r.workflows[w]
  IN Tables(m, r.sessions, r.edges, Having(r.workflows, w,
       [obs |-> x.obs, sessions |-> x.sessions + 1, first |-> Sooner(x.first, t), last |-> Later(x.last, t),
        entries |-> Bumped(x.entries, o)]))
Observed(m, w, t) ==
  LET r == WithWorkflow(m, w, t)
      x == r.workflows[w]
  IN Tables(m, r.sessions, r.edges, Having(r.workflows, w,
       [obs |-> x.obs + 1, sessions |-> x.sessions, first |-> Sooner(x.first, t), last |-> Later(x.last, t),
        entries |-> x.entries]))

(* ensureSessionCapacityLocked.                                            *)
RoomForSession(m, t) == IF Cardinality(DOMAIN m.sessions) >= MaxSessions
                          THEN Finalized(m, {Oldest(m.sessions)}, t) ELSE m

(* A session counts once for an edge, as long as it can remember it.       *)
CountsSession(s, e) == e \notin s.seen /\ Cardinality(s.seen) < MaxSeen

(* The edge, with the session that passed it; sessions, by the event they  *)
(* began with, are a history of n, the code's SessionCount.               *)
Passed(m, e, s, t) ==
  LET es == IF e \notin DOMAIN m.edges /\ Cardinality(DOMAIN m.edges) >= MaxTransitions
            THEN Without(m.edges, {Oldest(m.edges)}) ELSE m.edges
      old == IF e \in DOMAIN es THEN es[e] ELSE [obs |-> 0, n |-> 0, sessions |-> {}, first |-> t, last |-> t]
      new == [obs |-> old.obs + 1, n |-> old.n + (IF CountsSession(s, e) THEN 1 ELSE 0),
              sessions |-> old.sessions \cup (IF CountsSession(s, e) THEN {s.id} ELSE {}),
              first |-> old.first, last |-> t]
  IN Tables(m, m.sessions, Having(es, e, new), m.workflows)

(* Mutated form: the observation is judged by a model it is part of.       *)
JudgedAfter(before, after) == after

(* The model an observation is judged by.                                  *)
JudgedBy(before, after) == before

(* process.  (The absolute expiry it checks again was applied by pruning.) *)
Process(key, w, o, t) ==
  LET pruned == Pruned(model, t)
      fresh == key \notin DOMAIN pruned.sessions
      begun == IF fresh THEN Started(RoomForSession(pruned, t), w, o, t) ELSE pruned
      s == IF fresh THEN [wf |-> w, cur |-> NoOp, run |-> 0, seen |-> {}, started |-> t,
                        last |-> t, id |-> events]
           ELSE pruned.sessions[key]
      from == s.cur
      run == IF from = o THEN s.run + 1 ELSE 1
      e == <<w, from, o>>
      noted == Observed(begun, w, t)
      learned == IF from = NoOp THEN noted ELSE Passed(noted, e, s, t)
      now == [wf |-> s.wf, cur |-> o, run |-> run, started |-> s.started, last |-> t, id |-> s.id,
              seen |-> s.seen \cup (IF from # NoOp /\ CountsSession(s, e) THEN {e} ELSE {})]
      judged == (IF fresh THEN EntryVerdicts(pruned, w, o, t) ELSE {})
                \cup IF from = NoOp THEN {}
                     ELSE StepVerdicts(JudgedBy(begun, learned), w, from, o, run, t)
  IN /\ events < MaxEvents /\ events' = events + 1
     /\ model' = [sessions |-> Having(learned.sessions, key, now), edges |-> learned.edges,
                  workflows |-> learned.workflows, verdicts |-> IF detecting THEN judged \ excepted ELSE {}]
     /\ UNCHANGED <<clock, detecting, excepted>>

(* publishSnapshot prunes on its ticker.                                   *)
Prune == /\ LET m == Pruned(model, clock)
            IN model' = [sessions |-> m.sessions, edges |-> m.edges, workflows |-> m.workflows, verdicts |-> {}]
         /\ UNCHANGED <<clock, events, detecting, excepted>>

(* setSequenceMode.                                                        *)
SetSequenceMode(detect) ==
  /\ detect => \E w \in DOMAIN model.workflows : WorkflowMature(model, w, clock)
  /\ detecting' = detect
  /\ UNCHANGED <<clock, events, model, excepted>>

(* resetAndRelearn: exceptions stay.                                       *)
ResetAndRelearn ==
  /\ events > 0 /\ detecting' = FALSE
  /\ model' = [sessions |-> None, edges |-> None, workflows |-> None, verdicts |-> {}]
  /\ UNCHANGED <<clock, events, excepted>>

(* createSequenceException, deleteSequenceException and expiry.            *)
SetException(v) == /\ excepted' \in {excepted \cup {v}, excepted \ {v}}
                   /\ UNCHANGED <<clock, events, model, detecting>>

TimePasses == /\ clock < MaxTime /\ clock' = clock + 1
              /\ UNCHANGED <<events, model, detecting, excepted>>

SequenceNext ==
  \/ \E key \in Keys, w \in Workflows, o \in Ops, t \in {clock, Later(0, clock - 1)} :
       Process(key, w, o, t)
  \/ Prune \/ ResetAndRelearn \/ TimePasses
  \/ \E d \in BOOLEAN : SetSequenceMode(d)
  \/ SetException("unknown")

SequenceSpec == SequenceInit /\ [][SequenceNext]_seqVars
-----------------------------------------------------------------------------
(* Properties.                                                             *)

(* Whatever expires, is evicted or is relearned, in an order of times that *)
(* may run backwards: an edge belongs to a workflow that is still known,   *)
(* has not been known for longer than it (both ages decide what is         *)
(* mature), its session count is the number of different sessions, each    *)
(* counted once, and it never exceeds its observations; no table outgrows  *)
(* its bound.                                                              *)
LearnedModelSound ==
  /\ \A e \in DOMAIN model.edges :
       /\ e[1] \in DOMAIN model.workflows
       /\ model.workflows[e[1]].first <= model.edges[e].first
       /\ model.edges[e].n = Cardinality(model.edges[e].sessions)
       /\ model.edges[e].n <= model.edges[e].obs
  /\ Cardinality(DOMAIN model.edges) <= MaxTransitions
  /\ Cardinality(DOMAIN model.workflows) <= MaxWorkflows
  /\ Cardinality(DOMAIN model.sessions) <= MaxSessions

(* In DETECT mode a transition nobody took before is reported the first    *)
(* time it happens, when what usually follows the operation is well known  *)
(* and no exception covers it: an observation must not be evidence for     *)
(* itself.                                                                 *)
FirstTimeIsReported ==
  [][\A k \in DOMAIN model.sessions, w \in Workflows, o \in Ops :
       LET from == model.sessions[k].cur IN
       /\ detecting /\ excepted = {} /\ Process(k, w, o, clock)
       /\ k \in DOMAIN Pruned(model, clock).sessions
       /\ SourceReady(Pruned(model, clock), w, from, clock)
       /\ <<w, from, o>> \notin DOMAIN Pruned(model, clock).edges
       => model'.verdicts # {}]_seqVars

(* Learning is sound: edges have the evidence they claim, and an           *)
(* observation is none for itself.                                         *)
SequencesSound == []LearnedModelSound /\ FirstTimeIsReported

(* The inductive invariant.  No edge was used later than its workflow, so  *)
(* it expires no later; a session that an edge counted remembers the edge; *)
(* no two sessions began with the same event.                              *)
SessionsKnown(m, n) ==
  /\ \A k \in DOMAIN m.sessions : /\ m.sessions[k].id \in 0..n - 1 /\ m.sessions[k].last \in Int
                                  /\ m.sessions[k].cur \in Ops
  /\ \A j, k \in DOMAIN m.sessions : m.sessions[j].id = m.sessions[k].id => j = k

EdgeKnown(m, n, e) ==
  LET x == m.edges[e]
  IN /\ e \in Workflows \X Ops \X Ops /\ e[1] \in DOMAIN m.workflows
     /\ x.last \in Int /\ x.last <= m.workflows[e[1]].last
     /\ x.first \in Int /\ m.workflows[e[1]].first <= x.first
     /\ x.obs \in Nat /\ x.n \in Nat /\ x.n <= x.obs
     /\ IsFiniteSet(x.sessions) /\ x.n = Cardinality(x.sessions) /\ x.sessions \subseteq 0..n - 1
     /\ \A k \in DOMAIN m.sessions : m.sessions[k].id \in x.sessions => e \in m.sessions[k].seen

Within(S, max) == IsFiniteSet(S) /\ Cardinality(S) <= max

ModelKnown(m, n) ==
  /\ SessionsKnown(m, n) /\ \A e \in DOMAIN m.edges : EdgeKnown(m, n, e)
  /\ \A w \in DOMAIN m.workflows : m.workflows[w].last \in Int /\ m.workflows[w].first \in Int
  /\ Within(DOMAIN m.sessions, MaxSessions) /\ Within(DOMAIN m.edges, MaxTransitions)
  /\ Within(DOMAIN m.workflows, MaxWorkflows)

SequenceIInv == clock \in Nat /\ events \in Nat /\ ModelKnown(model, events)
=============================================================================
