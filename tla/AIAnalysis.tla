----------------------------- MODULE AIAnalysis -----------------------------
(***************************************************************************)
(* The AI engine of ai.go: requests that pass a wrapped site, WAF matches  *)
(* that are joined to the live request they came from, the bounded queue,  *)
(* the workers that ask the model, and the blocklist of site and client.   *)
(*                                                                         *)
(* What the model answers depends on the request it was shown: malicious   *)
(* may be the verdict on a hostile request, and on a match that found no   *)
(* request to be joined to.  Time is passing: an entry of the blocklist    *)
(* expires and three seconds of deduplication end at any step.  Prompts,   *)
(* providers, redaction and the verdict ring are left out; sampling is a   *)
(* choice.  A request has a query, so that it is registered under its URI  *)
(* and under its path.                                                     *)
(***************************************************************************)
EXTENDS Naturals, FiniteSets, Sequences

CONSTANTS Sites, Clients, URIs, Path,   \* Path is the path of every URI
          Requests, Workers,
          QueueSize,
          MaxBlocks, MaxChanges         \* bounds: entries ever added, changes of configuration

VARIABLES
  mode,              \* AI mode of each site in the runtime
  cfg, enabled,      \* cfg.Enabled, and the flag stored after it
  changes,           \* of either, so far
  request,           \* the request each id stands for
  pending,           \* live requests by client and URI
  dedupe, jobs, job, \* recent keys, the queue, what each worker analyzes
  block, expired,    \* the blocklist, and the entries whose time is over
  update,            \* copy-on-write in progress, of each updater
  owed,              \* entries added and not replaced or unblocked since
  hostile, bare,     \* clients that sent a hostile request, that matched unjoined
  watched            \* site and client of requests handled in block mode

configVars == <<mode, cfg, enabled, changes>>
trafficVars == <<request, pending, hostile, watched>>
blockVars == <<block, expired, update, owed>>
aiVars == <<configVars, trafficVars, dedupe, jobs, job, blockVars, bare>>

Nothing == [is |-> "nothing"]
Gone == [is |-> "gone"]
Updaters == Workers \cup {"operator", "janitor"}

AIInit ==
  /\ mode = [s \in Sites |-> "block"] /\ cfg = TRUE /\ enabled = TRUE /\ changes = 0
  /\ request = [r \in Requests |-> Nothing] /\ pending = [k \in {} |-> Nothing]
  /\ dedupe = {} /\ jobs = <<>> /\ job = [w \in Workers |-> Nothing]
  /\ block = {} /\ expired = {} /\ update = [u \in Updaters |-> Nothing] /\ owed = {}
  /\ hostile = {} /\ bare = {} /\ watched = {}

-----------------------------------------------------------------------------
(* Configuration: the runtime is swapped, then the engine is configured.   *)

ApplyMode(s, m) ==
  /\ changes < MaxChanges /\ changes' = changes + 1
  /\ mode' = [mode EXCEPT ![s] = m]
  /\ UNCHANGED <<cfg, enabled, trafficVars, dedupe, jobs, job, blockVars, bare>>

Configure == /\ enabled = cfg /\ cfg' = ~cfg
             /\ changes < MaxChanges /\ changes' = changes + 1
             /\ UNCHANGED <<mode, enabled, trafficVars, dedupe, jobs, job, blockVars, bare>>

ConfigureFlag == /\ enabled # cfg /\ enabled' = cfg
                 /\ UNCHANGED <<mode, cfg, changes, trafficVars, dedupe, jobs, job, blockVars, bare>>

-----------------------------------------------------------------------------
(* The request path.                                                       *)

IsBlocked(s, c) == \E e \in block \ expired : e.site = s /\ e.client = c

(* Mutated form: requests are joined by URI alone.                         *)
ByURI(c, u) == <<u>>

PendingKey(c, u) == <<c, u>>

(* wrap, up to the handler it calls.  A site whose mode is off has no      *)
(* wrapper, and its matches are not analyzed.                              *)
Arrive(r, s, c, u, bad) ==
  LET keys == {PendingKey(c, u), PendingKey(c, Path)}
      live == mode[s] # "off" /\ enabled /\ cfg
      refused == live /\ mode[s] = "block" /\ IsBlocked(s, c)
  IN  /\ request[r] = Nothing
      /\ request' = [request EXCEPT ![r] =
           IF refused THEN [is |-> "refused", site |-> s, client |-> c]
           ELSE [is |-> "running", site |-> s, client |-> c, uri |-> u, bad |-> bad, mode |-> mode[s],
                 wrapped |-> live, matched |-> FALSE]]
      /\ pending' = IF live /\ ~refused THEN [k \in DOMAIN pending \cup keys |-> IF k \in keys THEN r ELSE pending[k]]
                    ELSE pending
      /\ hostile' = IF bad THEN hostile \cup {c} ELSE hostile
      /\ watched' = IF mode[s] = "block" THEN watched \cup {<<s, c>>} ELSE watched
      /\ UNCHANGED <<configVars, dedupe, jobs, job, blockVars, bare>>

(* enqueue: the key is recorded before the queue is found full.            *)
Enqueue(j) ==
  LET fresh == cfg /\ j.mode # "off" /\ j.key \notin dedupe
  IN  /\ dedupe' = IF fresh THEN dedupe \cup {j.key} ELSE dedupe
      /\ jobs' = IF fresh /\ Len(jobs) < QueueSize THEN Append(jobs, j) ELSE jobs

JobOf(q, site, m, r) ==
  [is |-> "job", site |-> site, client |-> q.client, mode |-> m, bad |-> request[r].bad, joined |-> TRUE,
   key |-> <<q.client, Path>>]
BareJob(q) ==
  [is |-> "job", site |-> q.site, client |-> q.client, mode |-> q.mode, bad |-> TRUE, joined |-> FALSE,
   key |-> <<q.client, q.uri>>]

(* A rule matches while the request runs: enqueueMatch joins it to the     *)
(* request registered under its URI, or else its path.                     *)
Match(r) ==
  LET q == request[r]
      known == {PendingKey(q.client, q.uri), PendingKey(q.client, Path)} \cap DOMAIN pending
      k == IF PendingKey(q.client, q.uri) \in known THEN PendingKey(q.client, q.uri)
           ELSE PendingKey(q.client, Path)
  IN  /\ q.is = "running" /\ ~q.matched
      /\ request' = [request EXCEPT ![r].matched = TRUE]
      /\ IF known # {} THEN Enqueue(JobOf(q, q.site, q.mode, pending[k])) /\ UNCHANGED bare
         ELSE Enqueue(BareJob(q)) /\ bare' = bare \cup {q.client}
      /\ UNCHANGED <<configVars, pending, hostile, watched, job, blockVars>>

(* The wrapped handler has returned: a sampled request is analyzed, and    *)
(* what this request registered, and no later one replaced, is removed.    *)
Finish(r, sampled) ==
  LET q == request[r]
      mine == {k \in DOMAIN pending : pending[k] = r}
  IN  /\ q.is = "running"
      /\ IF q.wrapped /\ sampled THEN Enqueue(JobOf(q, q.site, q.mode, r)) ELSE UNCHANGED <<dedupe, jobs>>
      /\ pending' = [k \in DOMAIN pending \ mine |-> pending[k]]
      /\ request' = [request EXCEPT ![r] = Gone]
      /\ UNCHANGED <<configVars, hostile, watched, job, blockVars, bare>>

Answered(r) == /\ request[r].is = "refused" /\ request' = [request EXCEPT ![r] = Gone]
               /\ UNCHANGED <<configVars, pending, hostile, watched, dedupe, jobs, job, blockVars, bare>>

DedupeEnds == /\ \E k \in dedupe : dedupe' = dedupe \ {k}
              /\ UNCHANGED <<configVars, trafficVars, jobs, job, blockVars, bare>>

-----------------------------------------------------------------------------
(* The blocklist: readers load it without a lock, updaters replace it by a *)
(* copy while they hold blockMu.                                           *)

Unlocked == \A u \in Updaters : update[u] = Nothing

Copy(u, e, drop) ==
  /\ Unlocked /\ update[u] = Nothing
  /\ update' = [update EXCEPT ![u] = [is |-> "update", next |-> (block \ drop) \cup e, drop |-> drop, add |-> e]]
  /\ UNCHANGED <<block, expired, owed>>

Store(u) ==
  /\ update[u] # Nothing
  /\ block' = update[u].next
  /\ owed' = (owed \ update[u].drop) \cup update[u].add
  /\ update' = [update EXCEPT ![u] = Nothing]
  /\ UNCHANGED <<configVars, trafficVars, dedupe, jobs, job, expired, bare>>

Unblock(sites, c) ==
  /\ \E e \in block : e.client = c
  /\ Copy("operator", {}, {e \in block : e.client = c /\ e.site \in sites})
  /\ UNCHANGED <<configVars, trafficVars, dedupe, jobs, job, bare>>

Prune == /\ block \cap expired # {} /\ Copy("janitor", {}, block \cap expired)
         /\ UNCHANGED <<configVars, trafficVars, dedupe, jobs, job, bare>>

Expire(e) == /\ e \in block \ expired /\ expired' = expired \cup {e}
             /\ UNCHANGED <<configVars, trafficVars, dedupe, jobs, job, block, update, owed, bare>>

-----------------------------------------------------------------------------
(* The workers.                                                            *)

(* analyze returns early when the engine was switched off meanwhile.       *)
Take(w) ==
  /\ job[w] = Nothing /\ update[w] = Nothing /\ cfg /\ jobs # <<>>
  /\ job' = [job EXCEPT ![w] = Head(jobs)] /\ jobs' = Tail(jobs)
  /\ UNCHANGED <<configVars, trafficVars, dedupe, blockVars, bare>>

(* What comes back for a job; "other" is any verdict that is not malicious *)
(* or scores too low, a malformed one, and an error.                       *)
Answers(j) == IF j.bad THEN {"malicious", "other"} ELSE {"other"}

Enforces(j) == j.mode = "block"

(* The verdict is malicious and scores the threshold: addBlock replaces    *)
(* the entry of the same site and client.                                  *)
Condemn(w) ==
  LET j == job[w]
      same == {e \in block : e.site = j.site /\ e.client = j.client}
      ids == {e.id : e \in block \cup expired \cup owed \cup UNION {update[u].add : u \in {v \in Updaters : update[v] # Nothing}}}
  IN  /\ j # Nothing /\ "malicious" \in Answers(j) /\ Enforces(j) /\ Cardinality(ids) < MaxBlocks
      /\ \E i \in (1..MaxBlocks) \ ids :
           /\ \A k \in (1..MaxBlocks) \ ids : i <= k
           /\ Copy(w, {[site |-> j.site, client |-> j.client, id |-> i]}, same)
      /\ job' = [job EXCEPT ![w] = Nothing]
      /\ UNCHANGED <<configVars, trafficVars, dedupe, jobs, bare>>

(* Any other verdict, or an error, is logged.                              *)
Acquit(w) == /\ job[w] # Nothing /\ job' = [job EXCEPT ![w] = Nothing]
             /\ UNCHANGED <<configVars, trafficVars, dedupe, jobs, blockVars, bare>>

AINext ==
  \/ \E s \in Sites, m \in {"off", "advisory", "block"} : m # mode[s] /\ ApplyMode(s, m)
  \/ Configure \/ ConfigureFlag
  \/ \E r \in Requests, s \in Sites, c \in Clients, u \in URIs, bad \in BOOLEAN : Arrive(r, s, c, u, bad)
  \/ \E r \in Requests : Match(r) \/ Answered(r) \/ \E sampled \in BOOLEAN : Finish(r, sampled)
  \/ DedupeEnds \/ Prune
  \/ \E c \in Clients : Unblock(Sites, c) \/ \E s \in Sites : Unblock({s}, c)
  \/ \E e \in block : Expire(e)
  \/ \E u \in Updaters : Store(u)
  \/ \E w \in Workers : Take(w) \/ Condemn(w) \/ Acquit(w)

AISpec == AIInit /\ [][AINext]_aiVars

-----------------------------------------------------------------------------
(* Properties.                                                             *)

(* A client is refused only by what it did itself: some request of its own *)
(* was hostile, or one of its matches had lost the request it belonged to, *)
(* and it used that very site in block mode - whatever requests with the   *)
(* same URI, of whichever client or site, run at the same time, and        *)
(* whatever mode changes come between a match and its verdict.             *)
OnlyCulpritsBlocked ==
  \A e \in block : /\ e.client \in hostile \cup bare
                   /\ <<e.site, e.client>> \in watched

(* No update of the blocklist undoes another: what a verdict added stays   *)
(* until it expires, a newer verdict replaces it, or the operator removes  *)
(* it.                                                                     *)
BlocksStay == owed \ expired \subseteq block

(* The blocklist is what the verdicts on each client made it, and nothing  *)
(* else.                                                                   *)
BlocklistSound == OnlyCulpritsBlocked /\ BlocksStay

(* The inductive invariant: what carries a client's name - a registered    *)
(* request, a job, an entry to come - is of what that client did; and the  *)
(* one copy of the blocklist under way is of the list as it is.            *)
JobRec == [is : {"job"}, site : Sites, client : Clients, mode : {"off", "advisory", "block"}, bad : BOOLEAN,
           joined : BOOLEAN, key : Clients \X (URIs \cup {Path})]
RunningRec == [is : {"running"}, site : Sites, client : Clients, uri : URIs, bad : BOOLEAN,
               mode : {"off", "advisory", "block"}, wrapped : BOOLEAN, matched : BOOLEAN]
EntryRec == [site : Sites, client : Clients, id : Nat]
UpdateRec == [is : {"update"}, next : SUBSET EntryRec, drop : SUBSET EntryRec, add : SUBSET EntryRec]
AITypeOK ==
  /\ mode \in [Sites -> {"off", "advisory", "block"}] /\ cfg \in BOOLEAN /\ enabled \in BOOLEAN
  /\ request \in [Requests -> {Nothing, Gone} \cup [is : {"refused"}, site : Sites, client : Clients] \cup RunningRec]
  /\ pending = [k \in DOMAIN pending |-> pending[k]] /\ DOMAIN pending \subseteq Clients \X (URIs \cup {Path})
  /\ jobs \in Seq(JobRec) /\ job \in [Workers -> {Nothing} \cup JobRec]
  /\ block \subseteq EntryRec /\ update \in [Updaters -> {Nothing} \cup UpdateRec]

Culprit(c) == c \in hostile \cup bare
EarnedJob(j) == (j.bad => Culprit(j.client)) /\ (j.mode = "block" => <<j.site, j.client>> \in watched)
EarnedEntry(e) == Culprit(e.client) /\ <<e.site, e.client>> \in watched

RequestsInv ==
  /\ \A r \in Requests : request[r].is = "running" =>
        /\ request[r].bad => request[r].client \in hostile
        /\ request[r].mode = "block" => <<request[r].site, request[r].client>> \in watched
  /\ \A k \in DOMAIN pending : /\ pending[k] \in Requests /\ request[pending[k]].is = "running"
                               /\ request[pending[k]].client = k[1]
JobsInv ==
  /\ \A i \in 1..Len(jobs) : EarnedJob(jobs[i])
  /\ \A w \in Workers : job[w] # Nothing => EarnedJob(job[w])
UpdatesInv ==
  /\ \A u \in Updaters : update[u] # Nothing => /\ update[u].next = (block \ update[u].drop) \cup update[u].add
                                                /\ \A e \in update[u].add : EarnedEntry(e)
  /\ \A u, v \in Updaters : update[u] # Nothing /\ update[v] # Nothing => u = v

AIIInv == AITypeOK /\ RequestsInv /\ JobsInv /\ UpdatesInv /\ BlocklistSound
=============================================================================
