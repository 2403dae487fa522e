# waf-proxy: specifications, model checks and proofs

TLA+ modules that model the stateful parts of waf-proxy, TLC configurations that
check them on small instances, and theorems about them that TLAPS checks for
every value of the constants. File names without a directory are in the
repository root (`main.go`, `admin.go`, `listeners.go`, ...).

Contents: 1 the system, 2 modules and their correspondence to the code, 3 runs,
4 what does not hold, 5 proofs, 6 what is not modelled, 7 plan.

## 1. The system

waf-proxy is one Go process that terminates TLS, inspects requests with Coraza,
balances them over pools and learns about the APIs behind it. A second process,
`cmd/waf-tlsfront`, can own the public TLS port instead and pass requests on
through Unix sockets. Two waf-proxy nodes can form an HA pair.

Everything live hangs off one atomic pointer `server.rt` to an immutable runtime
built from a `Config`. Requests load the pointer once. The control plane replaces
it: it derives a configuration, stages it as a temporary file, moves the network
over (frontend, listeners, managed addresses), swaps the pointer, renames the file.

| Component | State | Operations | Interacts with | Hard because | Correct when |
|---|---|---|---|---|---|
| Configuration transaction (`main.go` 829-942, 1113-1331, `admin.go` 1511-1652) | `rt`, `applyMu`, `config.json`, its draft, staged files | PUT, partial mutations, peer sync, reload, save and discard draft, boot | listeners, frontend, addresses, HA push | every step can fail after earlier ones took effect; readers outside the lock; crash between rename and cleanup | network, runtime and file agree between transactions; no acknowledged change is lost; one owner of the public port |
| Data-plane listeners (`listeners.go`) | `live` map, sockets, Unix paths, retry timers | `startAll`, `reconcile`, `restoreOldLocked`, `retry`, `listenerFailed`, `gracefulClose`, `shutdown` | called by `applyEx` before the swap; the frontend | goroutines close sockets later; timers fire between reconcile and swap; deferred unlinks | the map is true; desired addresses are served or retried, others are not |
| HA pair (`ha.go`) | role, last sync, sync loop and its one pending slot | `configure`, `tick`, `pushConfig`, `runSyncLoop`, peer handler, manual sync | called after commit; peer's transaction | latest-wins slot, lost answers, late applies, manual sync without the lock | reported status is true; one active node; no echo |
| Managed addresses (`ipmanage.go`) | set of addresses it owns | `reconcile`, `releaseAll` | `applyEx`, the kernel | adoption of present addresses, failing deletes | removes what it added and only that |
| TLS frontend control (`tls_frontend_control.go`, `cmd/waf-tlsfront`) | control file, status file, child process | `publish`, `publishAndWait`, the manager's polling reconcile | `applyEx`; nginx | two processes communicate through two files | the acknowledged mode is the running one |
| TLS tickets (`tls_session.go`) | attached TLS configurations, epoch | `attach`, `detach`, `refreshAt` | listeners attach and detach | two places advance the epoch | every attached configuration has the keys of the epoch |
| Administrators, sessions, login limiter (`users.go`, `admin_login_hardening.go`) | session map, attempt counters | login, logout, revoke, user changes | users live in `Config` | password check between reading a snapshot and creating a session; overflow entry | sessions follow the account; counters are exact below the limit |
| Configuration checks and routing (`main.go` 322-828, 1332-1460, 1900-2100, `internal/tlsfront`) | the tables of a runtime | `validate`, `validateDraft`, `migrateConfig`, lookup of site and certificate | drafts, applies, nginx | two checks of one thing; sockets outlive runtimes; nginx has rules of its own | what is accepted can be built; every request goes to its owner |
| Audit log (`users.go`) | ring, file | `add`, rotation | admin handlers | - | append only |
| Pools and health monitors (`pool.go`) | member health, rise and fall counters, in-flight counts, cursor | `pick`, `RoundTrip`, monitor probes, rebuild on apply | runtime swap closes old pools | two passes over members whose health changes; release exactly once | no unhealthy member is chosen when a healthy one is there; counts return to zero |
| L7 abuse limiter (`l7_abuse.go`) | token buckets, overflow bucket | `allow`, prune, evict, concurrency release | request path | eviction while requests hold pointers; limits | the limit holds for every key |
| Observation planes (`observations.go`, `sequence_api61.go`, `graphql_api8.go`, `object_relationship_api72.go`, `matchlog.go`) | bounded queues, drop counters, accepting flag | enqueue, worker, stop and drain | request path, shutdown | accepting flag and send are two steps | accepted events are processed or counted |
| API-intelligence persistence (`api_security_persist.go`, `sitemap_persist.go`) | state files, autosave timer | autosave, operator save, final flush | planes, shutdown | two savers of one file | a later snapshot is not replaced by an earlier one |
| Sequence learning (`sequence_api61.go` - `sequence_api64.go`) | sessions, workflows, edges | observe, learn, judge, expire, evict | observation planes | bounded tables; times out of order | what is reported has the evidence it claims |
| Schema learning and positive schemas (`schema_api2.go`, `positive_schema_api4.go`) | aggregate, candidate, profiles, deployment, history | learn, review, promote, activate, roll back, enforce | AI connector, persistence | evidence changes between a reader and its decision | only approved contents, and only after DETECT, reject |
| Object authorization (`object_*_api7x.go`, `bola_*_api7x.go`) | locators, relationships, evidence, policies, reviews | learn, detect, suppress, review, expire | identity | bounded tables, expiry, late dismissals | evidence is hidden only knowingly |
| API contracts (`api3_contract.go`, `api3_export.go`, `api_operations.go`) | versions | parse, compare, bind, export, drift | schemas | a schema is flattened and built again | meaning survives; drift has a cause in the traffic |
| Identity (`identity_api5.go`) | issuers, policies, key caches, snapshot | edits, promotion, verification, key refresh | requests | a trust changes while its keys are fetched | only promoted rules reject; tokens need the trusted keys |
| GraphQL (`graphql_api8.go`) | contracts, policies, persisted queries, snapshot | import, review, inspect, learn | requests, persistence | four reads of a snapshot per request; documents of many forms | only reviewed rules reject; the verdict is on what is selected |
| AI analysis (`ai.go`, `ai_schema_review.go`) | queue, join table, dedupe table, dynamic blocks | enqueue, worker, verdict, expire | WAF matches | match and request meet again later | only culprits are blocked, and they stay blocked |
| Notifications, syslog (`notify.go`, `syslog.go`) | dedupe table, list, queues, connection | push, post, deliver, configure | all | the connection is used outside its lock | lines go where configured; no repetition |
| Self-update (`update.go`, `internal/sigupdate`) | staged package, files, backup directory | stage, install, roll back, restart | file system | files one by one, shared backup, torn copies | the last install can be undone |
| Dashboard connector (`dashboard_connector_*.go`) | journal, cursors, snapshots, detections | append, export pages, latch, recover | remote reader | cut journals, lost answers, reused numbers | no gap, no duplicate; loss is marked |
| Revocation lists (`pki.go`, `pki_url.go`) | cache directory, snapshot of a runtime | build, refresh, verify | applies | three sources; a refresh may stop anywhere | what was revoked stays revoked |
| Match log, site maps, request inspection, metrics, HSM, debug evidence, watchdog, tools | counters, files, library state | - | - | I/O or vendored | - |

The hazards this code is exposed to are listed with their lines in
`PROJECT.json`; each names the properties that would catch it going wrong.

## 2. Modules

| Module | Models | Notes |
|---|---|---|
| `ConfigRegister` | what `config.json` promises: a serial register | abstract specification |
| `ControlPlane` | the transaction of one process | implements `ConfigRegister` |
| `ControlPlaneProofs` | theorems about `ControlPlane` | |
| `ListenerManager` | the sockets of one process | stands behind `ControlPlane`'s step "listen" |
| `ListenerManagerProofs` | theorems about `ListenerManager` | |
| `HASync` | pairs of nodes; a node's transaction is two steps | stands behind the push after a commit |
| `HASyncProofs` | theorems about `HASync` | |
| `PoolBalancer` | a pool of backend members: choice, in-flight counts, monitors | request path |
| `L7Abuse` | one shard of the application-layer limiter, of each kind | request path |
| `TLSTickets` | ticket keys of the attached TLS configurations | request path |
| `RequestPathProofs` | theorems about the three modules of the request path | |
| `ConfigValidation`, `SiteRouting` | checks of a configuration; lookup of sites and certificates across applies | stand behind `ControlPlane`'s "build" and "swap" |
| `HostAddresses`, `FrontendManager` | managed addresses one by one; the two processes of the TLS frontend | stand behind its steps "addresses" and "frontend" |
| `AdminSessions` | accounts, logins, sessions, login limiter | its commits and rollbacks are `ControlPlane`'s |
| `StatePlanes` | one queue from requests to the state file, saves, shutdown | stands behind every learning store |
| `SchemaReview`, `PositiveSchema` | learning and approving a schema; deploying its profiles | the first produces what the second deploys |
| `SequenceLearning`, `ObjectAuthorization` | two learning stores with expiry and eviction | |
| `IdentityPolicy`, `GraphQLPolicy`, `GraphQLDocument` | policies that reject requests; the walk over a document | |
| `APIContracts`, `ContractDrift` | OpenAPI documents; contracts against traffic | the second extends the first |
| `AIAnalysis`, `DashboardExport`, `EventForwarding` | what leaves the process: model queries, journal, syslog and webhooks | |
| `StatePlanesProofs`, `SchemaProofs`, `PolicyProofs`, `ServiceProofs` | theorems about the modules they are named after, the two of the schema, the two that judge requests by policies, and the services beside them | |
| `SelfUpdate`, `BackendRevocation` | updates of the installation; revocation lists of backends | |
| `MC...` | TLC instances: sets of model values, bounds, fault sets | |

Conventions. One action per step of the code between two points where something
else may run. Requests that fail before any effect stutter and are left out.
Variables commented "history" record what happened for the properties and never
guard an action. Operators under a comment "Mutated form" are wrong versions of the
definition that follows them; no specification uses them. Substituting one shows
that a property notices the mistake. A property whose definition is a conjunction
of named parts is stated part by part in its module.

### ControlPlane

| Code | Model |
|---|---|
| `applyMu` | `lock`; `phase` is the next step of its holder |
| `s.rt.Load().cfg` | `live` |
| `config.json`, its modification time, what a power loss may leave | `disk.cfg`, `disk.at`, `residue` |
| `config.json.draft` | `draft`, its modification time |
| listeners, managed addresses, frontend | `listen`, `addrs`, `front`: the configuration each serves |
| a configuration | `shared` (sites, pools, policies) and `local` (users, secrets), the latter a count of mutations |
| `applyEx` | `Build`, `HandBack`, `ReconcileListeners`, `ReconcileAddrs`, `PublishFront`, `Swap`, and the undo steps in the code's order |
| `applyPersistedLocked` | `Lock`/`Stage`, the steps above, `Commit`, `RenameFails` |

`handlePutConfig` holds `applyMu` from reading the runtime to the commit, so its
derivation is part of `Lock`; `handleReload` reads before it locks and is two
actions. After a rename fails the old configuration is applied again through the
same steps, with kind `rollback`. An undo step may fail half-way, with its part at
either configuration (`torn`); so may `restoreOldLocked`, which is inside a reconcile that
fails after it closed a listener to reopen it with another protocol. `live` and `listen` mean nothing while `up` is FALSE.
A configuration whose shared part is in `FrontendRevs` leaves the public port to
the frontend.

### ListenerManager

`live` is `m.live`; a listener's `st` goes up, closing (its goroutine runs
`gracefulClose`), unlinking (its deferred `os.Remove`), free. `reconcile` runs under
`m.mu` and is one action per outcome: all well, a new address is taken
(`ReconcileBlocked`), the address of a protocol flip is taken between close and bind
(`ReconcileFlipLost`, which contains `restoreOldLocked`). `applyEx` is seen as
`Apply`, then `Swap` or `Rollback`; timers (`pending`) and goroutines run in between
and look at `rt`, the old configuration. Bound addresses block each other and are
blocked by a foreign process; Unix paths are replaced by a bind and removed by every
close. Not modelled: HTTP serving, ticket attachment, shutdown during an apply.

### HASync

A node's transaction is `Swap`, which makes a configuration `live`, and `Commit`, which
renames the file and pushes, or `RollBack`; `SyncRead` reads what is live, so a push by hand
may carry a configuration that is never committed. `loop[n]` is `syncRunning`, the job being
sent, and `syncPending`. A request on the
`wire` is answered, lost, refused, or given up by the client and applied by the
peer's transaction afterwards (`awaited` FALSE). `configure` resets the status of a
disabled engine and leaves a running loop alone. `tick` takes its settings at
`TickStart` and writes the role at `TickEnd`. Operators administer one node of each
pair (`EditorsAssumption`): when both are edited at the same time each ends with the
other's configuration, and no document says which should win.

### PoolBalancer

Each generation of `healthy`, `ok`/`bad` (`okStreak`, `failStreak`), `active` and `rr`
is one `poolRuntime`; `Apply` builds the next one and the old monitor is cancelled, so
that its remaining probes fail. A request's choice is a sequence of passes (`count`,
then `least`, `nth`, or `total` and `weigh`), one load of a flag per step; monitors
flip flags between them. `Send`, `Answer` and `Close` are `lbTransport.RoundTrip` and
`countingBody.Close`, which may be called twice. Streaks are cut off at their
thresholds, beyond which the code does not tell values apart.

### L7Abuse

`table[k]` is a shard's `clients` map for requests (`http`) and handshakes (`tls`),
`overflow[k]` its shared entry. Tokens are counted in units of 1/`Window`, so refilling
is exact integer arithmetic. `Arrive` is `allowAt` or `allowTLSHandshakeAt`, atomic
under the shard lock: prune (always, or every 256th operation), make room, refill,
admit. `ideal` is a history of buckets that are never evicted.

### TLSTickets

A ring of keys is known by its newest epoch. `Attach` and `Detach` happen when a
listener binds and ends, `Refresh` when the ticker fires, at least once per epoch.

### Configuration, routing, addresses, frontend

`ConfigValidation` evaluates `Valid`, `DraftValid` and `Migrate` on every configuration
of a set, chosen in its initial state; "fields" stands for what an object holds besides
its name and references. `SiteRouting` takes valid configurations through `applyEx`:
`sockets` are opened by reconcile before `runtime` is swapped and finish later, each
with the handler table of its time or of the current runtime, as in `buildServer`.
`NginxServer` is the server block nginx selects from what `RenderNginx` writes.

`HostAddresses` makes each address two steps, the check and the `ip` command, so that an
operator's change fits between. `added` is the manager's memory, lost in a crash;
`foreign`, `taken` and `orphans` are histories. `FrontendManager` names a control file by the
number of its publish. The manager's reconciliation is `Prepare`, `Install`,
`ApplyChild` or `StartChild`, `FinishTurn`, each of which may fail; nginx ends with
the manager process (`Pdeathsig`), and reloads what `nginx -t` accepted.

### AdminSessions

A login is three steps: it begins, it checks the password against the accounts of that
moment, it creates the session or records the failure. A handler's change of accounts is
live before it is committed; if the commit fails it is taken back, or stays live when that
fails too; revocation follows the commit. `ReadReload` and `Reload` are `handleReload`, which
applies the accounts it read before it had its turn and revokes nothing. `left` marks the
sessions that such a step leaves behind (section 4). `entries` is the limiter, with its
overflow entry; windows and blocks may end at any step.

### StatePlanes

`enqueue`'s check of the accepting flag and its send are two steps, and so are every
snapshot and its rename. `store`, `shown` and `saved` are the sets of items that the
store, the published model and the file reflect. `at[p]` is where publisher `p` is
(autosave, worker, operators). The shutdown waits for the handlers of the listeners in
`m.live` until its limit passes (`overran`). It does not wait for the `loose` ones: those whose
listener a reconcile removed or reopened, or a retry timer bound during the shutdown, and those
whose connection was upgraded. They may send to a queue that was drained already. `kept` are the
events taken while the queue accepted, `strays` those taken later from a handler that was
waited for, of which there are none.

### Learning stores

`SchemaReview`: `ReadForReview`, `ReadForPromotion` and the acts are separate steps, with
requests in between. `PositiveSchema` has the deployment of one operation, its bounded
history, the runtime snapshot a request loads before it decides, and saves that finish
out of order. `SequenceLearning.Process` is the whole of an observation: prune, session,
judgement against what was learned before, edge, eviction; an event that is older than those
before it lowers a transition's and a workflow's first time. `ObjectAuthorization.Process`
likewise; `ReadCandidate` and `ReviewCandidate` are the two halves of an operator's
decision. Times in both come from before the queue.

### Policies that reject

`IdentityPolicy`: a token's way through its verifier is `UseCache`, `BeginFetch`,
`EndFetch`, `ReuseOnMiss`, `Judge`, `Reply`; each issuer's server rotates keys meanwhile.
`GraphQLPolicy`: `Receive`, `FindRule`, `JudgeDocument`, `Respond8` each read the snapshot
anew. `GraphQLDocument` evaluates the walk, with fragments followed by name, on a set of
documents, and compares it with the document that has every fragment in its place. The
limits on fields are in it: on the different paths of the whole document and on the width
of each selection set as it is written.

### API contracts

`APIContracts` parses documents into flat fields, as the code does, and states meaning
independently: `Allows`, `Satisfied` and `Accepts` say which values and requests a
document admits. A name is a sequence of parts, more than one if it has dots, since paths are
joined and split at dots. Where the code leaves the order of fields with one path to the sort,
`OnePerPath` takes either. `ContractDrift` binds a contract to an inventory and judges learned
samples. Both are evaluated on sets of documents, requests and inventories.

### What leaves the process

`DashboardExport`: each critical section of the store is a step; `log` is the history of
all rows ever committed, against which readers are compared. `AIAnalysis`: requests and
matches meet in the join table under two keys; a worker's verdict is a later step.
`EventForwarding`: the syslog writer is a chain of steps (take, dial, adopt, write) that
`configure` may interrupt.

### SelfUpdate and BackendRevocation

Installs and rollbacks run concurrently, one file per step; `saved` is the shared backup
directory; a crash inside a copy leaves the file torn. In `BackendRevocation` one issuer
numbers its lists and list n revokes the certificates up to n, so that newer lists
revoke more; a build reads the file, then the cache, then the URLs, and publishes a
refreshed snapshot only after every cache write.

## 3. Runs

| Run | Question | Bounds |
|---|---|---|
| `control_live` | do network, runtime and file agree whenever no transaction runs, whatever step or undo step fails; does every transaction end | all handlers; 2 clients, 2 shared contents (one for the frontend, one for Go, so all four transitions occur), 1 mutation, 2 writes; crash and power loss |
| `control_files` | is `config.json` a serial register, are old drafts never offered, under failing renames, fsyncs and removals, crashes and power losses; is everything learned published and saved in order, and flushed on shutdown | 2 clients, 2 mutations, 3 writes: a PUT, a mutation and a draft can all interleave; planes: 2 observed items, 1 operator, queue of 1, 1 failing write |
| `listeners` | is the map true, is everything desired served or retried and nothing else, are paths reachable, is a hand-over complete, do retries end | 2 addresses, their 2 Unix sockets, 3 listeners, 3 applies, 2 faults |
| `ha_pair` | is the reported status true, is there one tie-breaker; are pending pushes sent; do roles settle | 1 pair; 2 revisions, any number of changes between them and of the settings (two commits are needed to replace a pending job); 1 fault of any kind: failed rename and rollback, refused, lost or late request, crash, lost ping |
| `request_path` | are in-flight counts exact; does every choice find a member, a healthy one if it can, in proportion to the weights; is health hysteretic; do limits hold and is eviction invisible; do all ticket rings follow the epoch | pool: 2 members of weights 2 and 1, 2 requests, 3 choices (one full turn of the cursor), 5 probes, 2 generations; limiter: 3 clients, 2 entries, 4 arrivals, 3 ticks; tickets: 2 configurations, 4 epochs |
| `api_learning` | has every profile and every enforced profile been approved and observed; is a learned sequence sound; does evidence stay visible until someone dismissed just that | schema: 2 types, 3 requests, 3 edits by 2 handlers; deployment: 2 profiles, history of 2, 2 saves, 5 operations; sequences: 2 clients, 1 session and 2 edges kept, 4 events over 3 ticks in any order, learning for at least 1; objects: 2 identities, 1 object, 3 accesses, 2 actions (policies of two scopes, reviews), 2 ticks |
| `node_services` | the sixteen questions of section 2's remaining modules | one instance of each part, in `Services.cfg`: two of whatever must meet, tables and queues of one or two entries, one failing write; GraphQL documents of at most 4 fields (2048 in the code) |
| `reload_loss`, `draft_loss`, `listener_retry_lost`, `ha_stale_push`, `tickets_lag` | do statements of the repository hold; they do not (section 4) | as small as the counterexample allows |

Why the bounds are enough: each run's counters exceed what one full round of the
behaviour takes (one apply, its rollback and a following apply; one push in flight,
one pending and one replacing it; an eviction and a return; an edit, an overtaking
save and a restart). Every table is smaller than what is put into it, so every
eviction occurs. Three listeners let an old one close while its successor and another
are up. `CHECK_DEADLOCK FALSE` is set because
every run stops at its bounds, and because an idle process really waits.

In `request_path`, `api_learning`, `node_services` and `control_files` the parts share no
state; each behaviour is about one of them, so the run is the sum of their state
spaces and not the product. `node_services` exchanges the members of all its pairs of
model values at once (`Interchangeable`), which is sound because only one part moves.

What the properties mean is stated above each of them. The ones that relate most
of the state: `NetworkFollowsLive`, `LiveIsDurable`, `SerialConfig` (refinement of
`ConfigRegister`), `ListenersMatchRuntime`, `HonestStatus`, `MirrorIsExact`,
`RoutedToOwner`, `ContractsSound`. Exceptions are named, not hidden: `torn` (an undo step
failed, which the code only logs), `adrift` (reload of an outdated read, or a rollback
that failed after a failed rename), `strayed` and `clobbered` (listeners), `stale` and
`overtaken` (HA), `masked` (tickets), `overran` and `loose` (shutdown), `left` (sessions),
`taken` and `orphans` (addresses), `beside` (frontend), `overtaken` (syslog).

In several modules time is not counted: a window, a block or a cache entry may end at
any step, which includes every timing.

Fairness. A transaction's steps are weakly fair: Go's mutex and scheduler let
their holder run, and every wait in them has a timeout. Timers and closing goroutines
are weakly fair; a foreign process is not. In an HA pair the sync goroutine, the
ticker and the answer-or-timeout of a request are weakly fair; booting is not, so a
node may stay down. In `StatePlanes` goroutines run and the autosave ticks (weakly
fair); the publish lock is fair to who waits for it, as Go's mutex is beyond a
millisecond, which the autosave's steps need (strongly fair); writes fail a bounded
number of times.

## 4. What does not hold

| Run | Statement | What the code does |
|---|---|---|
| `reload_loss` | `main.go` 1310-1312: mutations derive from the newest runtime and avoid lost updates | `handleReload` reads the runtime before it waits for the lock, so it can bring a replaced configuration back to life; the next mutation derives from that and drops the acknowledged one from the file |
| `draft_loss` | `admin.go` 1556-1558: a draft is durable operator work-in-progress | a PUT removes the draft after it released the lock; a draft saved in between is deleted |
| `listener_retry_lost` | `listeners.go` 203-205: bind failures are retried while the socket remains desired | a rollback that finds its address still held by a closing listener fails, is logged, and no timer is set |
| `ha_stale_push` | `ha.go` 212-214: the peer always converges to the newest committed configuration | the manual sync pushes a runtime it read without the lock over a newer pending push, and the status says ok |
| `tickets_lag` | `tls_session.go` 176: rotation happens promptly | `attach` advances the manager's epoch after giving the new keys to one configuration; `refreshAt` then returns early, and the other listeners keep the old keys for the whole epoch |

Other observations made while modelling. None contradicts a statement so directly that a
run is devoted to it; the models contain the behaviour, and the properties are stated
around it.

- Drafts and configuration: `validate` accepts two sites of one name, `validateDraft`
  does not (`main.go` 392-397). A hostname written with a port or a final dot is
  normalized by Go and never matches nginx's `server_name`. The default certificate of an
  address is the first in file order in Go and the first in name order in nginx. When an
  address goes from plain to TLS without the frontend, its new socket has no certificate
  until the runtime is swapped.
- Addresses: an address that is found present is adopted and later removed although the
  process did not add it, against `ipmanage.go` 8-9, when it is on the selected interface.
- Frontend: the acknowledgement carries no identity of the control file, so the end of
  an earlier reconciliation may acknowledge a later publish.
- Sessions: a change of an account is to "force re-login" (`admin.go` 715, `users.go` 222),
  and three ways lead past it. A login whose password check is overtaken by a revocation still
  gets its session; a handler that fails after its change was live revokes nothing, neither
  when the change is taken back nor when it stays; `handleReload` brings back accounts as they
  were when it read them, a role or an enabled account included. Such a session lasts until it
  ends, or until the next change of its account that revokes.
- Shutdown: `main.go` 2441 says that no data-plane request can enqueue after the listeners
  are down. `shutdown` waits for the servers in `m.live` only: handlers of a listener that a
  reconcile removed or closed to reopen it, those of upgraded connections, and requests to a
  listener that a retry timer binds afterwards go on, and their events may enter a queue that
  was drained. Nothing that was queued before is lost by this, which `DrainedIsFlushed` says.
- Schema review: `setReview` stamps the version current when it runs, not the one its
  caller read. GraphQL: policy and contract of one request may come from two snapshots,
  against the comment at `graphql_api8.go` 744-745.
- Dashboard: a reader that lags on a journal emptied by age learns so only when the
  journal has a row again; a later loss of detections does not prolong the coverage gap,
  which ends a retention period after the first. AI: a match may be joined to a request of the same client to
  another site.
- Syslog: `deliver` can keep a connection to the old endpoint when `configure` runs while
  it dials, against `syslog.go` 146-147.
- Self-update: a rollback cannot write the running program (text file busy) after it
  has restored earlier files, against `README.md` 671; the backup directory is shared by
  all packages, a retried install backs up what the first attempt installed, a finished
  install discards a package staged meanwhile, a crash inside `copyFile` leaves a torn
  backup, and a restart by `ReExec` does not drain.
- Contracts: of the branches of an allOf that declare one field of one type and format, only
  the first branch's enum is kept (`api3_contract.go` 613-632), and of fields of one path that
  differ in type either may be compared: a version that adds such a branch refuses requests and
  compares as equal. A property whose name has a dot is taken for a nested one, in
  comparisons and in the export (`api3_contract.go` 582, `api3_export.go` 198). `Agreeing` and
  `Flat` name both exceptions.
- Contracts, further: nested arrays are exported as a property named `a[]` and root arrays as
  `$`, leaves without type as strings; a body without fields loses its media types, an
  object with properties its requiredness, and only the first media type is compared.
  Conforming JSON arrays are reported as UNKNOWN_FIELD, strings that read as numbers as
  TYPE_DRIFT; a required header that is not learned, and every required cookie, is
  always MISSING_REQUIRED; an operation whose binding is ambiguous is reported
  UNDECLARED_ENDPOINT; importing an older document again does not make it the latest.
- Revocation: `refresh_sec` is accepted and validated, but `buildRuntime` starts no
  refresher (`main.go` 1367), so lists change only with an apply or a start; an expired
  CRL file ends the start and every apply; in soft mode an expired list refuses all
  certificates of its issuer until a restart drops it.

## 5. Proofs

`ControlPlaneProofs` proves, for any clients, contents, bounds and faults:
`TransactionInvariant` (`Spec => []IInv`) and from it `NetworkFollows`,
`SinglePortOwner`, `Durability`, `RenameComesLast`, and `ConfigIsSerial`. `IInv` is
needed because none of these is inductive: in the middle of a transaction each part
of the network serves the new configuration from its own step to its undo, and
`NetworkInv` says so phase by phase; `PhaseInv` ties `published` and the lock to the
phase; `FileInv` says which of the three configurations in play is on disk. A step
may disturb one part only, so the proof has one step per action and, under it, one
per part. `ConfigIsSerial` has the hypothesis `NoDrift`: no unlocked reload, and a
rename fails only when its rollback cannot; `reload_loss` shows it is needed. Under the
same hypothesis `AckedKept` proves that acknowledged mutations stay in the file.
`DraftsStayGone` needs no hypothesis and no `IInv`: `DraftInv` says that no file, residue
included, is younger than the clock, so what replaces config.json hides the draft before it.

`HASyncProofs` proves, for any set of pairs and any bounds: `PairInvariant`, and
from it `StatusIsHonest`, `TieBreakerKept` and `NeverEchoes`. The invariant: a request
the client waits for carries its loop's job; the newest payload of an enabled loop
(the pending one, or the job if none is pending) is the committed configuration, unless a
push by hand of what was live at its time came between (`stale`); the live configuration, and the one a rollback goes back to, have the node's own
tie-breaker; the unadministered node's loop is idle and it never has a transaction to take
back. The shape of loops and requests is proved
separately from what they carry (`ShapeStep`, `AgreeStep`).

`RequestPathProofs` proves, for any number of members, weights, thresholds, requests
and generations: `PoolInvariant`, and from it `CountsExact` and `AlwaysFindsMember`.
`FailsOpen` is not inductive: it needs what each pass knows (`Sound`) - the second
pass of `least_conn` has a candidate after its first member, an indexed choice carries
its fall-back. `InFlightExact` needs the chosen member to exist, and that one step
moves one request in or out of one set.

`HealthInvariant` and `HealthAlwaysFollowed` prove the three parts of
`MembersFollowHealth`. `Informed` says what a pass knows: while the members a request saw
up are those that stayed up, the index left in it is below what the members ahead
count or weigh, so the pass ends at one of them. `Shared` says how round robin divides
its turns while no flag changes: after `a` turns and `p` steps of the cursor, the choices
made for a member and those the requests in their last pass will make are `a` times its
weight and those of its places the `p` steps have reached; the places of the members are
disjoint (`LandsOnOne`) and fill the turn (`TurnGivesWeight`). `Streaks` ties the two
counters of the monitor to the results they count, from which the action property follows.

The limiter (`AbuseInvariant`, `LimitsAlwaysHold`), for any clients, capacities, limits
and times, holds because of what an entry's two times mean: a client was last admitted
no later than its entry was last used, and nobody loses an entry before his bucket
would be full again (`FullAgain`). So forgetting changes no later answer: the refill of
a bucket that was forgotten and of one that was kept are compared through any further
arrival (`ClearedKeeps`, `SpentBucket`). It needs `TTL >= 2*Window`, which the code's
constants give. `TicketsInvariant` and `RingsAlwaysFollow` are about the session tickets.

`ListenerManagerProofs` proves, for any addresses, configurations, listeners and bounds:
`ManagerInvariant`, and from it `SocketsAlwaysMatch` and `ApplyWindowAlways`.
`ManagerIInv` is `SocketsInv` - records and sockets agree, and a path nobody clobbered
has one socket, closing ones included - and `TrackedInv`: what the configuration in force
(in the window of an apply, the new one) wants and nobody serves waits for a timer. The
reconciliation is followed socket by socket (`ReconcileSockets`, `RestoreKeeps`): each is
new, freed, closing, or as before. The attempt to prove `KeptAcrossApply` in its first
form, which promised the same socket for each address both configurations have, failed
for a reason: after a rollback that lost an address, a socket may still serve in the
protocol of the configuration before, and the next apply reopens it. A fourth
configuration in the run shows the case, and the property now says "unless its protocol
changes" of the socket, not of the configuration.

Four modules prove that what was sanctioned, saved, revoked or acknowledged stays so; in each the
bounds of the runs (numbers of requests, edits, saves, lists) are arbitrary.

`StatePlanesProofs`: `DrainFlushed` (an event the queue took and a change an operator made
are in the file when the process stops in time) and `ModelNeverBack`. `PlanesInv` has four
parts: `PublishInv` - the holder of the publish lock has a clone between what is shown and
the store; `QuietInv` - within the limit, no handler that is waited for is left once the planes
stop; `SendInv` - what the queue took while it accepted was sent once; `LastInv` -
what the last publication and the last save have to show for at each of their steps. The
proof needs no fairness: it is about what a stopped process has done, not that it stops.

`SchemaProofs`: `PromotedIsApproved`, by `SchemaInv` - a review stamps the version it sees,
the version grows with each change of meaning, and a handler judges a copy by the stamp in
the copy. `DetectBeforeEnforce`, by `PositiveInv` (`DeploymentsSound`).

`PolicyProofs`: `OnlyPromotedEnforced`, by `PromotionInv` (`PromotionsKept`), and
`OnlyTrustedVerify`, by `KeysInv`: a verifier keeps its trust as long as a runtime or a
request uses it, no two verifiers of different trust share an id, and only keys of that
trust are cached under it, by refreshes that began before an edit as well.

and `OnlyReviewedEnforced`, by `GraphQLInv` (`PoliciesVetted`).
`PositiveInv`, `PromotionInv` and `GraphQLInv` have one shape. None of the properties is
inductive, because a policy comes back from a file or a rollback long after it left
memory: every place it can come from - memory, snapshot, history, a save under way, the
file, a request - must hold only what is in the history of promotions.

`ServiceProofs`: `RevokedStaysRevoked`, by `RevocationInv`: a cache is never behind
what was live nor ahead of its source (`SourcesInv`), so a build that falls back on it has,
for every configured source, a list as new as any that was live or lapsed (`ListsInv`); a
fetched list is at least as new as the cached one, and equal once it is cached (`FetchInv`).

`AccessAlwaysGuarded`, by `SessionsIInv`, for any administrators and concurrent logins.
`AccountsInv` adds what a property about sessions alone does not say: one change at a
time is live, and the sessions of its account are of what it was or what it is now, unless
they were `left` or another handler is about to end them, so that taking the change back
leaves no session unmarked. A reload keeps both because it waits for its turn. `GuessesInv` counts, with
the failures a key has, the logins in flight that may still fail on it: an allowed login
records its failure after the limit was reached by others.

`AddressesAlwaysRight`, by `HostIInv`. `OwnershipInv`: what the manager remembers is
foreign only if it was taken, and what is on the host and not foreign is remembered or
was given up. Proving it found an exception that `AddressesRight` did not name: the
operator removes an address the manager had added and adds the same again; the manager
still holds it for its own and removes it with the site. `taken` records it now, and the
run lets the operator make two steps, so that the case occurs.

`AckedAlwaysServed`, by `FrontendIInv`. `ChildInv` says what nginx runs at each step of a
reconciliation; `PublishInv` that after a rename beside which the manager rested, nothing
but the renamed file is worked on, so that a status that answers it was written by a turn
of that file, or when nginx had died.

`UndoAlwaysAvailable`, by `UpdateIInv`. `KeepsBefore` follows an install file by file: those
it has not come to are as when it began, those it has replaced are in the backup
directory. That holds while it runs alone, which is why `CallsInv` says who is alone, and
that no install runs while there is something to undo. `OriginInv` traces each content
through backup and rollback to a verified package.

`BlocklistAlwaysSound`, by `AIIInv`: a client's name travels from the request to the job,
to the update and to the list, and `RequestsInv`, `JobsInv` and `UpdatesInv` say at each
place that it is of what this client did; that one update copies the list at a time is
what keeps its copy current.

`LossAlwaysMarked`, by `DashboardIInv`. `Accounted` says where a detection that is not in
the journal is: queued, in the worker's hand, or known as a drop; `LossInv` that a file is
clean only when the process is down and nothing is missing from it or the gap is marked. The proof
attempt found a fault of the model: a reader of a process that had died went on with its
request and wrote the file. `Dies` ends the requests now.

`MirrorAlwaysExact`, by `MirrorInv`: a store, in memory or in the file, is what the log up
to its sequence number makes (`StoreOf`), its journal is an end of that part and each of
its snapshots has what an earlier part makes. A cursor lies behind what the file has
(`CursorOf`), which is what the write latch is for: rows that are shown survive a crash, so
the numbers given out again after it are none a reader has. The operators are closed forms,
since nothing can be proved about folds: the last row about an item decides it (`Latest`),
a row's place in a snapshot is how many rows are not after it (`RowRank`), and the rows
after a watermark are an end of the journal because numbers ascend. `JournalPageMakes` is the
step that needs the check of retention: without it `k <= mark` fails and a page skips rows.

`ForwardingAlwaysSound`, by `EventIInv`: between its look at the configuration and the
write a delivery holds what was configured unless a change overtook it (`WriterInv`); the
keys remembered and not expired are those a notification went out for (`NotifierInv`).
Reasoning about it made `recentKeys` what `n.dedupe` is, a map from keys to times of
expiry: any key may expire next, which allows more than the clock does.

`PolicyProofs` also has configurations. `AcceptedAlwaysBuilds` is about any configuration: a
list without duplicate names has one object of a name (`Only`), so what either check
accepts, migrated or not, resolves. `AlwaysRoutedToOwner` needs of its invariant only that
what runs and what comes next was validated, and that an internal socket knows its public
address (`RoutingIInv`); the rest is about one configuration. No two sites of an address
claim the same normalized name, so the last one in a table is the only one; the walk label
by label finds the longest wildcard (`Least` exists by `WFMin`), which no other pattern
that matches can beat; and nginx, whose servers of a name are at most one, walks alike.

`SchemaProofs` also has sequences and objects. `SequencesAlwaysSound`, by `SequenceIInv`: an
edge is counted once for a session because the session remembers the edge as long as it
lives and no two sessions have one id; an edge belongs to a workflow that was used no
earlier, so that it expires no later. The action property follows since a pruned model
keeps its invariant. An older event only lowers first times, which no other part relies on
from above. `EvidenceAlwaysSurfaces`, by `ObjectsIInv`: that a policy suppresses only what it
covers, while it is in force, and gives way to one asking for review that is narrower or later,
follows from how the governing policy is chosen (`Narrower` states it without the scores of
the code); a review is stored with the
time its reader saw, and all three bounds of the stores are kept by looking before inserting.

Five runs show a documented claim that the code breaks. Each claim is also proved under
what excludes the one circumstance behind its counterexample, so that nothing else in the
model can break it:

| run | circumstance | theorem without it |
|---|---|---|
| `reload_loss` | a reload reads the file without the lock, or a rename and its rollback both fail | `AckedKept` (`NoDrift`) |
| `draft_loss` | a second client's PUT removes a draft that was saved meanwhile | `SoleDraftKept` (one client) |
| `ha_stale_push` | a request outlives its timeout, a push by hand beside the loop, a crash | `ConvergesWhenTimely` (`Timely`) |
| `tickets_lag` | an attachment advances the epoch before the ticker does | `PromptUnlessMasked` (`~masked`) |
| `listener_retry_lost` | an apply fails, or a timer fires in its window | `RetriedIfAppliesSucceed` (`AppliesSucceed`) |

Two more theorems give the part of termination that needs no fairness. `TransactionShrinks`:
while a client holds `applyMu`, a step leaves its transaction alone or lowers `ToGo`, so
22 steps at most lie between the lock and the unlock. `ChoiceShrinks`: a look at a
member lowers `LooksLeft`, of which there are at most `3 * N`, although flags change while
`pick` looks. What fairness adds, that the next step is taken, is TLC's.

Assumptions are the named ASSUMEs on the constants; TLC evaluates them in the runs.
Only model-checked: liveness (`TransactionsEnd`, `RetryEnds`, `PendingIsSent`,
`RolesSettle`, `LearnedIsSaved`), which is beyond the prover; the modules that compute
with recursive operators over data (`GraphQLDocument`: `JudgedByWhatItSelects`; `APIContracts`
and `ContractDrift`: `ContractsSound`), about which nothing can be proved for every input.

## 6. Not modelled, and why

Request inspection (a vendored rule engine), lexing and pure classification,
certificate parsing and HSM I/O, the browser console, packaging and command line tools
keep little state of their own or leave the process. The match log, site maps, audit
log, metrics, debug evidence and the watchdog are counters, rings and bounded maps
behind one lock; their queues are the ones of `StatePlanes`.

In the modelled parts, the encoding of files and messages, logging, prompts, tokens,
quotas and lists kept only to be read are abstracted; a validation or encoding error is
an early return without effect. Foreign processes and the kernel's address table appear
only through what the code observes of them. Particular limits: detections of the
dashboard do not expire and nothing arrives after the drain; crashes in `node_services`
are of the process, not of the power; contracts are not kept as versions in a store; the
older dashboard reader is not wired into `main` and is left out.

## 7. Plan

Done: first what every change goes through, then what every request goes through, then
what learns from requests, then the services beside them. To follow, in this order:

1. The contract store as state: imports, versions, activation, persistence.
2. Match log and site maps as planes of their own, with their counters.
