# Amankan: a TLA+ verification of its control logic

Amankan is a vulnerability-management service in Go. An API process accepts
assets and scan requests and writes them to PostgreSQL and Redis; worker
processes pop scan jobs from Redis, run scanners, normalize their reports and
store findings; Neo4j, when configured, holds a graph of assets, accounts and
attack paths; a Next.js dashboard displays all of it. This directory holds
TLA+ models of that system, the TLC configurations that check them on small
instances, and TLAPS proofs of what holds for instances of any size.

Paths below are relative to the root of the repository.

## Running

    tlc -workers 2 -config MCPipelineFaults.cfg MCScanPipeline
    tlapm ScanPipelineResultProofs.tla

`PROJECT.json` lists every run with the module and configuration it takes, and
maps each definition to the lines it models.

## Inventory

| Component | State it keeps | Operations | What is hard |
|---|---|---|---|
| API scan requests: `internal/api/api.go` (`startScan`, `authorizeAsset`) | rows of `assets` and `scan_jobs`, ids on the Redis list | insert a job, push its id, give or revoke the authorization of an asset | two stores and no transaction: the row can exist without the id; a push may be applied and its answer lost |
| Queue: `internal/queue/queue.go` | one Redis list | `LPUSH`, `BRPOP` | the pop is destructive: what the worker does not finish is gone; the client retries pushes |
| Worker: `cmd/worker/main.go` | its context, the job it holds | poll, dequeue, process, record the failure | SIGTERM in the middle of a job, death, restart |
| Engine: `internal/engine/processor.go` | row status, findings, `used_mock`, graph nodes and edges | load, mark running, scan, normalize, store, complete or fail | any call may fail, the deadline may expire between a report and its insertion; which mix of errors and results is "completed" |
| Scanner adapters: `internal/scanner` | none | `Scan`, `liveAllowed`, `fallback` | the policy of three conditions is repeated by hand in four adapters, on every failure path; a target is free text whose host is looked up once by the check and again by the tool |
| Audit log: `internal/api/audit.go`, `internal/store/audit.go`, `internal/audit` | `audit_log`, an advisory lock | append in a transaction, list, verify the chain | concurrent appends may fork the chain; rolled-back transactions leave gaps; commits with a lost answer; precision of timestamps |
| Normalization, scoring, SLA, compliance: `internal/normalize`, `internal/risk`, `internal/sla`, `internal/compliance` | none | parse reports, score, deadline, map a CWE | rounding and clamping; unknown severities |
| Threat intelligence: `internal/threatintel` | KEV set and EPSS map of a process | load from files or the network at start, look up | the feed is kept per process: `cmd/api` loads it, `cmd/worker`, which scores, does not |
| Graph: `internal/graph/graph.go` | Neo4j nodes and edges | project assets and findings, import topology, derive escalation and credential-reuse edges, find attack and escalation paths | written outside the transaction of PostgreSQL, `MATCH` on nodes that may be missing, edges re-weighted by whoever comes later, paths over edges that different scans derived |
| Rate limiter: `internal/auth/hardening.go` | token buckets by client | allow, refill, evict | the clock is read outside the mutex, rates below one token, eviction |
| Authentication: `internal/auth/auth.go`, `internal/auth/oidc.go` | API keys, cached JWKS | parse the key list, authenticate, fetch the keys once, map roles, require a role | requests that fetch at the same time, answers that arrive late or not at all, keys rotated after the fetch, a secret listed twice |
| Findings workflow: `internal/api/api.go`, `internal/store/store.go` | `findings` | set the status, list, page, export | rows inserted and changed between two pages of a walk, rows that tie in the order of the listing, limits at their cap; deadlines to the hour |
| Configuration and startup: `internal/config`, `cmd/api/main.go` | none | load, validate, start | which combinations production refuses, and that a list of keys with no usable entry is not one |
| Migrations, observability, dashboard, deployment files | counters, sessions | - | not program logic of the service, or rendering |

How they interact: the API and the workers share PostgreSQL, Redis and Neo4j
and nothing else. `startScan` inserts a `scan_jobs` row and pushes its id; a
worker pops the id and calls `Processor.Process`, which reads the job and the
asset, marks the row running, runs the adapters of the profile one after the
other, stores the findings of each and writes the outcome. If `Process` returns
an error, the worker loop calls `MarkFailed` under a context of its own and
drops its error. `auditMiddleware` wraps every handler of the API and appends
one entry after the response of each state-changing request. Before any handler,
a request passes CORS, the token bucket, `Authenticate` and `Require`; buckets and
the verifier's key set are what concurrent requests share in the API process.

What makes each part correct, in one line each:

* jobs: a job is in one place at a time, starts once, gets findings only while
  it runs, is decided once, and an accepted job is decided eventually;
* results: production stores nothing fabricated, development declares what is,
  a completed job ran something, and loses no finding that `Normalize` handed on;
* permission: no tool is run against a network without one of the three grants;
* audit: the chain never forks, only grows at its end, has one entry at most
  for each request, and no append waits for ever;
* graph: it shows nothing that PostgreSQL does not hold; re-synchronising repairs
  what was lost; what was answered as created is there; the edges several scans
  derive join to paths, and no path is claimed between hosts that leaked nothing;
* gate: a client never exceeds its burst plus its rate and nobody below it is
  refused; where anybody is authenticated, who is served, or turned away, is
  decided by the role alone;
* findings: a walk over the pages loses none but to a tie, a worse finding never ranks lower,
  the breach flag and the days left agree, and an attack path is found if there is one.

`PROJECT.json` lists under "hazards" where each of these could go wrong.

## Modules

| Module | Models | Kind |
|---|---|---|
| `ScannerAdapters` | `internal/scanner`, and which reports `internal/normalize` refuses | operators: what one adapter can return |
| `ScanPipeline` | `startScan`, `authorizeAsset`, the queue, the worker loop, `Process` | state machine, extends `ScannerAdapters` |
| `ScanJobs` | what clients of `GET /scans/{id}` and `GET /findings` rely on | abstract specification, implemented by `ScanPipeline` |
| `AuditLog` | `auditMiddleware`, `AppendAudit`, `VerifyChain` | state machine |
| `NetworkGraph` | what scans, `graphSync`, `importTopology` and `addReachability` write to Neo4j | state machine |
| `PrivilegeGraph` | accounts, escalation and credential-reuse edges, derived by scans or added by clients; `FindPrivEscPath` | state machine |
| `RateLimiter` | `rateLimiter.allow`, its buckets and their eviction | variables and operators, with their own properties |
| `Identity` | `ParseKeys`, the OIDC verifier's key set, token checks, role mapping | variables and operators |
| `RequestGate` | the middleware chain of `Router`, `config.Validate`; composes `RateLimiter` and `Identity` | state machine |
| `Scoring` | `internal/normalize`, `internal/risk`, `internal/sla` | operators |
| `AttackPaths` | the query of `FindAttackPaths` | operators |
| `Findings` | the findings table, its status, pages, deadlines, attack paths; composes `Scoring` and `AttackPaths` | state machine |
| `MCScanPipeline`, `MCAuditLog`, `MCNetworkGraph`, `MCPrivilegeGraph`, `MCRequestGate`, `MCFindings` | - | instances for TLC |
| `ScanPipelineProofs` | types of the pipeline, delivery, life of a job, refinement | proofs |
| `ScanPipelineResultProofs` | what a job reports, and whom it touched | proofs |
| `AuditLogProofs` | the chain | proofs |
| `NetworkGraphProofs` | the graph beside PostgreSQL | proofs |
| `PrivilegeGraphProofs` | the privilege layer and its cheapest paths | proofs |
| `RequestGateProofs` | a bucket; the chain | proofs |
| `FindingsProofs` | scores, deadlines, pages, attack paths | proofs |
| `InductionLemmas` | - | induction and recursion over the naturals, for the proofs |

### ScanPipeline

A job is identified with the `startScan` request that draws its UUID.

| Variable | In the code |
|---|---|
| `authorised` | `assets.scan_authorized` |
| `ask`, `req` | the body of a `startScan` request, and how far the handler has come |
| `row` | `scan_jobs`: status, error, `used_mock` |
| `stored` | `findings`: which scanner stored which kind of finding for a job |
| `queue` | the Redis list, next to pop first |
| `pc`, `cur`, `ctx`, `local` | a worker: position in loop and `Process`, job, context, local variables |
| `stops` | bound on SIGTERMs and kills |
| `hist` | history: what the scanners did for a job; no action reads it |

Every action is one call of the program and what it computes until the next
call: `CreateScanJob`, `Enqueue`, `AuthorizeAsset`; `Poll`, `Dequeue`,
`DequeueNothing`, `Load`, `MarkRunning`, `RunScanner`, `CreateFinding`,
`Finish`, `RecordFailure`. The two reads at the top of `Process` are one action
(`Load`): `GetAsset` follows `GetScanJob` at once, and of what they read only
`scan_authorized` can change; it is read by the second call. `Normalize` is
part of `RunScanner`.

A call to a database answers `ok`, is `lost` (an error, nothing applied) or
`unknown` (an error, but applied). A call under a context that is done is lost.
A pop may drop its element with its answer (`lost_pop`), and a push can be sent
twice, since go-redis retries a command whose answer it did not get (`retry`).
`Faults` says which of these an instance admits. `Deadline`, `Sigterm`, `Kill`
and `Restart` are the environment of a worker.

Reports are abstracted to their number of findings and to whether their bytes
parse. An adapter's outcome is `error`, `mock` or `live` and records which addresses
were contacted. `Process` logs and drops a report that `Normalize` refuses, whatever
it holds, and does not count it as an error: `hist` keeps apart what was handed on
(`hit`) and what was refused (`refused`).

A target is free text. `isSafeTarget` strips its scheme, cuts it at the first `/` or `:`
and looks the rest up; one private address among the answers lets the target pass. The
tools get the target uncut and look its host up again. So a target is modelled by
the answers a lookup of its host may give, a new one each time (`Answers`; a failed
lookup has none), and by the addresses the uncut text names besides (`Spans`: a range
in CIDR notation). Each adapter makes its lookup when it checks, and one when it runs.
The shared `fallback` and the checks for production that the adapters make by
themselves are separate operators (`Fallback`, `NmapFailed`, `NucleiFailed`,
`NucleiSilent`, `CryptoForbidden`, `CryptoFailed`, `SecretsFailed`).

The pipeline is the deployment without Neo4j
(`Processor.graph` is nil, `internal/engine/processor.go:61`); the graph calls
change no row of PostgreSQL and their errors are only logged.

### AuditLog

`pc` is how far a request has come: `handling`, `begin` (the middleware has
called `AppendAudit`), `locked`, `read`, `inserted`, and `recorded` or
`dropped`. `rows` is the committed table, `draft` what an open transaction
inserted, `next` the sequence of the `BIGSERIAL` column, which no rollback
gives back. A hash is the tuple of what it commits to (sha256 taken to be
injective). `Drop` is every way an append ends without a commit: an error of any of
its statements, the client gone, the 30 s timeout, the death of the process.
The clock of the Go program is finer than the column: `Resolution` counts its
units in one of the column's.

### NetworkGraph

| Variable | In the code |
|---|---|
| `assets`, `findings` | rows of PostgreSQL that the graph projects |
| `nodes`, `vulns`, `reach` | `Asset` nodes, `Vulnerability` nodes with their `HAS_VULN` edge, `CAN_REACH` edges |
| `scan` | the graph calls of one `Process`: position, asset, edges still to draw, deadline |
| `sync` | one `graphSync`: what `ListAssets` and `ListFindings` returned and is still to project |
| `call` | one edge of `importTopology`, or one `addReachability` |
| `failures` | bound on failed calls, deadlines, deaths and losses of the graph |
| the fields `flawed`, `base`, `baseFound` | history; no action reads them |

Each Neo4j call is a transaction of its own (`Graph.write`), so each is an
action. `SyncFinding` and `UpsertReachability` start with `MATCH`: when a node
is missing they write nothing and return no error, which is where
projections by different actors depend on each other. `Process` logs
graph errors and goes on; `graphSync` stops at the first; `importTopology`
drops those of its two `SyncAsset` calls.

Between the calls shown, `Process` runs as in `ScanPipeline`; here a report is a
number of turns of `StoreFinding` and `ProjectFinding`, and an asset that is not
an IP address, or not a private one, is a member of no subnet. The attributes
of nodes and edges are left out.

### PrivilegeGraph

| Variable | In the code |
|---|---|
| `nodes`, `accounts` | `Asset` nodes; `Account` nodes, each with its `HAS_ACCOUNT` edge |
| `exposed` | which host's findings leaked which credential: `CAN_READ` from its root account, `VALID_ON` its foothold account |
| `escalate`, `reuse` | weights of the `CAN_ESCALATE` and `CREDENTIAL_REUSE` edges, in hundredths; 0 is no edge |
| `scan` | the calls of one `Process` about this layer; `risk` and `fp` are the arguments of an `AutoDeriveCredentialReuse` between its two transactions |
| `call` | one `createAccount`, `addEscalation` or `addCredentialReuse` |
| `failures`, `hist` | a bound; history |

Foothold and root accounts have deterministic ids, so an account is its role
and its host; one made by a client carries the request instead of a UUID. A
finding is one of two kinds, by its CWE (`privEscCWEs`, `credentialLeakCWEs` of
`internal/compliance`), with a risk score of `Risks`; one whose CWE is in neither
list reaches none of these calls. The technique, principal and CWE on an edge are left out.

A transaction is one action: `AutoDeriveEscalation` reads the old weight and sets
the new one at once. Whether Neo4j isolates two of them that far is not in the
repository. What `Kept` and the tables of PostgreSQL say about a scan is in
`NetworkGraph`; the two modules share `SyncAsset` and nothing else, since
neither layer's statements read the other's edges.

`FindPrivEscPath` is a query over that state, not a step. Dijkstra is a procedure
of APOC and modelled by what it returns: the least sum of weights over all chains
of edges of the two types the query names. An answer is whether a path was found
and its cost; the names and techniques along it are left out.

### RateLimiter, Identity, RequestGate

| Variable | In the code |
|---|---|
| `clock` | the time, in ticks, `Second` of them per second |
| `buckets` | `rateLimiter.buckets`; `credit` is tokens divided by the rate, `last` the time of the last refill, `seen` of the last request |
| `keys`, `fetched` | the verifier's key set, and whether it has fetched one |
| `published` | the key set of the issuer (external), which it may change at any time |
| `config` | what `config.Load` read: which limiter and which authentication the process runs |
| `handler` | the goroutine of a request: how far in the chain, the clock reading it brought, the key set its fetch returned, the answer |
| `meter`, `issued` | history: what an ideal meter counts for a client; every key ever published |

A request is a client, a credential, the role its route asks for, and whether
it is a preflight. Each stretch between two places where goroutines meet is one
action: `Arrive` reads the clock, `Limit` runs `allow` under its mutex,
`CheckKey` reads the key table (which never changes after the start),
`LookupKey` and `Recheck` read the key set under the read lock, `Fetch` asks the
issuer without a lock, `Install` replaces the set, `Verify` checks the token and
the role. So two requests may read the clock in one order and reach the bucket in
the other, and two may fetch at the same time.

Credit is counted in the ticks it took to earn, which makes the burst two
seconds whatever the rate, and arithmetic exact; the rounding of `float64` is
left out. A token is a record of what the code compares: algorithm, `kid`, the key
that signed it, expiry, whether issuer and audience match, roles.

### Scoring, AttackPaths, Findings

| Variable | In the code |
|---|---|
| `rows` | the `findings` table; `nth` is `created_at`, which is drawn before the row is visible and which two rows may share |
| `now` | the time, in hours |
| `pager` | a client (external) that walks `GET /findings` by limit and offset until a page is empty; `base` is what was there when it began, `seen` what it got |
| `scope` | a bound, see below |

`CreateFinding` takes an item a scanner reports through `Parse` and `Enrich`;
CVSS and risk are in tenths, and `Score` computes and rounds them exactly. `created_at` is
the clock of whichever worker stores the row, cut to microseconds, so `ORDER BY
risk_score DESC, created_at DESC LIMIT OFFSET` leaves rows that tie in no order: `Pages`
is every page that some order of them yields, and each query chooses anew.
`FindAttackPaths` is a query: `Trails` are the paths Cypher matches (no edge
twice, an asset possibly twice, at least one edge), `Answers` every result that
`ORDER BY len LIMIT 50` allows when several paths are equally long. The ranking
of the paths an answer holds is left out.

## Runs

| Run | Instance | Shows |
|---|---|---|
| `pipeline_faults` | 2 jobs, 2 workers, every fault but a push sent twice | `TypeOK`; `SingleDelivery`: a job is in one place; `JobLife`: the pipeline implements `ScanJobs` |
| `pipeline_production` | 1 job, 1 worker, a name whose lookups differ, a public name and a repository, three profiles, every fault | `ProductionNeverFabricates`, `UnauthorisedNeverTouched`, `CompletedRanSomething`, `CleanMeansNothingFound`, `DeliveredJobsExist`, `FindingsOnlyOfStartedJobs`; all hold even when the job is delivered twice, one after the other |
| `pipeline_live` | 2 jobs of four scanners, 1 worker, development mode, database errors, deadlines, SIGTERM; fairness | `AcceptedIsDecided`, `MockIsDeclared` |
| `pipeline_partial` | a scanner that cannot run beside one that can | violated: `ScannerErrorFailsTheJob`, what README.md says of such a job; with the profile `quick` it is violated by a report that does not parse |
| `pipeline_reach` | a name with a private and a public address, and a range, none authorised | violated: `ThirdPartiesNeverTouched` |
| `audit_chain` | 3 concurrent requests, a clock twice as fine as the column; fairness | `ChainLinked`, `OneEntryPerRequest`, `AppendOnly`, `AppendEnds`, `TypeOK` |
| `audit_clock` | a clock twice as fine as the column | violated: `VerifyIntact` |
| `network_graph` | 2 scans of 2 hosts in one /24, beside one request of any kind, with one failure | `VulnsAreStored`, `SyncIsComplete`, `SubnetMeshed`, `TopologyAttaches`, `TypeOK` |
| `privilege_graph` | 2 scans of 2 hosts, 2 credentials, one request, one failure | `EscalationCheapest`, `ReuseComplete`, `ReuseJustified`, `LateralPathFound`: the derived edges join to a path from host to host, as dear as its parts; `CreatedIsThere`, `TypeOK` |
| `request_gate` | 2 goroutines, 2 clients, the deployments of `MCConfigs` | `WindowBound`, `FairRefusal`: the bucket neither gives nor takes too much, with late readings and evictions; `ServedWithRole`, `EntitledIsServed`: the role decides, with rotated keys and failed fetches; `TypeOK` |
| `request_gate_open` | production whose list of keys has one entry, which does not parse | violated: `ProductionNeverOpen` |
| `findings` | 3 assets, every topology, any two findings of four scanners, one walk | `PagesMissOnlyTies`: a walk loses a row to nothing but a tie; `NearestEntryFound`, `SevererRanksFirst`, `BreachAgreesWithDays`, `TypeOK` |

### Bounds

* Two jobs and two workers: the properties of delivery relate two holders of
  one id, or one holder and the list, so a third of either adds no new pair;
  the theorems below cover any number. `Symmetry` permutes jobs and workers in
  the run that checks no liveness.
* One job where the property is about what one call of `Process` computes from
  its adapters' outcomes. All four scanners run in a `critical` job, so every
  mix of error, clean report and findings is met.
* `MaxFindings` is 1: a report then has no finding, or one that is stored or
  lost; what a second would add is another turn of the same loop. `MaxStops` is 1 or 2: a SIGTERM followed by a kill of the same
  worker, or one of each worker.
* `Asked` and `Governed` bound the profiles requests name and the assets whose
  authorization changes.
* Two scans and two hosts in the graph: the mesh relates pairs, and the order in
  which two scans list and draw is what decides it. One request is enough beside
  them, since what a request promises is undone by a lost call, not by a second
  request; one failure, anywhere, is the smallest that makes a promise break. The
  theorems cover any number of each.
* Two findings in a scan of the privilege graph: one leak and one escalation, two
  scores for one edge, or two credentials of one host. Two scans may be of one
  host or of two, which is where the order of the two transactions matters. One
  score is within the limits of a weight, the other is clamped. Clients send no
  weight (`Weights` is `{0}`), since an edge they set is excused from the
  properties about derived weights.
* Three requests in the audit log: one holds the lock, one waits, one has
  committed before. Two instants are enough for equal, growing and shrinking
  timestamps.

* The token bucket: a second is two ticks and one token costs both, so that a
  burst is two requests; a request waits at most one tick for the mutex
  (`Skew`); a bucket is dropped after six ticks instead of 600 s, as little as
  `LimiterAssumption` allows (in the code it is 300 times the burst), and the clock
  runs to eight, so that a bucket is evicted and comes back. The bounds are
  tight: a meter reaches `Burst + Skew`, and `FairRefusal` with one tick less is
  violated.
* Each deployment of `MCConfigs` gets the traffic that exercises it: two clients at
  the limiter; a key list with a repeated secret, an entry of two fields and one
  without a role; every kind of token (good, expiring, of a rotated key, of a key
  that does not decode, forged, without algorithm, for another audience, with too
  low or no role) at a verifier whose issuer alternates between two key sets. Those
  that `Validate` refuses are in the set too and never start; the production whose list
  has no usable entry does.
* Targets: a name that answers with a private and a public address or with either of
  them, one that answers with a public address or fails, a range that begins with a
  private address, and a path, which is no host. Two kinds of address are all that
  the check tells apart.
* `Findings` explores paths, pages, scores and deadlines apart (`Scopes`), since
  they share the table and nothing else. Paths: all 64 topologies of three
  assets and every exploitable subset, with a `LIMIT` of two so that it cuts, and
  hops below, at and above their bounds. Pages: four rows of two risks and two times, or
  three that also change their status, of two risks and three times, in pages of one,
  two and three rows for the 200 and 1000 of the code, so that pages end before,
  within and after a tie. Scores: two findings
  of any two items and assets. Deadlines: one finding, at and an hour and a day
  around each deadline.

### Fairness

`pipeline_live` assumes that a worker process is scheduled (weak fairness of
its steps) and restarted when it exits (weak fairness of `Restart`;
`deploy/docker-compose.prod.yml:122` says `restart: unless-stopped`). Nothing
is assumed of the API, of the clients or of the environment. The run admits
database errors, deadlines and SIGTERM, and excludes a worker that dies, a pop
whose answer is lost and a failure of the last `MarkFailed`: after each of them
the job stays queued or running for ever, since nothing in the code looks
for such jobs.

`audit_chain` assumes that PostgreSQL runs the statements of an open
transaction (weak fairness of `AppendAudit(r)`). A waiting `Lock(r)` is not
continuously enabled while others pass; it is served because each request
appends once.

The other runs check safety only and assume no fairness. In the request chain
every action but waiting for the mutex is the goroutine's own.

### Findings

Shown by the violated runs:

* A scan job is completed although one of its scanners could not run
  (`internal/engine/processor.go:135-144`), which README.md:319-321 excludes. It is
  also completed, and clean, when `Normalize` refuses its only report, because that error
  is not counted (`internal/engine/processor.go:86-90`).
* `isSafeTarget` (`internal/scanner/scanner.go:88-116`) looks up a host that it cut out of
  the target, and one private address suffices; the tool contacts everything the uncut
  target names, by a lookup of its own. Public addresses are reached without an
  authorization, which scanner.go:49-52 and docs/threat-model.md:30 exclude.
* Production with a list of API keys that holds no usable entry passes `Validate`
  (`internal/config/config.go:100`) and runs without authentication, which
  config.go:92-94 and README.md:322-324 exclude.
* `AppendAudit` hashes a timestamp in nanoseconds and stores it in a column of
  microseconds (`internal/store/audit.go:40`), so `GET /audit/verify` reports an
  untouched log as broken, which docs/deployment.md:74-75 excludes.

Part of the models, as steps the code takes, and without a run of their own:

* `Drop`: a mutation can leave no audit entry (`internal/api/audit.go:48`), which
  docs/threat-model.md:25 excludes.
* `LoseGraph`: `CAN_REACH` edges exist in Neo4j only, so `POST /graph/sync` does not
  restore them (`internal/api/api.go:412-431`); docs/deployment.md:72-73 calls the graph
  re-derivable from PostgreSQL. Escalation and reuse edges are in the same position.

## Proofs

The theorems hold for any sets of jobs, workers, assets and requests, any
configuration, any bounds and any faults, except where a theorem names a
condition. They rest on the assumptions of the modules on their constants
(`AdapterAssumption`, `PipelineAssumption`, `AuditAssumption`,
`GraphAssumption`, `PrivilegeAssumption`, `LimiterAssumption`,
`TokenAssumption`, `GateAssumption`, `FindingsAssumption`), which TLC evaluates
in each run. Two say more than a type. `Idle >= Burst + 2 * Skew`: a client silent
for as long as a bucket is kept has a full one; with the 600 s and 2 s of the code
this means that no clock reading is 299 s old when it reaches the bucket. And a
topology has finitely many edges.

| Theorem | Statement |
|---|---|
| `PipelineTypes` | `Spec => []TypeOK` |
| `DeliveredExist` | `Spec => []DeliveredJobsExist` |
| `FindingsAreOfStartedJobs` | `Spec => []FindingsOnlyOfStartedJobs` |
| `OneDelivery` | `"retry" \notin Faults => (Spec => []SingleDelivery)` |
| `ImplementsJobLife` | `"retry" \notin Faults => (Spec => JobLife)` |
| `NeverFabricates` | `Spec => []ProductionNeverFabricates` |
| `NeverUnauthorised` | `Spec => []UnauthorisedNeverTouched` |
| `CompletedRan` | `Spec => []CompletedRanSomething` |
| `CleanIsClean` | `"retry" \notin Faults \/ OneWorker => (Spec => []CleanMeansNothingFound)` |
| `MockDeclared` | `"retry" \notin Faults => (Spec => []MockIsDeclared)` |
| `AuditTypes`, `NoFork`, `OneEntry` | `Spec => []TypeOK`, `[]ChainLinked`, `[]OneEntryPerRequest` |
| `GrowsAtTheEnd` | `Spec => AppendOnly` |
| `GraphTypes`, `ProjectedAreStored` | `Spec => []TypeOK`, `[]VulnsAreStored` |
| `ResyncIsComplete` | `Spec => []SyncIsComplete` |
| `SubnetIsMeshed` | `Spec => []SubnetMeshed` |
| `ImportedIsThere` | `Spec => []TopologyAttaches` |
| `PrivilegeTypes`, `CreatedStays` | `Spec => []TypeOK`, `[]CreatedIsThere` |
| `CheapestKept` | `Spec => []EscalationCheapest` |
| `ReuseIsJustified`, `HostsAreLinked` | `Spec => []ReuseJustified`, `[]ReuseComplete` |
| `LateralPathsAreFound` | `Spec => []LateralPathFound` |
| `GateTyped` | `Spec => []TypeOK` |
| `LimiterLimits`, `LimiterIsFair` | `Spec => []WindowBound`, `Spec => FairRefusal` |
| `NobodyWithoutARole`, `NobodyIsLockedOut` | `Spec => ServedWithRole`, `Spec => EntitledIsServed` |
| `FindingsTypes` | `Spec => []TypeOK` |
| `WorseIsNeverBehind`, `DeadlineIsOne` | `Spec => []SevererRanksFirst`, `[]BreachAgreesWithDays` |
| `WalkLosesTiesOnly` | `Spec => []PagesMissOnlyTies` |
| `SomePageAlways` | `Spec => []SomePage`: the previous theorem is about one page at least |
| `NearestEntryNeverLost` | `Spec => []NearestEntryFound` |
| `SearchAlwaysAnswers` | `Spec => []SomeAnswer`: the previous theorem is about one answer at least |

The argument for the pipeline is in four layers, each inductive relative to
the ones above it in this list.

1. `TInv`: the types, and `Holding`: a worker holds a job exactly in the steps
   between its pop and the end of `Process`. The second is needed because every
   action of `Process` indexes `row` and `hist` by the job held.
2. `Born`: a request that has not created its row has no row, one in state
   `created` has one, and a scanning worker's row has left `queued`.
   `DeliveredJobsExist` is not inductive without the first two (an id is pushed
   by a request in state `created`), `FindingsOnlyOfStartedJobs` not without the
   third (a finding is inserted by a scanning worker). This layer needs no
   assumption on faults.
3. `Owned`: a job that is still with its request is neither on the list nor
   with a worker, jobs on the list are queued, and a worker's position
   determines the status of its job. It is what makes each unconditional
   `UPDATE` of the store a legal move of `ScanJobs`, and it fails as soon as an
   id is on the list twice, hence the condition.
4. What a job reports, in five invariants over the local variables of `Process`,
   the tables and the history. `Honest`: in production the report a worker holds
   is live. `Cleared`: an authorization a worker has read was there during the
   job's life, which needs that a job with a row records each grant.
   `Ran`: the first scanner of each profile applies to every asset, and is
   still to run, or counted as an error, or has reported; so a job with an empty
   list of errors ran one, and one with findings ran another. These three hold
   under any faults and any number of deliveries. `Accounted`: a report that
   held findings is stored, skipped, or still with its worker. `Declared`: with a
   canned finding stored or on its way, the worker's flag is set. `Accounted` makes a
   promise about a row only if a job that is being scanned is marked running
   (`Scanning`): with two workers on one job, one can complete it while the other
   still holds a report, and TLC finds `CleanMeansNothingFound` violated then. `Owned`
   implies `Scanning`, and so does a single worker, however often a job is delivered
   to it, as in `pipeline_production`. `Declared` needs `Owned` itself: a job delivered
   twice can fall back once, and TLC finds `MockIsDeclared` violated with one worker too.

`ImplementsJobLife` maps `status` to the status column and `found` to the jobs
that have findings; every step of the pipeline is a step of one job or leaves
both alone.

For the audit log, `IInv` adds to the properties: whoever is inside the
transaction holds the lock; what it read is still the newest entry; the
sequence number it drew is above every visible one; and only requests whose
append has ended have entries. From these, a commit appends at the end and
links to the newest entry. That the chain also verifies intact is no theorem: it is
violated (`audit_clock`).

For the graph, `Shape` adds to the types that a scan which has begun has an
asset, that the finding it is about to project is stored, and that what a
request holds is a subset of the tables; `GraphGrows` shows that only the loss
of the graph removes anything. On top of it:

* `Resyncing`: of the rows a `graphSync` began with, each asset is in the graph or
  still to do, each finding is in the graph or waits for its asset, its
  list or its turn; and the asset whose findings are projected has its node, so
  the `MATCH` finds it. Without the last, a finding could leave `left` and not
  arrive.
* `Meshing`: between two scans that have listed their peers, each edge is in the
  graph or still to be drawn by one of them. The one that listed last found the
  other's asset, since rows are never deleted, and when it draws, both
  nodes exist. `SubnetMeshed` alone says nothing of scans in progress and is not
  inductive.
* `Attaching`: how far an import has come determines which endpoints are nodes.

For the privilege layer, `Shape` adds to the types what each action relies on: a
scan without a failed call has its host in the graph, so that its `MATCH` finds
it, and a request answered as created has its edge. `Grows` shows that nothing
is ever removed, which lets each property be kept by all actions but the one it is
about. `Cheap` says that an edge nobody set by hand is the least of the
weights derived for its host; `ReuseJustified` is inductive with it;
`ReuseComplete` rests on `Inferring`: a scan has recorded its host before it
infers, so of two scans of one credential the one that infers last sees both hosts
and links them both ways, including the edge the other could not draw.

`LateralPathFound` is about a search over the whole graph. `Chains` adds an
edge at a time, so a chain of three edges is found if there are three rounds;
the foothold and root accounts of two hosts are four, and there is a round for each
account (`ThreeEdges`, `PathsFound`). That the search claims nothing
else (`ChainsSpread`) rests on two invariants: without an edge set by hand, escalation
stays on its host (`Sparse`) and reuse joins hosts that leaked a credential
(`ReuseJustified`), so the accounts reached from a host that leaked nothing are
its own.

For the limiter, every bucket is compared with an ideal meter of its client,
which counts true times and is never dropped: credit and meter add up to the
burst, give or take what readings that arrive late add, and a bucket is dropped only
when the meter is at zero, so that the full one it is replaced by is deserved. For
the verifier, the held set, once fetched, contains every key that all published
sets contain, and a request looks again only after a set was installed; so a
caller with such a key is refused only by his own failed fetch. That the list of
keys and the roles of a token decide as `Grants` and `Vouches` say needs that
of finitely many entries one is last (`Greatest`).

For the findings, `Typed` adds to the types that a row keeps the risk that `Score` gives
to its CVSS, CVEs and asset. On top of it:

* `ScoreGrows`: weight, threat factor, clamp and rounding are each monotone, so
  `SevererRanksFirst` is a statement about two rows only. `BreachAgreesWithDays` is
  arithmetic: a number of hours cut to days is negative only if a whole day is over.
* `Walked`: of every finding there at the start whose rank is below the client's offset,
  the client has the row or one that ties with it. The rank of a row is the number of
  rows strictly before it, which no tie can change. No statement removes a row or changes
  its risk or time, so its rank never decreases (`RanksNeverDrop`). A page of `k` rows moves
  the offset by `k` and shows a row of each rank it covers, however the ties fall: the rows
  up to its end would otherwise all be strictly before the row of such a rank, and be
  too many (`PageShowsRanks`). A page is empty only if no rank is left
  (`EmptyPageIsLast`). `PagesMissOnlyTies` says nothing of a walk under way and is not
  inductive. That some page always exists (`SomePageAlways`) is shown by adding, to the
  first rows, one of the lowest rank that is left (`HeadGrows`).
* `NearestEntryFound` compares two searches, one that collects paths without a
  repeated edge and one that walks back from the target by assets, a step at a time.
  `Closed` gives what the first holds after `n` rounds (well-formed paths of at most `n`
  edges, with each of their ends), `EntryStep` and `StartStep` relate one round of each:
  they start at the same assets, although the second never asks whether an edge is used
  twice, because a shortest path uses none twice (`SearchIsExact`). Sorted by length, the
  first 50 contain a shortest (`LimitKeepsNearest`).

`InductionLemmas` states induction over sets of numbers instead of predicates, which the
installed provers can use: a number range is climbed (`Climb`), a nonempty set has
a least and, if bounded, a greatest number, and a recursion over `0..n` by a function has
a solution (`Recursion`). The recursive functions of `Chains`, `Trails` and `Upstream` have
their equations from it, and what they hold for every graph is proved by climbing.

Every invariant and every action property of a passing run is a theorem. Only
model-checked: the two liveness properties, `AcceptedIsDecided` and `AppendEnds`
(the prover does not reach fairness or ENABLED), and the violations. The theorems
about `SingleDelivery`, `JobLife`, `CleanMeansNothingFound` and `MockIsDeclared` have
the conditions shown, which are also those of the runs.

What four theorems do not say is what a violated run shows: `NeverUnauthorised` gives the
grant under which a tool ran, not the addresses it reached (`pipeline_reach`);
`CleanIsClean` is about the findings that `Normalize` handed on, not about the reports it
refused (`pipeline_partial`); `NobodyWithoutARole` is about deployments that authenticate
anybody (`request_gate_open`); the theorems of the audit log are about its
chain, not about the timestamps in it (`audit_clock`).

## Not modelled

* `internal/db` runs idempotent DDL at start; `internal/api/observability.go`
  counts and logs; nothing depends on them.
* The dashboard (`web/`) renders answers of the API.
* Deployment files and scripts; the restart policy is used as an assumption.
* The bytes of reports, XML and JSON parsing, Cypher and SQL text, HTTP.
* The compliance texts a CWE maps to (`internal/compliance`): a table looked up for
  display. Its two CWE lists decide what a scan derives and are in `PrivilegeGraph`.
* The loading of threat feeds (`internal/threatintel`): `cmd/api` loads them before
  it serves, and no score is computed in that process. `Scoring` has the set of
  the process that scores.
* The ranking of attack paths by risk, and the attributes paths are displayed with.
* Security and CORS headers, `MaxBody`, the extraction of the client's address: they
  keep no state. The bytes and signatures of tokens: which key signed one is a field.
* Rounding of `float64`: the token bucket and the score are in exact arithmetic.
* The CSV export, and the page cut of lists that are held in memory.
* Opening and closing of connections and the graceful shutdown of the API. A
  production with an issuer and no API keys, which `docs/deployment.md:45-47`
  describes, is refused by `Validate` (`internal/config/config.go:100`):
  `Insecure` says so, and there is no behaviour to explore.

## Plan

What is left, most valuable first.

1. Composition of `ScanPipeline` with `NetworkGraph` and `PrivilegeGraph` as the
   graph calls of `Process`, so that a job delivered twice, or failed after its
   findings were stored, meets the graph.
2. The ranking of attack paths (`pickTopVuln` and the averages), against the claim
   that an answer lists the riskiest path first.
3. The OIDC code flow of the dashboard (`web/lib/oidc.js`).
