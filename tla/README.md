# IntentGate gateway: TLA+ models, checks and proofs

The gateway sits between AI agents and the MCP tool servers they call. Every
`tools/call` passes through a pipeline of checks (capability token, intent,
policy, budget, ...), may be held for a human, is forwarded to the upstream
server, and leaves audit events. Around the pipeline are stores shared by the
replicas (PostgreSQL), background goroutines (listeners, pollers, sinks,
watchers) and an administration API.

This directory models the parts of it in which steps of several goroutines,
replicas, database sessions and operators interleave. All paths below are
relative to `src/`; all definitions and the lines they translate are listed in
`PROJECT.json`.

## 1. Inventory

| Part | State | Operations | What makes it hard |
|---|---|---|---|
| Request pipeline (`internal/handlers/mcp.go`) | locals of a request; kill switch, revocations, budget counters, upstream | the stages of `handleToolsCall`, `forwardToUpstream` | look-ups and forwards of concurrent requests; operators act in between; stores fail |
| Fault isolation (`internal/faultisolation`) | breaker state, failure count, in-flight counter per tool | `Acquire`, release, `record` | mutex for the breaker, compare-and-swap for the bulkhead, outcome recorded after the permit is back |
| Approvals (`internal/approvals`) | rows, wake channels, LISTEN connection | `Enqueue`, `Wait`, `Decide`, resume by retry | deadline against verdict, lost notifications, replica crash |
| Audit chain (`internal/auditstore`, `audit/canonical.go`) | rows, chain heads | insert transaction, `VerifyChain` | several writers, roll-back, what is hashed against what is stored |
| Audit stream (`audit/stream.go`) | ring, subscriber buffers | `Emit`, `Subscribe`, SSE writes | replay against live, full buffers, reconnects |
| Audit sinks and shutdown (`siem`, `webhook`, `auditstore/emitter.go`, `cmd/gateway/main.go`) | queues, batches, closed flags | `Emit`, flush, `Stop`, shutdown | full queues, stuck sinks, deadlines |
| Policy store (`internal/policystore`) | drafts, per-tenant active rows | draft CRUD, promote, propose, approve, reject, rollback, clear | READ COMMITTED transactions of several sessions |
| Policy reload (`policystore/postgres.go`, `admin_policies.go`, `main.go`) | engines of the replicas, watch channels, poll memory | admin calls, NOTIFY, poll, watcher, start-up | read-compile-write-swap, lost notifications, restarts |
| Kill switch, revocation | entries, rows | engage, release, revoke, look-ups | consulted at one moment of a request |
| Budget (`internal/budget`) | a counter with an expiry, in process or in Redis | `Incr`, `Check` | compare-and-swap against expiry |
| Velocity (`internal/velocity`) | a window of calls and amounts | `Check`, `Add` | clock, count and add are three steps |
| Task binding (`internal/task`) | plan, drift and status of a task | `Bind`, clear | read, score and write back of concurrent calls |
| Capability tokens (`internal/capability`, mint and revoke handlers, `igctl`) | tokens, revocation rows | mint, attenuate, verify, check, revoke | offline delegation, per-tenant revocation |
| Admin reads (`handlers/admin.go`) | the audit log as it grows; rows of all tenants | query, paged export, list, look-up and decide | pages that shift, two store calls for one answer |
| Segmentation (`internal/eastwest`, `zonescope`, `segrec`, `flowmap`, `authoring`) | rules in memory and in two files | check, save, reload, recommend | merge of unsent fields, expiry, what a restart reads |
| Federation (`internal/federation`, `main.go`) | directive last acted on, windows reported | poll, push | lost answers, restarts, operators |
| Credentials (`internal/credentials`) | table, replicas' views | seed, set, remove, reload | reload against change |
| Deception (`internal/deception`) | registry | sync, check | failed syncs, overlapping decoys |
| Bundles (`internal/bundle`) | installed bundles, stream position | baseline, watch, install, evaluate | reconnects, rejected bundles |
| IntentGrant calls (`handlers/mcp_intentgrant.go`) | authorization and outcome of each call | authorize, forward, emit | timeouts of either peer, late execution |
| Start-up and routes (`cmd/gateway/main.go`, `server/server.go`) | settings, what is wired, what the database kept | the stages of `main`, crashes, reboots | dependencies that are down, wrong settings, keys of an earlier boot |
| Detectors (PII, schemas, action guard, reference verification, tenant scope), Rego, SIEM adapters, reporting | none shared | verdicts, encodings, HTTP clients, listings | not a matter of interleaving |

`PROJECT.json` lists every part with its files and status, and the hazards at
the lines where they bite with the properties that would catch them. Hazards
the code does not withstand are among the divergences of section 5.

## 2. Modules

| Module | Models | State and granularity |
|---|---|---|
| `Semaphore` | what a bulkhead promises | the set of permit holders of each tool |
| `FaultIsolation` | `isolator.go`, as `forwardToUpstream` uses it | one step per critical section of `toolState.mu` and per atomic operation on `inFlight`; a call is a goroutine with a program counter |
| `ApprovalQueue` | what both queues promise a waiting call and an operator | status and outcome of each pending id |
| `Approvals` | `approvals/postgres.go` and `runApprovalFlow` | one step per SQL statement and per branch of the `select` in `Wait`; the listener goroutine of each replica |
| `ApprovalsMemory` | `approvals/memory.go` | one step per critical section and per channel operation |
| `ApprovalResume` | `resumeApproval`, `sameApprovalCall`, the asynchronous hold | rows with the stored form of the arguments |
| `ApprovalModes` | `loadApprovals`: which of the three a deployment uses | the mode is chosen in the initial state |
| `CallHolds` | composes `FaultIsolation` and `ApprovalModes`, the two stages that hold a call | |
| `AuditChain` | `Insert` and `VerifyChain` of `auditstore/postgres.go`, `audit/canonical.go` | the statements of the insert transaction; a hash is an injective term of its inputs |
| `AuditStream` | `audit/stream.go`, `handlers/audit_stream.go` | the hub's critical sections and the writes of the SSE handler |
| `AuditSinks` | `FanOutEmitter`, the Postgres, SIEM and webhook emitters, the shutdown of `main` | channel sends and receives, flushes, `Stop`, deadlines |
| `MCAuditTrail` | composes the last three, the ways of an audit event, and gives their constants values | |
| `PolicyRows` | the field assignments of an `Active` row | operators shared by the two stores |
| `PolicyStore` | `policystore/memory.go` | one step per operation (one mutex) |
| `PolicyStorePostgres` | `policystore/postgres.go` | one step per statement of a READ COMMITTED transaction, with the row locks it takes |
| `PolicyBackends` | `loadPolicyStore` | the backend is chosen in the initial state |
| `PolicyReload` | the admin handlers, `listenerSession`, `fanOut`, `watchAndReloadPolicy`, start-up | reads, compilation, write and swap of each call are separate steps |
| `Pipeline` | `handleToolsCall`, `runCapabilityCheck`, `runApprovalFlow`, `resumeApproval`, `forwardToUpstream`; kill switch, revocation and budget stores | one step per stage; every store access that other requests or operators can observe is a step |
| `Budget` | `budget/budget.go`, `memory.go`, `redis.go` | load, expiry check, compare-and-swap and add of the in-process counter are steps, and so are the INCR and the EXPIRE of the Redis pipeline |
| `Velocity` | `velocity/velocity.go`, `memory.go` | reading the clock, `Count` and `Add` are steps |
| `TaskBinding` | `task/task.go`, `task/postgres.go`, the operator's clear | `Get` and `Upsert` are steps |
| `Federation` | `runFederationDirectivePoll`, `runFederationPush`, `federation/*` | fetch, verify and obey; the audit query and the push of a window |
| `Credentials` | `credentials/*`, the seed and reload of `main`, the console's handlers | read of the table and installation of the view are steps |
| `Decoys` | `deception/deception.go`, `sync.go` | the registry after each poll; matching as operators |
| `Bundles` | `bundle/*`, `bundleadapter`, `mcp_bundle.go` | baseline, stream opening, each event, each disconnect; evaluation as operators |
| `IntentGrant` | `NewIntentGrantMCPHandler`, `igForward`, the three clients | request and answer of each peer are steps, a timeout may come between |
| `Startup` | the stages of `main`, the loaders, the routes and middleware of `server.go` | one step per stage; crash, reboot, what operators stored, and the state of Postgres and Redis |
| `Services` | composes the last nine, the process around the pipeline | |
| `AdminAuth` | `resolveAdminAuth`, tenant resolution | operators |
| `Capability` | `capability/*`, the mint, exception and revoke handlers, `igctl mint` | one step per operation; a signature is an injective term of what it signs |
| `AdminReads` | the reading handlers of `admin.go` and its siblings, `Query` of both audit stores | each store call of a handler is a step |
| `Segmentation` | `eastwest`, `zonescope`, the segmentation handlers, loading of both files | merge, the two file writes and the two replacements are steps |
| `FlowMap` | `flowmap`, `segrec`, `authoring` | operators over a window of audit events |
| `MCAuthority` | composes the last five and `MCAuditTrail`, and gives their constants values | |
| `...Proofs` | theorems and proofs (section 4) | |

The other `MC...` modules only give values to constants.

The modules compose as the code does: `FaultIsolation` is the detail of the
steps `AcquireRefused`, `Forward` and `UpstreamFails` of `Pipeline`;
`Approvals` and `ApprovalsMemory` are the detail of its `WaitReturns`; `Budget`
that of its `BudgetCheck`, `Capability` that of its capability stages;
`AuditSinks` takes the events `Emits` records; `PolicyStore` is the database
`PolicyReload` reads and writes (there with the operations reduced to the
fields that decide which draft is live).

`CallHolds`, `MCAuditTrail`, `Services` and `MCAuthority` join parts that share no
variable, or only the rules that `FlowMap` takes from `Segmentation`. One
variable says which of them a behaviour is about; the others stay in one
initial state. This makes one run of several small models and adds nothing to
what each of them says.

Abstractions that are the same everywhere: tokens, tenants, agents, drafts and
arguments are model values; a verdict of a detector, a Rego program or an HTTP
peer is a nondeterministic choice over the verdicts the handler distinguishes;
log lines and metrics are left out; a failed statement is a choice wherever
the code has an error path for it. In `PolicyReload` the tenant slot is that
of a named tenant (for the default tenant, whose name is empty, the NOTIFY of
a cleared slot has another payload).

## 3. Runs

Passing runs, with the number of distinct states TLC visits:

| Run | States | Bounds | Shows |
|---|---|---|---|
| `CallHolds` | 69 k | a tool with 3 calls, 2 permits, threshold 2, cooldown 1; 2 waiting calls, 1 held id, 2 agents, 1 crash, failing statements, three modes | `HalfOpenAttended`, `HalfOpenResolves`, refinement of `Semaphore`; `AckedVerdictStands`, `RunsWhatWasApproved`, `DecidedCallEnds`, refinement of `ApprovalQueue` |
| `PolicyStore` | 316 k | 3 drafts, 2 operators, 1 tenant, 2 sessions, both stores | `TwoPersonRule`, `ApprovesWhatIsProposed`, `QuietTransactionsAtomic` |
| `PolicyReload` | 1.01 M | 2 drafts and four scenarios (below) | `OnlyActivatedDraftsRun`, `FollowersConverge` |
| `Pipeline` | 2.29 M | four deployments (below), 2 tokens of one agent, 2 operator actions, 1 failing look-up, 1 failing containment write | `BarredNeverForwarded`, `EscalatedOnlyApproved`, `AuditTellsReply` |
| `Services` | 1.12 M | see below | a property of each part |
| `Authority` | 531 k | see below | a property or two of each part |

The scenarios of `PolicyReload`: a replica that only follows while another one
is administered, with lost notifications, connections and values and a failed
read; one that follows and restarts, beside a promotion or a clear; one replica
with an edit, a restart, a lost connection and a failed read; one replica with
three calls at once. A watch channel holds one value (four in the code), so
that it fills.

The four deployments of `Pipeline`: two requests at once through containment,
policy, approvals and upstream; one request through all stages, tokens
optional and budgets required; two requests of two actions, held asynchronously
at either of two stages and retried under the id of a held call; one request to
a gateway without an upstream.

`Services`: three calls on one budget over two lifetimes of its counter
(`BudgetPerWindow`); four calls with one or two in flight over two windows of
the velocity breaker (`OvershootOnlyByRacing`); two calls and an operator on
one task, with either store (`TaskKeptUnlessRaced`); two processes of a node,
three directives, a restart (`StopReachesSwitch`); two events over three rollup
windows with a cap of one row (`NoWindowGap`); two replicas, two tools, two console
changes, a restart (`ReloadSettles`); three polls of four decoy sets
(`LastGoodSetTrips`); three publications of six bundles and a broken stream
(`PermitsWithinPublished`); two IntentGrant calls (`OutcomesTellTheTruth`);
three boots of each of 293 environments, with the database and Redis going up
and down, failed saves and deleted drafts in between (`EnabledMeansEnforced`,
`AcknowledgedStopsSurvive`, `ServesAgain`). An environment is a base with one
setting changed: nothing set, Postgres alone, Postgres with reference
verification, everything but the three settings under which start-up reads back
what operators stored, and everything.

`Authority`: tokens attenuated up to `MaxChain` caveats by any holder, two
tenants and the superadmin, one revocation (`DelegationOnlyNarrows`,
`RevocationReachesDelegates`); the admin reads, with an export of more pages
than one while events arrive (`AnswersWithinTenant`, `ExportMissesNothing`);
two concurrent saves, a failing write and a restart (`SavedRulesStick`); every
window of observed calls of a small set (`RecommendationReproduces`); two
writers of three events on two chains with two timestamps
(`UntouchedLogVerifies`, `EditedLogFails`); three requests, a sink of each kind
and the shutdown (`EventsAccountedFor`, `StopLosesNothing`, `ShutdownEnds`);
two stream clients, a ring of two and a buffer of one (`StreamResumesInOrder`).

Why the bounds are enough. Each is the least for which the interesting cases
occur: two permits and three calls so that a call can meet a full bulkhead
while it is the probe of a half-open breaker; two ids so that a notification
can concern another call; three events so that a chain has an inner row;
a ring smaller than the run and a buffer smaller than the ring so that frames
are evicted and dropped; two sessions because every conflict in the policy
store is between two transactions, three drafts because current, previous and
proposed can then all differ; two tokens of one agent because containment of
an agent has to reach the token that did not trip; three calls on a budget so
that one can hold an expired counter while another has replaced it and a third
counts in the new one; three directives so that a stop is cleared and issued
again; three boots so that a process meets what the one before the last left
behind. Parts that never meet in the code (two tools of the breaker, two
tenants of the policy store) are not multiplied. Symmetry is used only in the
runs without liveness properties.

Disagreements with the repository's own words (expected violations):

| Run | What the counterexample shows |
|---|---|
| `PolicyReloadStale` | nothing fails, but a watcher's channel is still full when the next draft is promoted: `fanOut` drops the value, the poll counts it as delivered, and the replica keeps the older draft |
| `SegmentationAbsent` | a save that does not send `observe_only` or `allow_intra_group` writes `false` for it |
| `PolicyReloadApprove` | a draft is proposed between the read of the pending proposal and `Approve`: the store activates the second draft, the handler swaps in the engine of the first, which nobody approved |
| `AuditChainBundle` | an event with bundle fields is hashed with them and read back without: an untouched log fails `VerifyChain` |
| `PipelineRewrites` | the upstream receives the raw parameters of the request, not those the PII and tenant-scope filters rewrote |
| `LiveStream` | the response writer that reaches the live stream's handler cannot flush: the route is mounted and every authorized request to it gets a 500 |

### Fairness

- `CallHolds`: each call past the breaker keeps running (the upstream client
  has a timeout) and time passes; nobody is obliged to call. The goroutine that
  waits for an approval runs and its poll ticker ticks; nothing is assumed of
  operators, listeners, notifications or the deadline: a decided call ends even
  if every notification is lost.
- `Authority`, for the sinks and the shutdown: `main` and the workers of the
  sinks run, and the two shutdown deadlines pass. Handlers may hang for ever.
- `PolicyReload`: listener, watcher and start-up of a replica that only follows
  run. Nothing is assumed of the calls and of the replicas they go to: a call
  may stop for ever between two steps. Connections may be lost (up to the
  bound).

`PolicyReloadStale` has the fairness of `PolicyReload`: its counterexample is of
a listener and a watcher that both keep running.

`Services` and the other parts of `Authority` state safety only: they promise
nothing about when a poll, a reload or a save happens, so what must hold is
stated of the states in which it has.

## 4. What is proved

Eight modules hold proofs that TLAPS checks; each theorem holds for every value
of the constants its assumptions allow, where a run shows one small instance.
Two parts that share no variable are often proved in one module.

| Module | Theorems |
|---|---|
| `PipelineProofs` | `BarredCallsStopped`, `ApprovalsPrecedeForward`, `TrailTellsReply` |
| `IsolationProofs` | `TypeCorrect`, `PermitsAlwaysCounted`, `HalfOpenNeverOrphaned`, `BulkheadIsSemaphore` (fault isolation); `SavesStick` (segmentation) |
| `AuditProofs` | `TypeCorrect`, `ChainNeverForks`, `HeadAlwaysNewest`, `UntouchedLogAlwaysVerifies`, `EditsAlwaysShow` (chain); `StopIsSafe`, `NoEventVanishes` (sinks) |
| `VerdictProofs` | `VerdictAlwaysStands`, `QueuesImplementContract`, `ResumesOnlyApproved` (approvals); `OutcomesTrueAlways` (IntentGrant calls); `TenantsKeptApart` (admin reads) |
| `PolicyProofs` | `TwoPersonAlways`, `ApprovalsAlwaysOfProposed`, `QuietTransactionsRefine` |
| `SignedProofs` | `DelegationAlwaysNarrows`, `RevocationAlwaysReaches` (tokens); `StopHolds`, `WindowsLeaveNoGap` (federation) |
| `StartupProofs` | `ServingEnforces`, `StopsSurvive`, `ServedServesAgain` (start-up); `ReloadsSettle` (credentials); `NodeFollowsPublished` (bundles) |
| `LimitProofs` | `TaskKept` (task binding); `CapHolds` (budget) |

### Request pipeline

`PipelineProofs`, for every set of calls, tokens, operator actions and failing
look-ups and every deployment:

- `BarredCallsStopped`: `Spec => []BarredNeverForwarded`;
- `ApprovalsPrecedeForward`: `Spec => []EscalatedOnlyApproved`;
- `TrailTellsReply`: `Spec => []AuditTellsReply`.

Assumption: `TokenAssumption` (agents, tenants and caps belong to tokens).

The argument. What bars a request is consulted in three stages, and each can be
passed only if that part of it is gone. `BarredInv` says, by the place of the
request, what may still be left of it: everything before the kill switch, a
revocation after it, nothing behind the capability verdict. It is still in
force, because a release takes what it lifts out of it, and `TripsHalted` says
that an answered decoy trip is a kill of its agent. `HeldInv` says that past the
wait every approval that was asked for was granted, and that a request waits
for one at a time. `RowsInv` says what a grant rests on: a row that is approved
and stays so, of the same caller, tool and arguments, which is the row the
stage filed or, in the asynchronous mode, the one the retry names; and that the
escalation which filed a row is on the trail of its call. `AuditTellsReply` needs `Progress` (no reply before the
handler returns, a body sent exactly in the answering stages) and is inductive
with it: every event before the last one is one of the interim kinds.

### Fault isolation

`IsolationProofs`, for every set of tools, every finite
set of calls and every integer configuration:

- `TypeCorrect`: `Spec => []TypeOK`;
- `PermitsAlwaysCounted`: `Spec => []PermitsCounted`;
- `HalfOpenNeverOrphaned`: `Spec => []HalfOpenAttended`;
- `BulkheadIsSemaphore`: `Spec => ImplementsSemaphore`.

Assumptions: `ConfigAssumption` (the three settings are integers; zero and
negative ones take their defaults, which `ConfigPositive` turns into positive
numbers), `CallsAssumption` (finitely many calls), `RepliesAssumption`.

The argument. `HalfOpenAttended` is not inductive: a probe that is refused by
a full bulkhead goes away and leaves the breaker half-open. That the breaker is
still attended follows from the permit count: the refused call saw `inFlight`
at the capacity, which is positive, so by `PermitsCounted` somebody else holds
a permit of that tool, and a permit holder will record an outcome. The
inductive invariant is therefore `TypeOK /\ PermitsCounted /\
HalfOpenAttended`, with one lemma per action. The count in turn needs the
cardinality of the holders to change by one exactly when the swap wins or the
forward returns. The refinement maps the abstract holders to the calls at
`forward`: a swap that wins is an abstract acquire (the count makes its guard
true), a return is a release, every other step stutters.

### Audit chain

`AuditProofs`, for every set of workers, events, tenants,
timestamps and bundles:

- `TypeCorrect`: `Spec => []TypeOK`;
- `ChainNeverForks`: `Spec => []NoFork`;
- `HeadAlwaysNewest`: `Spec => []HeadIsNewest`;
- `UntouchedLogAlwaysVerifies`: `Spec => []UntouchedLogVerifies`, and
  `EditsAlwaysShow`: `Spec => []EditedLogFails`, if no event has bundle fields
  and the timestamps have a least and a greatest element (the window of the
  verification then covers every row).

Assumptions: `WorkersAssumption` (the mark for "nobody" is not a worker),
`EventTenantsAssumption`, `TimesAssumption`, `BundlesAssumption` (types).
`ComputeHash` is injective by its definition: collision-freedom of SHA-256 is an
assumption of the model.

The argument. `NoFork` is not inductive: it needs that a row about to be
committed extends a head no committed row extends. Three facts give that: a
transaction that has read the head holds its lock and the head has not moved
since (`ReadsStand`); the row it inserted extends the head by one link and has
an id above those of its chain (`InsertsStand`); the predecessor of every
committed row is a shorter hash than the head of its chain (`RowsBelowHead`).
A commit then appends to a head that is longer than every predecessor in use,
and moves it. `HeadIsNewest` is part of the same invariant. On top of it,
`Linked` says that neighbours in the order of ids are linked: a commit adds the
greatest id, its neighbour below is the row whose hash is the head, and that is
the row `HeadIsNewest` names. `RowsFaithful` says that a row stores what was
hashed, except for the bundle fields, which is why the theorem excludes them;
the run `AuditChainBundle` shows that it must.

`EditsAlwaysShow` (`Spec => []EditedLogFails`, under the same two conditions)
needs no further invariant: a changed row hashes to something else, because
the hash is injective and `RowsFaithful` says what it was made of; above a row
that was taken out there is one that links to it (`Linked`), and the
verification compares that link with the row below, whose hash is shorter. A row
stripped of its hash is skipped by `VerifyChain` and so is as good as taken out. That
the two neighbours exist, because a set of ids has a least and, below a bound,
a greatest, is taken from the library's well-founded orders.

### Audit sinks and shutdown

`AuditProofs`, for every set of requests, every finite list of sinks, and
all buffer and batch sizes:

- `StopIsSafe`: `SinksSpec => []StopLosesNothing`;
- `NoEventVanishes`: `SinksSpec => []EventsAccountedFor`.

Assumptions: `OrdersAssumption` (both orders are lists of sinks without
repetition and every sink is stopped), `SizesAssumption`.

The argument. `Emit` looks at the closed flag in one step and sends in the
next, so safety of the send rests on `main`: `StopInv` says that once a sink
may be stopped no handler is running, that a worker has ended only behind a
closed channel with nothing queued or batched, and that the sinks before the
one `main` is at have ended unless a deadline cut it short. `PlaceInv` follows
one event: a handler goes through the sinks in order, a sink it has been
through has the event in exactly one place and the others have it nowhere, and
no queue holds it twice.

### Capability tokens

`SignedProofs`, for every set of tenants, tools, agents, zones and
caveats, all bodies of the mint requests and every length of a delegation
chain:

- `DelegationAlwaysNarrows`: `CapabilitySpec => []DelegationOnlyNarrows`;
- `RevocationAlwaysReaches`: `CapabilitySpec => []RevocationReachesDelegates`.

Assumption: `CapabilityAssumption` (the types of the bodies and caveats). A
signature is an injective term of the payload and the chain it signs: that
HMAC-SHA-256 cannot be forged or inverted is an assumption of the model.

The argument. A verifier sees only the token it is given, so neither property
says anything inductive by itself. `KnownDescends` does: every signature that
exists outside the gateway extends the chain of a token the gateway minted,
with the same payload. It is kept by attenuation, which appends to the chain of
a known signature, and by a mint, which adds its own. `ExtensionGrantsLess`
then compares the caveats of the two chains one by one. For revocations,
`RowsTellStopped` says that identifiers are never used twice and that the rows
of the store are exactly those of the stopped tokens, tenant by tenant; a
delegate carries the payload of its root, so the row of the root stops it.

### Approvals

`VerdictProofs`, for every set of replicas, pending ids, agents and
tools, with or without failing statements and with any number of crashes:

- `VerdictAlwaysStands`: `ModesSpec => []AckedVerdictStands`;
- `QueuesImplementContract`: `ModesSpec => ImplementsQueue`;
- `ResumesOnlyApproved`: `ModesSpec => []RunsWhatWasApproved`.

No assumption is made on the constants.

The argument. Both queues keep one invariant, `WaitInv`. That an acknowledged
verdict stands needs that a row with an acknowledgement is never pending, which
it says itself: the acknowledgements of a row are at most its status, and they
are verdicts. Refinement needs `Ahead`: a call that has not enqueued has no row
(so an insert never overwrites one) and one that has not returned has no outcome
(so it returns once); a crash takes no call back to idle or on to done. The
close of a channel needs `ClosedSettled`: channels are closed only of settled
rows, and every close is in the step that settles a pending one. For the
resumption, `ResumeInv` relates a row to what was escalated under its id: it
holds what storage makes of that call, which `StoredMeansTheSame` shows to mean
the same although PostgreSQL does not tell an empty argument list from none.

### Policy store

`PolicyProofs` proves, for both stores, every set of drafts, operators and
tenants and any number of concurrent database sessions:

- `TwoPersonAlways`: `BackendsSpec => []TwoPersonRule`;
- `ApprovalsAlwaysOfProposed`: `BackendsSpec => ApprovesWhatIsProposed`;
- `QuietTransactionsRefine`: `BackendsSpec => QuietTransactionsAtomic`.

Assumptions: `NoneAssumption` and `TxsAssumption` (the mark for "nothing" is no
draft, operator or session).

The argument. `Approve` of the PostgreSQL store compares the approver with the
proposer it has read and writes in a later statement, so neither property is
inductive: they need that what the approval has read is still so. `ReadsStand`
says that an open approval holds the lock of its row, that the row still has
the pointer, the proposal and the proposer it read, and that the approver is
not that proposer. It is kept because every other write of a row waits for the
lock (`OnlyApprovalsLock`, `EndStep`) and because a second approval cannot take
it. The in-process store does each operation under one mutex and needs no more
than the types of its rows.

`QuietTransactionsRefine` shows the PostgreSQL store to implement the atomic
one, `PolicyStore`, step by step, as far as it does. Its invariant
`QuietFresh` says that everything a transaction has read or checked still holds
as long as no other one has committed since it began: the draft is stored, the
pointer or the rollback target is the one read, nothing pins the draft that is
to be deleted. A commit marks every other open transaction as overlapped, so
only statements that change nothing have to keep it. The write of a transaction
that is not overlapped is then the one step of `PolicyStore` with the same
inputs (`FreshWrites`).

### Start-up and credentials

`StartupProofs`, for every set of environments and any sequence of boots,
crashes and outages:

- `ServingEnforces`: `StartSpec => []EnabledMeansEnforced`;
- `StopsSurvive`: `StartSpec => []AcknowledgedStopsSurvive`;
- `ServedServesAgain`: `StartSpec => []ServesAgain`;
- `ReloadsSettle`: `CredSpec => []ReloadSettles`, for every set of replicas,
  tools, secrets and console changes.

Assumption: `SettingsAssumption` (a setting is off, good or bad, and a switch
cannot be bad).

The argument. `StagesPassed` says of every stage before the current one what it
must have built and that nothing in the environment makes it fail for good;
`StageOutcome` computes that for each of the stages from its loader, also for
the settings `main` is lenient about. `StopsKept`
says that with a database what was acknowledged is in its table. That a boot
which once served serves again needs `KeysFixed` (with a key in the environment
all stored credentials are under that key) and `ServedInv`: nothing in the
environment itself can be what refuses it, so that of what operators left behind
only a file cut short and a pointer to a deleted draft remain. For the credentials, `CredInv`
relates three things that race: a settled replica has the table's contents, a
reload that no write disturbed carries them, and no other reload is left that
could replace them.

### Bundles

`StartupProofs`, for every set of bundles and requests and any publications,
broken streams, failed baselines and rejected bundles:

- `NodeFollowsPublished`: `BundleSpec => []PermitsWithinPublished`.

Assumption: `GrantsAssumption` (amounts and times are integers).

The argument. The property is of a node that has read its stream to the end;
what it needs of the states before is `Arrives`: every published bundle that
verifies and was not missed is in force, or is in the events still to be
applied with nothing behind it that would replace it. A baseline that succeeds
establishes it, one that fails leaves everything published meanwhile missed
until it is published again, a publication appends to the stream, applying an event moves the bundle
from the stream to the registry. One bundle per subject, in what is published
and in what is in force, makes replacement unambiguous.

### IntentGrant calls

`VerdictProofs`, for any number of calls and any lost or late answers:

- `OutcomesTrueAlways`: `IGSpec => []OutcomesTellTheTruth`.

No assumption. An outcome is written by a goroutine after the reply, so the
invariant speaks of it while it is under way: `EmissionsTrue` (it is true, and
the first of its call), `AllowedFirst` (the tool server has seen a
consequential call only after an ALLOW), and that a call which is over does not
change any more.

### Admin reads

`VerdictProofs`, for all tenants, page sizes and limits, both audit stores and
every interleaving of the handlers' store calls:

- `TenantsKeptApart`: `AdminSpec => []AnswersWithinTenant`.

Assumption: `PagesAssumption` (the sizes are natural numbers). Besides the
types the invariant says that a paging request keeps the filter of its
administrator's tenant and has collected rows of that tenant only, and that
between look-up and decision of a held call the row is one the administrator
may touch. The lemmas under it say what `Query` of each store, its
pages and the aggregations over them return.

### Segmentation

`IsolationProofs`, for every set of write requests, of concurrent requests and
of restarts in between:

- `SavesStick`: `SegSpec => []SavedRulesStick`.

Assumption: `BodiesAssumption` (files and requests have their fields, expiries
are integers). `QuietInv` says that, while saves neither overlap nor fail, at
most one is in progress and that what it will write, and after its file write
what is in the file, are the rules asked for so far; the merge of unsent fields
(`MergeUnsent`) is what makes that so. It leaves the two flags out of account
while the last save did not send them: these are not merged, which is what the
run `SegmentationAbsent` shows.

### Federation

`SignedProofs`, for every set of processes, switches and events and any
interval:

- `StopHolds`: `DirectiveSpec => []StopReachesSwitch`;
- `WindowsLeaveNoGap`: `RollupSpec => []NoWindowGap`.

Assumption: `RollupAssumption` (the interval is a natural number). Processes
may share a switch, and one of them may release what another has engaged.
`SomeoneToEngage` is what rules out a switch that nobody holds: if it is neither
engaged nor released by an operator, one of its processes has still to engage
it. `ActedAsTold` says that no process is ahead of the control plane and that
one which has acted on the newest directive is as it says. For the rollups,
`WindowRead` says that what is stored of the window under way is in it, or was
stored too late or cut off by the cap on the rows of a query.

### Task plan and budget

`LimitProofs`, for any concurrent calls, operators, caps and clock:

- `TaskKept`: `TaskSpec => []TaskKeptUnlessRaced`;
- `CapHolds`: `BudgetSpec => []BudgetPerWindow`.

Assumption: `BudgetAssumption` (caps are natural numbers, the lifetime is
positive). For the task, `TaskInv` adds to the property that a call between its
read and its write is not counted yet; as long as no write went over another,
what it read is the row, and scoring adds one call and its tool and never lifts
a halt. With PostgreSQL the plan needs no such condition, for the upsert leaves
that column alone. A cap bounds the size of a set of admitted calls, which no step
speaks of; `Numbered` turns it into something that a step can keep: the calls
that count in the current counter have numbers of their own, from 1 to
the count, and an admitted one's number is within every cap. Counting is then an
injection into an interval. `MemoryInv` says why the compare-and-swap of the
in-process counter never revives an expired one, `RedisInv` why a call between
INCR and EXPIRE does not count in the key's next life.

### Only model-checked

- Liveness under fairness (`HalfOpenResolves`, `DecidedCallEnds`,
  `ShutdownEnds`, `FollowersConverge`) is out of the prover's reach.
- `OnlyActivatedDraftsRun` does not hold for all constants: the run
  `PolicyReloadApprove` violates it, and the run that passes is bounded to
  the scenarios in which no approval races a proposal.
- `OvershootOnlyByRacing` compares sums over the entries of a window,
  and `ExportMissesNothing` counts over pages of a sorted selection: both need
  induction over data.
- `LastGoodSetTrips` and `RecommendationReproduces` say of operators on strings
  and graphs of calls what they compute; `StreamResumesInOrder` relates the
  frames a client got to a position in a ring that moves. No proof of these
  was found that the provers check.

## 5. Known divergences

Behaviours of the code met while modelling that differ from what a document or
a comment says. The six runs above show six of them; the others are
recorded here with the place and the quoted words, and the properties are
stated so that they say what the code does guarantee.

Fault isolation
- `upstream/client.go:181` returns an error for every status from 400 up and
  `handlers/mcp.go:1039` records every error as a failure, so a tool that
  answers 4xx opens its breaker; `docs/09-fault-isolation.md:79`: "HTTP
  `< 500` (including 4xx) → success".
- `isolator.go:251` closes the breaker on any success, also that of a call
  admitted before the trip; `docs/09-fault-isolation.md:48`: "calls fail-fast
  with `ErrCircuitOpen` for the cooldown".
- `isolator.go:119` replaces a threshold of zero by 5;
  `docs/09-fault-isolation.md:102`: "Setting `FAILURE_THRESHOLD=0` disables".

Approvals
- When `Wait` of the Postgres queue returns because a read failed
  (`approvals/postgres.go:208`) the row stays pending and can still be decided;
  `approvals.go:51`: "An operator who decides AFTER the timeout gets a 409
  Conflict". `ApprovalQueue` therefore lets a call end undecided while its id
  stays open.
- The Postgres queue stores an explicit empty argument object as NULL
  (`approvals/postgres.go:154`) and reads it back as a nil map, which
  `sameApprovalCall` (`mcp.go:1651`) marshals to `null` against the `{}` of the
  retry, so the retry is refused; `mcp.go:1468`: "The agent resumes by retrying
  the same call with the resume header".
- An approved row is not marked as used (`mcp.go:1603`): each retry proceeds;
  `memos/action-approval-servicenow-design.md:90`: "idempotency key on the call
  (`pending_id`) prevents double execution".
- Nothing times out a row that no goroutine waits for: a call held
  asynchronously stays pending until somebody decides it.

Audit
- `VerifyChain` over a time window selects by event time and walks by id
  (`auditstore/postgres.go:411`), so an untouched window can be reported broken
  when the two orders differ. `UntouchedLogVerifies` is stated of the whole log.
- `VerifyChain` skips rows without a hash, so the last row of a chain can lose
  its hash, or be deleted, and the log still verifies. `EditedLogFails` speaks
  of rows between two others for both.
- A frame dropped at a full subscriber buffer lies below the Last-Event-ID of a
  client that got a later one (`audit/stream.go:77`) and is not replayed;
  `stream.go:78`: "so no decision is silently lost end to end".
  `StreamResumesInOrder` says which events can be missed.
- When the HTTP shutdown times out, `main.go:1460` exits without the deferred
  stops of the sinks; `auditstore/emitter.go:41`: "Use Stop() in a
  graceful-shutdown path to avoid losing events". The drain in
  `StopLosesNothing` is stated of a clean exit.

Policy store and reload
- `DeleteDraft` can commit between the existence check and the write of
  `Promote` (`postgres.go:562`), and the live pointer then names a deleted
  draft; `postgres.go:35`: "happen inside a single SERIALIZABLE-equivalent
  transaction, so a concurrent DeleteDraft can't slip between the check and the
  write".
- Two concurrent promotions in PostgreSQL can lose the draft that was live in
  between (`postgres.go:574`); `store.go:297`: "one rollback step is always
  available". `QuietTransactionsAtomic` is stated of transactions that overlap
  no other.
- The handlers swap the local engine without telling the watcher
  (`main.go:2777`), so two administrators on two replicas can leave one of them
  stale. `FollowersConverge` is stated of replicas on which no administrator
  acts.
- The poll visits existing rows only (`postgres.go:274`): a cleared slot whose
  NOTIFY was lost is not noticed. An edit of the live draft
  (`admin_policies.go:311`) recompiles nothing.
- A value that the watcher did not apply is not delivered again, for the poll
  compares with what it has emitted (`postgres.go:275`): it was dropped at a full
  watch channel (`postgres.go:276`), came before the watcher subscribed, its
  draft could not be read (`main.go:2781`), or it was promoted between hydration
  and the watcher's seed (`main.go:1111`) and so recorded as applied.
  `postgres.go:45`: "A polling fallback (every [pollFallbackInterval]) re-reads
  the active row so a brief connection drop can't leave a replica running stale
  policy indefinitely". The run `PolicyReloadStale` shows the full channel;
  `FollowersConverge` excuses all four, as `missed`, and nothing else.
- An approval compiles the proposal read before `Approve`
  (`admin_policies.go:1046`) and swaps it in even if another one was approved
  meanwhile: the run `PolicyReloadApprove`. The scenario of `PolicyReload` with
  three calls at once has no approvals.

Pipeline
- Without a token the kill switch is not consulted (`mcp.go:1779`);
  `killswitch.go:26`: "Global — halts every agent in every tenant".
  `BarredNeverForwarded` is stated of requests with a token.
- The kill of a decoy trip is refused by `Entry.Validate` when the token has no
  tenant, and the handler ignores it (`mcp.go:458`). `BarredNeverForwarded`
  speaks of accepted kills.
- A redaction, an injected filter or a stripped answer emits an allow event
  besides the final one (`mcp.go:860`); `docs/03-first-agent.md:181`: "emitted
  one audit event". `AuditTellsReply` speaks of the final event.
- The kill switch is consulted before the approval wait only (`mcp.go:805`): a
  call approved after its agent was halted is forwarded. `BarredNeverForwarded`
  speaks of what was in force when the request arrived.
- In the asynchronous mode an approval is of a caller, a tool and arguments, not
  of a stage (`mcp.go:1651`): a retry that is escalated by several stages passes
  all of them on the one approval it names. `EscalatedOnlyApproved` says so.
- A retry of a call that is still pending is answered without an event
  (`mcp.go:1593`); `README.md:20`: "Every decision emits a structured audit
  event". `AuditTellsReply` asks for the escalation on the trail of the call
  that filed the request.

Limits
- `Bind` reads the task, scores it and writes it back (`task/task.go:165`). A
  call that read it before it was halted writes it back running, and two first
  calls leave the in-process store with the plan of the second;
  `task.go:181`: "a halted task stays halted until an operator clears it",
  `task.go:157`: "the passed plan is ignored once set". `TaskKeptUnlessRaced`
  excuses exactly the rows over which a stale write went.
- The superadmin's clear of a task looks it up under the empty tenant unless
  the request names one, and answers 404 for a tenant's task.
- Calls of one key that count before any of them is added all pass
  (`velocity/velocity.go:87`). `OvershootOnlyByRacing` bounds the excess by the
  number of calls in flight.

Capability tokens
- `Attenuate` keeps the identifier of its parent (`capability/mint.go:118`);
  `token.go:70`: "Every hop in a delegation chain has its own [ID]". A
  revocation therefore stops the whole delegation tree, which is what
  `RevocationReachesDelegates` states.
- `token.go:185` says of the risk ceiling "the handler supplies the live score
  via [RequestContext.Risk]"; `mcp.go:1881` supplies none.
- Rate and cost caveats are left to "the velocity stage" (`token.go:171`),
  which neither `mcp.go` nor `main.go` calls.

Admin reads
- The in-process audit store orders by the text of the timestamp, which drops
  trailing zeros; the Postgres store orders by `ts` without a tie-breaker
  (`auditstore/postgres.go:304`). `ExportMissesNothing` excuses events that
  share their time with another.
- A payload read by the superadmin without `?tenant` looks under the empty
  tenant, where a default tenant's payload is stored under `default`.

Segmentation
- A save without `tool_scope` writes `null` scopes to the second file, and the
  zone-scope guard is not replaced in memory though the answer says
  `applied_live` (`admin.go:1226`). A save without a prefix writes `agent:` to
  the file and keeps the live prefix. With the guard off, unsent fields empty
  the file. `SavedRulesStick` is stated of a running guard, and not of prefix and
  scopes.
- `observe_only` and `allow_intra_group` are written as `false` when a save does
  not send them (`admin.go:1201`); `admin.go:1114`: "A field the client did not
  send is not a field the client cleared". The run `SegmentationAbsent` shows it.
- A failed second write leaves the first file changed and the live rules
  unchanged (`admin.go:1182`); two concurrent saves can leave live rules that
  are not those of the file. Both are outside `SavedRulesStick`.
- A record that repeats an exact pair replaces it, so that the pair ends with
  the record's expiry; `eastwest.go:129`: "a call is permitted if either names
  it".
- The guard trims the name of the callee (`eastwest.go:319`), the flow map does
  not (`flowmap.go:118`): a call spelt with a space is another node of the map.
- The flow map uses the agent prefix of the boot, not the live one; authoring
  lower-cases edges but not zones.

Federation
- The poll keeps one flag for the global scope (`main.go:1676`). A kill an
  operator engages while the flag is set is released by the next cleared
  directive (`main.go:1670`: "it will not release a kill an operator engaged
  locally"). A restart forgets the flag: a stop that is cleared while the node
  is down is never released. A stop issued again after an operator released
  the first one is not applied. The sequence number is never compared.
  `StopReachesSwitch` is stated of processes that have acted on the newest
  directive, and excuses switches an operator released.
- A window whose query failed is skipped (`main.go:1579`) though the log says
  "will retry next interval"; the window `[from, to)` (`main.go:1630`) is
  closed on both ends in the stores. A window reads at most 200 000 rows, the
  newest (`main.go:1639`), and an event stored after its window was read is in
  none. `NoWindowGap` excuses these and failed windows, and says nothing of
  events counted twice.

Credentials, deception, bundles, IntentGrant
- The environment seeds "first-boot only" (`main.go:1859`), but each boot seeds
  the tools the table lacks (`credentials.go:86`), so a removed tool returns.
- `deception.go:269` promises a deterministic verdict; the values it scans come
  from a Go map. An empty export that succeeds empties the registry.
- Nothing calls `Remove` of the bundle registry (`bundle/loader.go:100`): a
  withdrawn bundle keeps permitting. A bundle published between baseline and
  stream is missed until the next reconnect. When the baseline after a break
  fails, the stream is opened all the same (`subscriber.go:73`) and the node is
  left with what it had; `subscriber.go:40`: "a dropped stream never leaves a node
  stale silently". `PermitsWithinPublished` speaks of
  subjects that have a published bundle which was not missed in one of these
  ways. The signed view leaves out
  `magnitude_check.enabled` (`loader.go:119`). The reconnect delay is never reset
  (`subscriber.go:70`).
- A 3xx answer counts as EXECUTED (`mcp_intentgrant.go:285`); the comment at
  `mcp_intentgrant.go:251` says "on a 2xx".

Start-up and server
- A half-configured Pub/Sub sink is silently off (`main.go:2401`); faulty
  deception and federation settings are only logged. `EnabledMeansEnforced`
  names these settings and asks for them whenever their value can be used.
- A vendor master that cannot be read is logged and the verifier built without
  it (`main.go:668`); the comment there says "so payments quarantine rather than
  silently pass", but with `INTENTGATE_REFVERIFY_FAIL_CLOSED=false` they pass
  (`refverify.go:161`).
- Without a configured key, stored credentials are encrypted under a key
  generated at boot, and the next boot cannot read them and fails. So does a
  boot after a save cut a segmentation file short, and one that finds the live
  draft deleted (the race of `Promote` and `DeleteDraft` above).
  `ServesAgain` excuses these three refusals only.
- `server.go:663` limits an answer to 30 s, while an approval may be awaited for
  300 s and the live stream for ever.

## 6. Not modelled

Detectors, Rego evaluation, JSON schemas, encodings and HTTP clients are
functions of one value and enter as choices over their verdicts. SIEM adapters
lie behind the batch emitter. Discovery and reporting read what other parts
wrote. `PROJECT.json` gives the reason for every part.
