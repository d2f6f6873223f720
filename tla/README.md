# FaultWitness: TLA+ models, model checking and proofs

FaultWitness investigates incidents with agents and records everything it does
durably. This directory holds TLA+ models of its stateful parts, the TLC
configurations that check them on small instances, and TLAPS proofs of their
safety properties for instances of every size. Paths below
are relative to the repository root (`src/faultwitness/...` is the product,
`src/faultwitness_dev/...` its operator tooling).

## 1. The system: inventory

| Part | State it keeps | Operations | What is hard about it |
| --- | --- | --- | --- |
| Control API durable store (`api/postgres_store.py`) | incident rows, event projection, idempotency rows, pending approvals | create, cancel, feedback, approval, replay, subscribe, publish | commands interleave between awaits; the key is looked up before and inserted after the row lock; failures at every await |
| Control API HTTP and SSE (`api/app.py`) | one subscriber queue and one `delivered` cursor per open stream | four commands, stream | replay and live events overlap; bounded queues; publication outside the transaction; reconnects |
| Reference store (`api/store.py`) | the same data in memory, pruned by count and age | the same | retention while clients resume |
| Transition kernel (`state/kernel.py`) | none; contract tables | decide | four machines, 82 transitions, three version and three key policies |
| Owner state store (`persistence/postgres.py`) | aggregate state, idempotency, outbox, lease, checkpoint, inbox, dead letters | apply_transition, write_checkpoint, record_inbox, mark_dead_letter | decisions older than the row they are applied to; stale workers; lost answers |
| Runtime event stream (`runtime/streams.py`) | a Redis stream with a pending list | publish, receive, recover, acknowledge | at-least-once delivery, reclaim |
| Trace buffer and drain (`observability/buffer.py`, `service.py`, `server.py`, relay in `observability_deploy.py`) | encrypted payloads, one delivery row per sink | enqueue, claim, acknowledge, retry, drain, relay | leases that run out under slow sinks, uncertain exports, restarts, capacity |
| Trace sanitizer (`observability/sanitizer.py`) | none | sanitize | pure |
| Model gateway (`models/`) | none across calls; per call the candidate profile, attempts, retries, repairs, chunks sent | complete, stream | retry, repair and fallback must end, be accounted for, and never mix two answers |
| OIDC verifier (`identity/oidc.py`) | JWKS cache under a lock | authenticate | rotation and slow downloads while requests wait |
| Contract models and compiler (`contracts/`) | none | validate, compile | pure |
| Experiment runner (`experiment.py`) | one journal record per unit | run, checkpoint, resume, reuse | a kill between any two writes; inputs that changed in between |
| G02 fault lab (`g02_lab.py`, `g02_collectors.py`) | the feature-flag document of the system under test, journals, operation records | three scenario matrices, inject and restore by hand, live observation | the fault must be taken back whatever fails; residue and gaps in the measurements |
| G02 isolation probes (`g02_isolation.py`, `deploy/g02/gate_probe.py`) | secrets in the cluster, journals | provision, access, trace and canary matrices | a program that runs on after its connection is lost; several environments |
| Metric-v2 baselines (`g02_baselines.py`, `cli.py`) | journal, live matrix, aggregate, summary | score, retest | outages must not be scored as answers; changing scenarios |
| G03 readiness (`g03_readiness.py`) | evidence directories with manifest, dataset, trials and aggregates | preflight, inherit, resume with three or five repetitions, score | identity of the repository against that of a directory; kills; budgets |
| Bootstrap and remote channel (`bootstrap.py`, `run_remote_script` in `infra.py`) | handoff, encrypted store, host-key pin, metadata; a script on the host | migrate, rotate, accept, pin, install, probe, finalize, run a script | kills between files; another machine at the address; lost answers |
| Deployment and recovery (`infra.py`, `*_deploy.py`, `g01_*.py`) | host and cluster state | staged install, deploy, rollback, recovery drills | one step of several failing |
| Governance checks and CLI (`cli.py`, `audit.py`, `checks.py`, ...) | none | validate files | pure |

How they interact: HTTP handlers of the Control API call the store, which
publishes committed events to the streams of the same process. Owner services
call the kernel with the state they have read and persist its decision with the
owner state store, whose outbox feeds the event stream. Every service posts
traces to the Trace Service; its drain loop, explicit drain requests and the
operator's relay export them to LangSmith, OTLP and the archive. Agents reach
models through the Model Gateway, which authenticates its callers. The operator
tooling deploys all of it over one pinned SSH channel, injects faults into the
system under test, and buys live trials whose scores decide the gates; all of
it keeps its progress in journals of the same form.

`PROJECT.json` lists the same parts with their status under `components`, and
under `hazards` what in this code is hard to test, each at its line and with
the properties that watch it.

## 2. Modules

| Module | Models | Extends or instantiates |
| --- | --- | --- |
| `ControlRequests` | commands, idempotency slots, request digests, event types | |
| `ControlStore` | `PostgresIncidentStore` and its handlers | `ControlRequests` |
| `IncidentLog` | abstract specification: an incident is an append-only log | `ControlRequests` |
| `EventStream` | `stream_incident_events`, subscriber queues, clients | |
| `ControlApi` | the Control API process | `ControlStore`, `EventStream` |
| `MemoryStore` | `MemoryIncidentStore` with its streams | `ControlRequests`, `EventStream` |
| `TransitionKernel` | `TransitionKernel.decide` | |
| `StateStore` | `PostgresStateStore` | `TransitionKernel` |
| `TraceBuffer` | `PostgresTraceBuffer`, drain loop, drain requests, relay | |
| `KeyCache` | `OIDCAuthenticator` and the provider's rotating keys | |
| `ModelGateway` | `ModelGateway.complete` and `.stream` | |
| `ModelService` | the Model Gateway process | `KeyCache`, `ModelGateway` |
| `TrialJournal` | the records every resumable tool keeps | |
| `Experiment` | `ExperimentRunner` | `TrialJournal` |
| `FaultLab` | the scenario matrices and injection by hand | `TrialJournal` |
| `Observer` | `LiveScenarioObserver`, `LiveReadinessObserverV3` | |
| `Readiness` | `run_retest_baselines_v3` over its directories | `TrialJournal` |
| `Diagnosis` | a live readiness trial, its budgets and its score | |
| `Bootstrap` | secret store, host-key pin, `run_remote_script` | |
| `Probes` | the isolation matrices and the probe program | `TrialJournal` |
| `Baselines` | the metric-v2 scorer and `retest-baselines-v2` | |
| `ControlStoreProofs` | theorems about `ControlStore`, and that it implements `IncidentLog` | `ControlStore` |
| `StreamProofs` | theorems about the streams on both stores | `ControlStoreProofs`, `ControlApi`, `MemoryStore` |
| `StateStoreProofs`, `TraceBufferProofs`, `ModelServiceProofs` | theorems about the module of the same name | that module |
| `LabProofs` | theorems about the fault lab and the observer | `FaultLab`, `Observer` |
| `ReadinessProofs` | theorems about readiness, the live trial and its score | `Readiness`, `Diagnosis` |
| `OperationsProofs` | theorems about the other tools of the operator | `Bootstrap`, `Probes`, `Baselines`, `Experiment` |
| `MCControlStore`, `MCControlApi`, `MCTraceBuffer` | instances for TLC | |
| `MCLeases` | instance: owner state store, trace buffer | `StateStore`, `MCTraceBuffer` |
| `MCServices` | instance: trace delivery, Model Gateway process, observer | `TraceBuffer`, `ModelService`, `Observer` |
| `MCLab` | instance: fault lab, readiness | `FaultLab`, `Readiness` |
| `MCOperations` | instance: the other tools of the operator | `Experiment`, `Diagnosis`, `Bootstrap`, `Probes`, `Baselines` |

### Control API store

A handler is a program counter over the awaits of its method: `idle`, `checked`
(idempotency row absent), `locked` (row held `FOR UPDATE`, checks passed),
`saved` (idempotency row inserted), `committed`, `done`. Nobody sees an
uncommitted write, so the tables change in one step, `Commit`; what an open
transaction holds - the row lock, the unique-index entry - is read off the
program counters (`RowLocked`, `KeyInFlight`). `CheckIdempotency`,
`LockIncident`/`InsertIncident`, `SaveIdempotency`, `Commit` and `Publish` are
the statements in the order of the code; `Fail` is a timeout, lost connection or
cancelled task at any await. All four commands share the same skeleton in the
code, so one set of actions serves them, with the differences in `Conflicting`,
`Written`, `AnswerOf` and `Consumed`. Refusals keep their kind: 404, 409, the
uncaught unique violation, other failures. Bodies are members of a small set,
digests are the tuples they are computed from; in particular only `cancel`
hashes the incident id. The writer of `pending_approval` is outside the
repository and modelled as the external action `ProposeAction`.

`IncidentLog` says what this is for: a command is one indivisible append with
its answer, or nothing. `ImplementsLog` maps the projection read in sequence
order to the log, and checks that everything a transaction verified earlier
still holds when it commits.

### Streams

A stream is `closed`, `subscribed`, `replaying`, `live` or `waiting`. The order
of the code is kept: subscribe, replay, then the live loop, in which the
overflow flag is looked at before `queue.get()` and not after it. `seen`,
`excused` and `skipped` are history: what the client received, what it was told
it would miss, and the event it lost by taking a retention gap at its word. After
a gap the client resumes either just before the earliest retained event or with
the advertised `earliest_cursor`, which is that event's own sequence. `ControlApi` joins them to the store so that publication is a step after
`COMMIT`; `MemoryStore` joins them to the reference store, where everything
happens under one lock.

### Kernel and owner state store

`TransitionKernel` gives the condition under which `decide` does not raise and
the decision it returns; the contract tables are constants, and what the
constructor refuses is an assumption about them. `StateStore` lets callers
decide against what they read, wait as long as they like and then run
`apply_transition` statement by statement; a caller whose answer was lost
applies the same decision again. Two parts are external: the owner services
themselves, and the scheduler's write of `task_owner.lease`, which is taken to
happen in the transaction that moves a task to `LEASED`. Checkpoint writers
present any token ever granted; the lease row they lock stays locked until they
end.

### Trace buffer

Ingests, the loop task, drain requests and the relay work on one table. A
delivery row has its state, whether its lease is in the future and whether its
back-off has passed; the clock (`LeaseExpires`, `BackoffEnds`) may move at any
time. An export succeeds, fails, or fails although the sink stored the trace. A
statement may raise before or after its effect (`StoreError`). What an exception
does to its task is modelled as in the code: it ends the loop task for good, a
request gets a 500, and the relay stops. `retry` is subject to the table's
`CHECK`s, so it raises on a row that was acknowledged in between. The batch is
exported in any order, because `created_at` is the time a transaction began and
says nothing about who got the advisory lock first.

### Model gateway and token verification

A call of `ModelGateway` is where it stands in the loops of the code: profile,
attempt, retries left, repairs used, last error. `SkipProfile` is a candidate
whose channel is not configured; `ChannelFails` sorts failure codes as the code
does into those that are retried, those that fall back to the next profile and
those that are raised; `InvalidAnswer` is repaired once per call, on whichever
profile it happens; a stream keeps which attempt each chunk came from and whether
it was visible. `Escapes` is an exception that is no `ModelFailure` (a message
that is null, content that is no string, a response that does not validate, a
cancelled request): nothing in the gateway catches it, the call is over and its
attempt has no closing event. `observed` is what the `GatewayObserver` was told.

`KeyCache` counts time in ticks, at most `CacheTicks` since a load. The lock is
read off the program counters; the set of keys a download returns is fixed when
the provider answers and stored some ticks later. `retired` is history: how long
ago the provider last served a key. `ModelService` lets `complete` start only
once its request is authenticated.

### Journals and the experiment runner

`TrialJournal` gives the operations on one record (`Begin`, `Checkpoint`,
`Finish`) and its states; a write replaces a file, so a kill leaves the old or
the new record. `Experiment` walks the units of a DAG: a unit is refused when a
dependency failed, reused when it passed under the same key, and run otherwise;
its handler may set checkpoints and skip what they say was done. Inputs change
between runs, and a run is interrupted at any point.

### Fault lab and observer

`FaultLab` reduces the flag document to the set of fault classes that are
switched on. One case is `ReadOriginal`, `Control`, `HealthyWindows` (v3),
`Inject`, `ReadbackInjected`, `ObserveFault`, and in the `finally` block
`Restore`, `ReadbackRestored`, `ObserveRecovery`, then `Verdict`. A write whose
answer was lost, or whose own readback is malformed or has drifted, may have been
applied. Operations by hand are a sequence of records: any number may overlap,
and any injected one may be restored, since `restore_live_fault` looks at no
other record. The two runners differ as in the code:
in the older one any failure of the cleanup makes the case a `metric_fail`, in
the v3 runner an infrastructure failure stays resumable, whether the trial or,
after a good trial, the cleanup met it. `disturbed` and `crossed` are history:
the command was killed or the restoring write was not confirmed; an operation by
hand was restored while a later one was still injected.

`Observer` is what happens inside the observation calls: requests that act on
the system under test after a delay, samples that may lack a series, the polls
and their deadlines, and the conditions under which a fault counts as active or
recovered. The first fault call looks for errors from its own start on
(`FaultStarted`). A remote command has no time limit, so any of them may never
come back (`Hang`), with or without its effect. The metric of a class is a level
in 0..7; the thresholds are levels in the same order as the constants of the
code.

### Readiness, the live trial and its score

`Readiness` has the files of each output directory as one record, written one
at a time in the order of the code. A preflight may inherit passed cases of
another directory and may be a diagnostic sweep; `ChangeRepository` is a commit,
which always changes the run identity and sometimes the contract that cache
keys are computed from. `Diagnosis` is one conversation with its token budgets
and the bound that the preflight computes for four turns, and the scorer and
the rule baseline over every diagnosis that the schema admits. A draft that is
sent back is serialised again and may be up to `Expansion` times as long as the
completion it came from (`grown` is history: one was longer than a completion may
be). A body whose choice cannot be read ends the trial before its usage is read
(`Unread`); `billed` and `unread` are history: what the provider billed, and what
of it the trial never saw.

### Bootstrap and the remote channel

`Bootstrap` has the files on the operator's disk, the machine behind each
endpoint, and the command that runs. A host key stands for the machine that owns
it. Every command is split at its writes, and `Kill` may hit between any two;
`Readdress` puts another machine behind an endpoint at any time. `remote` is the
script of the last privileged run: each run makes a temporary file of its own. An
upload may write the file and still not tell its path (`PathUnknown`: no answer,
output that is not UTF-8, or anything but one valid path). `seen` is history;
`seen.torn` says that a rotation was killed half-way and none has completed since.

### Isolation probes and metric-v2 baselines

`Probes` has the cluster's secrets, the provisioning programs that run on the
server (a program outlives the connection that started it), and the journal.
`OwnerCells` are the access cells measured with the owner's own credential from
the operator's machine, without `assert_provisioned`.
`Baselines` has the scorer, and the command that buys trials, resumes them and
writes its three files while the scenario artifact may be replaced.

## 3. Runs

Passing runs:

| Run | Instance | What it shows |
| --- | --- | --- |
| `control_store` | 3 handlers, 2 keys, 1 existing and 1 new incident, 1 action with 2 digests, versions 0..1 | sequences are contiguous, keys apply once and have one answer, refusals leave nothing, a decision spends the pending proposal that has the approver's digest, terminal incidents stay |
| `control_store_log` | 2 handlers, 2 tenants | the store implements `IncidentLog`; no tenant sees another's incident; every admitted command is answered |
| `control_api` | 3 handlers, 1 stream, queue of 1, clients that resume at 0 or 2 | `StreamExact`: streams deliver in order, only committed events, and hold everything published that they have not delivered |
| `memory_store` | retention of 2, up to 4 events, queue of 1 | `ReferenceStreamSound`: no silent gap other than the event a retention gap named as `earliest_cursor`, delivery in order, retention keeps a contiguous suffix, an open stream holds what it has not delivered; `StreamCatchesUp` |
| `leases` | `runtime_task` contract, 2 tasks, 2 callers, 2 checkpoint writers, 1 shared key, task versions up to 4; 2 ingests, loop, drain request and relay on 2 traces and 2 digests, capacity 1, one failure of each kind | histories are paths of the contract, keys apply once, fenced transitions commit under their own token, checkpoints only advance; `BufferSound`: capacity holds, only received deliveries are acknowledged, replays are identical; `ACKED` is final |
| `services` | 1 trace with 2 automatic sinks; 2 bearers, 1 key, a cache of 2 ticks and downloads of 1, a call over 3 profiles of which the second has no channel, 1 retry and 1 repair; an observer of 4 fault classes with 2 polls and 1 window | a trace is delivered after an outage, a lost lease or a restart, unless the loop has ended; a rotated key is refused once the cache window has passed, no stream mixes two attempts, attempts are bounded and accounted for even when an unknown exception ends the call, every call ends; a fault judged active has acted, v3 never measures with a missing series, every measurement ends or hangs in a remote command |
| `lab` | 2 cases (one of a resource class, compared with its last sample), 3 matrices, 2 contracts, 2 executions, 2 operations by hand; 2 directories, 2 scenarios, 1 and 2 repetitions for 3 and 5, 2 identities, 4 commands, 2 purchases of a trial | a fault that is on has an unfinished owner, is taken back unless the command was killed, the restoring write was not confirmed or operations by hand were restored out of order, and a pass is clean; a directory holds one contract, one identity and an extension of its first aggregate, which never changes |
| `operations` | 2 dependent units, 2 inputs, 2 attempts; packets of 1..5, drafts that may double, 3 labels, 3 kinds; 2 endpoints, 2 machines of which one is a stranger; 2 environments, 2 commits, 2 principals, 3 commands; 6 labels, 2 datasets | reuse and resume rest on the same inputs; a packet that passed the preflight exhausts the input budget only through a grown draft, every turn is charged but one that could not be read, and scores are exact; the password goes to confirmed machines only, the handoff is deleted on evidence unless a rotation was cut, scripts whose path was learned are removed; probe results belong to the environment they are reported for; baselines never score an outage and hand on the best arm |

The last four runs put parts side by side that share no state. A behaviour is
one of a single part: an interleaving of several would only multiply states. In
`services` the parts that are not chosen start in a state in which they have
ended, so that their fairness and liveness say nothing about the chosen one.

Runs in which a statement of the documentation does not hold (details under
`findings`):

| Run | Statement | What happens |
| --- | --- | --- |
| `concurrent_duplicate` | same key and digest returns the original response | a duplicate in flight is refused with 409 or fails with the unique violation |
| `stream_gap` | `Last-Event-ID` replays every retained event with a greater sequence; no silent gap | two handlers publish in the opposite order of their commits, the live filter drops the earlier event, and the client's cursor has passed it |
| `retention_resume` | the same statement, and a retention gap is never a silently fabricated resume | a gap advertises `earliest_cursor`; a client that resumes with it is never sent the event of that sequence |
| `trace_outage` | traces are outage-tolerant | a failed export that outlived its lease ends the drain loop for good |

Every property of a passing run has a mutant: a definition changed as a
plausible bug would change it (kept beside the definition with the comment
"Mutant"), under which TLC refutes the property.

**Bounds.** Three handlers are enough for a duplicate to overlap with its
original while an unrelated command moves the same incident; two keys and two
digests give every combination of same and different. Versions 0..1 cover a
current and a stale `expected_state_version`, since only one transition
(cancel) changes it. A queue of one overflows, and a retention of two with four
events prunes. In `leases` four versions take one task through
`LEASE`, `LEASE-EXPIRE`, `REQUEUE`, `LEASE`, so that a worker of the first
lease meets a row that is `LEASED` again; the second task is there to compete
for the key. In the trace buffer capacity one makes the count matter, and one
failure, one store error and one restart can hit any step. Two checkpoint
writers let a worker of an expired lease overtake its successor. In `services` a
cache of two ticks with downloads of one lets a key be retired during a download
and expire in the cache, and three profiles with a hole exercise retry, fallback
and skipping in one call. In `lab` two cases of different classes in two
executions let a rerun meet what another case or matrix left behind, and two
identities with two directories give every combination of inheritance and resume
across a commit; two operations by hand are the fewest that can be restored out of
order. In `operations` packet sizes lie on both sides of the preflight limit, an
`Expansion` of two lets a draft outgrow a completion, one of the cells is the
owner's, and two environments alternate within three commands. The live fault
classes not in `services` (`product`) are judged as `payment` is. Symmetry is used for
handlers, callers, keys, traces and the digests of actions, which the specifications never
distinguish, and never in a run with a liveness property.

**Deadlock** is not checked: handlers, callers and streams are finitely many
invocations and may all be done. That nobody waits for ever is stated as
`EveryRequestAnswered`, `StreamCatchesUp`, `DeliveredUnlessEnded`,
`EveryCallEnds` and `ObserverEnds`. Command-line tools may be at rest for ever.

**Fairness.** `FairSpec`: the event loop and PostgreSQL run every admitted
handler, and a lock wait ends when the holder commits. `MemFairSpec`: the event
loop runs every open generator; heartbeats, clients and new commands are not
assumed. `TraceFairness`: the loop wakes every second and statements and exports
have timeouts of 10 s, so the service's tasks keep stepping, leases run out and
back-offs end; nobody has to request a drain, run the relay or restart the
process. `ServiceFairness`: downloads and channel requests have HTTP timeouts, so
every started request steps on (the timeout of `httpx` bounds each read, not the
whole: a server that sends a byte now and then is taken to stop), and `asyncio.Lock` serves its waiters in turn
(strong fairness of `EnterLock`); keys need not rotate. `ObserverFairness`: the
operating system runs the program. No remote command has a time limit
(`subprocess.run` and `urlopen` are given none, and AMD-0004 forbids a preset
kill), so that one answers is not assumed: `Hang` is always possible, and
`ObserverEnds` says that the program ends or hangs in one command, and never
polls for ever.

## 4. Proofs

Every safety property of a passing run, invariant or action property, is also a
theorem, proved by TLAPS for every value of the constants; the type invariant
and the refinement of `IncidentLog` too. The proofs are in eight modules:

| Proof module | Component | Theorems, with the property each states |
| --- | --- | --- |
| `ControlStoreProofs` | durable store | `TypeCorrect` (`TypeOK`), `ProjectionIsContiguous` (`ProjectionContiguous`), `KeysAppliedOnce` (`AppliedOnce`), `AnswersAgree` (`OneAnswerPerKey`), `RefusalsLeaveNoTrace` (`RefusedLeavesNoTrace`), `TerminalIsStable` (`TerminalStable`), `TenantsAreIsolated` (`TenantIsolation`), `DecisionsSpendProposals` (`DecisionSpendsProposal`), `StoreImplementsLog` (`ImplementsLog`) |
| `StreamProofs` | SSE streams on both stores | `ReferenceStreamsAreSound` (`ReferenceStreamSound`), `StreamsAreExact` (`StreamExact`) |
| `StateStoreProofs` | kernel and owner state store | `HistoriesArePaths` (`HistoryIsPath`), `DecisionsAppliedOnce` (`KeyAppliedOnce`), `TransitionsAreFenced` (`FencedTransition`), `CheckpointsAdvance` (`CheckpointAdvances`) |
| `TraceBufferProofs` | trace buffer | `BufferIsSound` (`BufferSound`), `AcksAreFinal` (`AckedFinal`) |
| `ModelServiceProofs` | Model Gateway process | `AcceptedKeysAreFresh` (`AcceptedKeyFresh`), `StreamsAreNeverStitched` (`NeverStitched`), `AttemptsAreAccounted` (`AttemptsAccounted`) |
| `LabProofs` | fault lab, observer | `FaultsAreOwned` (`FaultOwned`), `DocumentIsRestored` (`RestoredUnlessDisturbed`), `PassesAreClean` (`PassedCleanly`), `ActiveFaultsAreReal` (`ActiveIsReal`), `MeasurementsAreSound` (`MeasuresSoundly`) |
| `ReadinessProofs` | readiness, live trial, scores | `DirectoriesAreConsistent` (`DirectoryConsistent`), `R3IsFrozen` (`R3Frozen`), `BudgetsAreHeld` (`BudgetHeld`), `ScoresAreSound` (`ScoresSound`) |
| `OperationsProofs` | bootstrap, probes, baselines, experiment runner | `PasswordReachesOwnMachines` (`PasswordTrusted`), `ScriptsAreRemoved` (`ScriptRemoved`), `HandoffEndsOnEvidence` (`FinalizedOnEvidence`), `ProbesAreBound` (`ProbesBound`), `BaselinesAreSound` (`BaselinesSound`), `ReuseIsSound` (`ReuseSound`) |

Each rests on an inductive invariant of its component, proved from `Init` and
preserved by one lemma per action; several of the invariants are theorems of
their own (`ServiceInvariant`, `MemoryInvariant`, ...). Steps that change the
same things share a lemma (`FinishInv` and `EnterInv` for the handlers of the
store, `Moves` for a command of the lab that only steps on). Bounds such as
`MaxVersion` or `MaxContract` that TLC needs are arbitrary natural numbers in
the proofs.

**Why the properties are not inductive, and what is added.**

- *Durable store.* That a command appends the next sequence number depends on
  what its transaction read and still holds. `Inv` adds that open transactions
  work on distinct incidents and the row each one read is still the committed
  one, with its checks still true (`Locking`, `RowHeld`); that idempotency rows
  are unique per slot, a slot inserted and not committed is stored by nobody and
  reserved by one handler, and a committed handler's row is there (`KeyUnique`,
  `KeyReserved`, `KeyStored`); that every event belongs to a handler past
  `COMMIT` that was not refused and whose key is stored (`EventsCommitted`); and
  that handlers that are not done have no reply, and what accepted ones were
  told is stored (`Unanswered`, `AnswerStored`). `Commit` is the one step that
  changes tables. `TenantInv` and `PendingInv` add who may be answered with
  which incident, and that an action has one pending row at most, so that a
  decision can use up only the proposal it was checked against.
- *Refinement.* `ShapeInv` relates the state and version of a row to the events
  of its projection, so that what a handler checked on the row says what
  `IncidentLog` asks of the log. `Commit` maps to an append, a proposed action
  and every other step to a stutter or the matching external step.
- *Streams.* `Sound` is what any stream keeps of its own record (what the client
  received is increasing and at or below its cursor, a replay is a run of
  sequences ahead of it), proved once and used for both stores. On the reference
  store `Complete` adds that everything up to the cursor was received, excused or
  the one event a gap made the client skip, and that what lies before an element of the queue comes earlier in it.
  The subtle case is a `get()` that was suspended when the queue ran over: it
  does not look at the flag again, and is right only because the queue is still
  full and in order (`QueueInOrder`, `StillFull`). On the durable store what is
  committed and not yet published is owed as well (`Covered`), and the store's
  `Inv` is strengthened by which handler owns an event (`EventOwner`).
- *Owner state store.* A caller's decision may be older than the row. `Sound`
  says that it follows the contract and, as long as the version has not moved,
  neither have state and lease; `RowLock` that an upsert that hit keeps the row
  until its transaction ends. Fencing follows although `apply_transition` never
  reads the lease: a new lease needs a new version.
- *Trace buffer.* `EnqueueLock` keeps the count that an ingest has read true
  while it holds the advisory lock; `Working` ties a task to the sink and trace
  it is settling, which makes a late acknowledgement one of something received.
- *Model Gateway process.* Every attempt is paid for by a profile, a retry or the
  repair (`Budgeted`), at most one is open, and then the call is waiting for it or
  was ended by an exception it did not catch, and visible output is the current attempt's (`Unmixed`).
  `AgesBound`: the age of a cache or of an answer under way bounds the time
  since each of its keys was served.
- *Fault lab.* `Knows` is what the command may rely on about the flag document
  at each of its steps, `Pending` what it may about the operation by hand it is
  injecting. As long as no operation was restored out of order (`Owned`), every
  fault that is on has an owner, what was on when an operation began stays on
  while it is injected (`HandKeeps`), and without a disturbance only operations
  leave a fault on (`Undisturbed`).
- *Observer.* A baseline exists, and the level has not risen above it unless the
  fault has acted (`Baseline`); until the injection nothing is due and nothing
  is on (`QuietUntilInjected`). `MeasureInv` is this invariant, or what is left of it
  once the program hangs (`HungSoundly`).
- *Readiness.* `Consistent` is what a directory holds wherever a command was
  killed, `Working` what a running command knows of its directory.
- *Live trial.* Before each turn the bill is within the partial sums of the
  preflight's bound (`SpentBefore`, `Within`) as long as no draft sent back is
  longer than a completion may be; what the provider billed is what the trial
  charged and what it could not read (`Accounted`). The scores need no induction: scorer and rule baseline
  are compared with their definitions for all inputs.
- *Bootstrap.* A pin is a confirmed machine's (`Pinned`), the `ssh` flag was
  earned on the endpoint in the store (`Earned`), the script of the last run is on
  the host only between upload and clean-up (`Tidy`).
- *Probes.* A command has collected one result per unit in its own environment
  (`Collected`); a program, its journal record and the secrets it has written so
  far agree unless two programs overlapped (`OwnProgram`, `Described`).
- *Baselines.* The command knows that the trials behind it are resolved or met
  an outage (`Tried`), a file that names a dataset is complete (`BestIn`).
- *Experiment runner.* `ExactPass`, that a unit and everything below it passed
  under their present keys, is kept for every unit of `run.done` (`DoneIsExact`)
  and for the dependencies of the unit at hand (`HandledIsKeyed`). `cache_key`
  is recursive in the code; a unit has a key there exactly when it lies in a set
  of units that is closed under dependencies and has passed throughout, and it
  is stated so, without recursion, which the provers can use.

**Assumptions.** The proofs use the named `ASSUME`s of the modules only, which
TLC evaluates in the runs. Most say that bounds are natural numbers and that
`None` and `Nobody` are no members of the other sets. The others:

- `ContractAssumption`: what the constructor of `TransitionKernel` refuses.
- `SinkAssumption`: there is at least one automatic sink (`TraceService` takes
  all sinks when it is given none) and the relayed ones are others.
- `WindowAssumption`: `timeout_seconds` (3) is below `cache_seconds` (300), so a
  download ends before a cache filled at its start would have expired.
- `RouteAssumption`: a route allows at most one transient retry per profile and
  one repair (the limits of `RoutePolicy`), and a channel reports neither of the two codes that the gateway
  itself raises.
- `EveryCallAuthenticates`: a call to the gateway is a request with a bearer.
- `DagAssumption`: units are numbered in a topological order, the one in which
  `ExperimentRunner` walks them; it refuses a plan that is not in such an order.
- `ReadinessAssumption`: there is a seed, and 0 < R3 < R5.
- `DiagnosisAssumption`: the preflight limit lies below the input budget, a draft
  grows by a positive factor, and the signal of a fault is no mere activity.
- `LabAssumption`, `ObserverAssumption`, `ProbesAssumption`,
  `BaselinesAssumption`, `BootstrapAssumption`: the shape of the catalogues and
  matrices, and that the operator's machines are machines.

**Only model-checked.** The liveness properties `EveryRequestAnswered`,
`StreamCatchesUp`, `DeliveredUnlessEnded`, `EveryCallEnds` and `ObserverEnds`:
reasoning from fairness is out of this prover's reach. The statements of the
documentation in the last table of section 3 do not hold, so there is nothing to
prove. The kernel's contract tables are constants; that the four machines of the
repository satisfy `ContractAssumption` is not shown, `leases` has one of
them.

## 5. Not modelled, and why

- Role scopes, error envelopes, formats, the sanitizer, the contract models and
  compiler, and the checks of governance files are stateless.
- Cipher, digests and signatures are functions of what they protect.
- `record_inbox`, `mark_dead_letter` and the Redis stream have no caller in the
  repository: without a consumer there is no protocol. (What one has to get
  right: a crash between `record_inbox` and the effect of the event loses the
  effect unless both are in one transaction.)
- `InMemoryTraceBuffer` is a test double of the buffer that is modelled.
- A client that disconnects before its SSE generator starts leaves its
  subscriber behind (`api/app.py:245`); whether that happens is decided by
  Starlette, which is not in the repository.
- The cascade, leakage and separability diagnostics of G03 are floating-point
  statistics over recorded packets.
- The installers, smoke tests and recovery drills are straight-line remote
  scripts whose state is a cluster; they fail as a whole and are run again. Their
  channel is in `Bootstrap`, the trace relay in `TraceBuffer`.
- Two commands of the operator at the same time: the tools take no lock, and the
  runbooks run them one after the other.
- Records an earlier version of the v3 runner misclassified, which the code runs
  again: no current code writes them.

## 6. Divergences seen while modelling

Behaviour of the code that a reader of its documentation may not expect. The
models have it; the properties above are stated so that they hold with it.

- Reference store: `event_cursor` stays behind after feedback and approval
  (`api/store.py:168`; `CONTROL_API_RUNTIME.md:15`).
- Reference store: a client that reconnects without `Last-Event-ID` is replayed
  what is retained and is not told that earlier events are gone.
- Model gateway: ADR-0008 allows fallback before any chunk; the code counts
  visible chunks only. An answer whose message is null or whose content is no
  string ends a call by an exception that is no `ModelFailure`: no retry, no
  fallback, and an attempt that the observer sees start and never end.
- Fault lab: the gate runner turns an infrastructure failure of the cleanup into
  a final `metric_fail`. An infrastructure failure that leaves the flag on makes
  the rerun refuse to inject, which is again a `metric_fail`. A kill between the
  injecting write and the `injected` record leaves an operation that
  `restore_live_fault` refuses. Two operations by hand that overlap and are
  restored out of order switch a fault on again, and both records say restored
  (`crossed`). The metric definition names a
  memory quantum of 4096 where `ROOT_SIGNAL_FEATURES` has 1.0, and
  `collect_healthy_window` counts its requests as fault stimuli.
- Trace buffer: `ExportFailure.retryable` is not looked at; a trace that a sink will
  never accept is retried for ever and holds its place.
- Readiness: passes of a diagnostic sweep can be inherited into a gate
  preflight, although `G03_BASELINE_READINESS.md` says that a diagnostic-mode
  product may never be promoted. A resume with three repetitions after five
  writes the phase and summary back. A failed case can be run again through a
  new directory. Tokens spent before a transport failure are not in the ledger,
  nor those of a turn whose body has no choice to read. AMD-0007 calls the four-turn
  input bound conservative; it counts a draft that is sent back as one completion,
  while `build_baseline_prompt_v3` serialises it again with `ensure_ascii`, so a
  packet that passed can still exhaust its budget (`grown`). A body or choice that is
  no object raises an exception that ends the command.
  A kill between manifest and preflight summary, or during inheritance, leaves
  a directory that cannot be used again.
- Experiment runner: inputs that change away and back let a unit be tried again
  that had failed on them.
- Bootstrap: `rotate_server_endpoint` says that the verification of a new machine
  must be re-earned; killed after it wrote the store it keeps the flags of the old
  server, and `finalize_handoff` deletes the handoff on them (`torn`). A kill between store and metadata in `migrate_handoff` is a dead
  end. A kill between deleting the handoff and recording it leaves
  `handoff_deleted` false. An upload whose answer is lost, is not UTF-8 or is not
  one valid path leaves the script in `/tmp`.
- Probes: the plan digest contains the commit and the cache key does not, so
  after a commit in the same environment the old provisioning is reused,
  `assert_provisioned` fails, and the cell stays `blocked`. A deny cell passes
  when its target does not answer. The owner's LangSmith cell is measured without
  `assert_provisioned`. A provisioning program whose connection was
  lost can overlap with the next one. The waits for pods and for Tempo have no
  bound.
- Metric-v2 baselines: answers refused inside the adapter are billed zero tokens.

## 7. Plan

1. Done: Control API store, streams, reference store, kernel and owner state
   store, trace buffer, Model Gateway process with token verification, experiment
   runner, fault lab and observer, readiness, bootstrap, probes, metric-v2
   baselines; proofs of all their safety properties.
2. Further theorems worth stating: what the abstract log promises by itself
   (append-only, one answer per key), and with the refinement so for the store;
   that the four contract tables satisfy `ContractAssumption`.
3. Event delivery between owner services (outbox, Redis stream, inbox, dead
   letters), when the repository has a consumer.
