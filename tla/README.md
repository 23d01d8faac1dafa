# Agentype in TLA+

A TLA+ model of the Agentype scheduler (the Rust V0.2 mainline under
`src/crates/`): the transactions of its durable kernel, the daemon threads that
call them, TLC runs on small instances, and TLAPS proofs of the properties that
matter most for every instance.

1. [The system](#the-system)
2. [What is hard about it](#what-is-hard-about-it)
3. [Modules](#modules)
4. [Runs](#runs)
5. [Bounds](#bounds) and [fairness](#fairness)
6. [Proofs](#proofs)
7. [Findings](#findings)
8. [What is not modelled](#what-is-not-modelled)

## The system

Agentype is a single-machine, restart-safe control plane for durable agent work.
One daemon process owns one SQLite store. All scheduling state is in the store and
every change to it is one `BEGIN IMMEDIATE` transaction; threads of the daemon, the
host that embeds it, Root (the human or agent that decides what the scheduler may
not) and worker processes act on the store through those transactions only.

| part | code | state | operations | talks to |
|---|---|---|---|---|
| durable kernel | `agentype-storage-sqlite`: `kernel.rs`, `txutil.rs`, `schema.rs` | tasks, attempts, leases, executions, incarnations, logical agents, batches, escalations, results, outbox | submit, claim, create execution, confirm running, record outcome, ACK, NACK, cancel, expire, promote, resolve escalation, resize, reconcile, revive | everybody |
| authority and decisions | `agentype-core`: `authority.rs`, `decisions.rs`, `states.rs` | none (pure) | fencing check, physical transition table, retry, presence, release disposition, excess ranking | called by the kernel |
| control loop, dispatcher | `agentype-runtime`: `control.rs`, `lib.rs`, `observation.rs` | one thread; the claim in hand | expire, promote, reconcile, revive, ensure consumers, then at most one dispatch per cycle | kernel, adapter, supervision |
| dispatch gate, READY | `control.rs`, `daemon.rs` | Closed, Ready, Failed, Stopping; starts in flight | commit ready, begin start, fail, shut down | all threads |
| supervision | `supervision.rs`, `timing.rs` | registry of admitted executions with generations and freshness | admit, renew, refresh, drop | kernel, observer |
| physical observer | `observer.rs` | the watched executions and their tickets | observe, record the end or the loss, NACK | adapter, kernel, supervision |
| startup recovery | `recovery.rs` | none of its own | replay terminal consequences, reconcile each open execution, expire, admit | kernel, adapter, supervision |
| notifier, Root bridge | `notifier.rs`, `agentype-root-bridge` | outbox rows | deliver, commit delivery, back off | kernel, Root |
| host control | `scheduler_control.rs` | none | submit, cancel, resize, reconcile, acknowledge results | kernel |
| typed acquisition | `provisioning.rs`, `requirement.rs`, `preparation.rs`, `provisioning_resolver.rs` | bindings, snapshots, preparation faults | match, acquire, provision, fault | kernel, catalog |
| semantic frontier | `frontier.rs` (storage and core), `semantic_control.rs`, `intent_ingress.rs` | generations, proposals | compile, admit, reject, freeze, close | kernel, Root |
| catalog, agent contract | `catalog.rs`, `agentype-agent-contract` | immutable revisions and their disposition | publish, deprecate, match | typed acquisition |
| adapters | `agentype-adapter-api`, `agentype-adapter-local-process` | processes | start, observe, collect, interrupt, terminate, reconcile a start | the operating system |
| store and process lock | `store.rs`, `process_lock.rs`, `agentype-nlink` | the store file, an OS lock | open, migrate, lock | the operating system |
| Python 0.1.3 line | `src/src/local_agent_scheduler` | as the kernel | as the kernel | |

A **task** is claimed for a **logical agent**: the claim raises the task's fencing
epoch and inserts an ACTIVE **attempt** and **lease**. The **execution** of an
attempt is committed before the adapter is asked to start anything. It runs on an
**incarnation**, the physical generation of the agent. Authority is the pair
(attempt, epoch): `validate_authority` accepts it while the attempt is current, its
lease is ACTIVE and has not elapsed. Everything that arrives without authority may
change physical history only.

## What is hard about it

* **Two writers.** A lease that expires says nothing about the process. A write task
  may be retried only when the earlier execution was confirmed quiescent or ran in
  an isolated workspace; otherwise the task is suspended, an escalation
  `WRITER_QUIESCENCE_UNKNOWN` is opened and the agent is quarantined until Root
  discharges the obligation, even if the task is cancelled in the meantime.
* **Late and unordered evidence.** A start may take effect after its caller gave up.
  Ends, losses, ACKs and cancellations are recorded in any order.
* **Authority in four tables.** Seven paths close an authority; each must close all
  of task, attempt, lease and agent, fence the host, and recompute the batch.
* **Steps between transactions.** The dispatcher makes several transactions and an
  adapter call for one claim; the host, Root, the observer and time act in between,
  and an unexpected error ends the control loop for good.
* **Delivery without a transaction.** Root is called between two transactions: it may
  acknowledge first, or be reached by a call that fails, or the daemon may crash.
* **Crash and restart.** The process may die between any two transactions, also of the
  recovery that follows. What it supervised must be reconstructed from the store and
  from what the adapters answer, before anything is dispatched.
* **Renewal against expiry.** The heartbeat checks the freshness of its evidence, then
  commits a renewal; in between an execution may be dropped, refreshed or expire.
* **Names that are reused.** A process number that was reaped may belong to somebody
  else by the time a signal is sent or an end is reported.
* **Topology under working agents.** A partition is merged, resized or retired while its
  agents work; a staged move takes effect only when the agent is released or revived.
* **Selections that age.** A typed claim is matched and attested over many steps while
  operators change the catalogue; admission is decided on a revision that was read
  earlier.

`PROJECT.json` lists each hazard at its line under `hazards`, with the properties that
would catch it.

## Modules

| module | models | state |
|---|---|---|
| `Kernel` | the kernel's transactions on untyped tasks of one partition, for any caller | one variable per table, `physical` for the processes |
| `ControlLoop` | the daemon's control loop, dispatcher and observer on `Kernel`, with host, Root, workers and time in between | `pc`, `claim`, `class`, `listed`, `due`, `watched`, `ticket`, `failed` |
| `Recovery` | `ControlLoop` with crashes, and the startup that follows one | `boot`, `todo`, `hand`, `why`, `swept`, `refused` |
| `Supervision` | the registry, the heartbeat thread and the observer's refresh, in discrete time | `authority`, `left`, `token`, `entry`, `due`, `fresh`, `beat`, `phase`, `sight` |
| `Daemon` | start, READY, the dispatch gate, the runners, the watchdog, shutdown and join | `gate`, `starts`, `main`, `control`, `runner`, `thread`, `watch`, `stop`, ... |
| `Readiness` | what `Daemon` promises about starting work | four variables |
| `Notifier` | the outbox and the notifier thread, with Root and crashes | `outbox`, `queue`, `wait`, `attempts`; `thread`, `candidates`; `received` |
| `LocalProcess` | the two process adapters, with pids, birth ticks, pidfds and records | `proc`, `orphan`, `live`, `record`, `handle`, `call`, ... |
| `Topology` | partitions, staged moves and retirements, release and revival | `partition`, `agent`, `task`, `obligation`, `listed` |
| `AgentContract` | the pure relations of typed work | none |
| `Catalog` | published revisions, their dispositions, validated reads, the frontier digest | `catalog` |
| `ContractLaws` | what the relations owe each other | none |
| `TypedAcquisition` | matching, attesting, claiming, preparing and committing a typed task | `tasks`, `attempts`, `agents`, `hosts`, `d`, `cooling` |
| `Frontier` | generations, proposals, admission and the catalogue of types that it reads | one variable per table; `view` is what Root last read, `issued` what it asked for |
| `MC*` | instances for TLC | |
| `*Proofs` | theorems, see [Proofs](#proofs) | |

`Recovery` extends `ControlLoop`, which extends `Kernel`: one composed system.
`TypedAcquisition` extends `ContractLaws`, `Catalog` and `AgentContract`, and `Frontier`
extends `AgentContract`. `Daemon` is shown to implement `Readiness`, and `Recovery` to
implement `Kernel`. `map` in `PROJECT.json` gives the lines of every definition.

### Kernel

Each table of the schema is a function. An attempt is identified by its task and
attempt number, and because a claim increments both the number and the fencing epoch
the same pair identifies the lease and the execution; an incarnation by its agent and
generation. One action is one transaction, named after the Rust function, complete with
the calls it makes at the end (`release_agent`, `record_incarnation_presence`,
`recompute_batch`, `release_dependencies`): the operator `CloseAttempts` is the common
tail of ACK, NACK, expiry and cancellation. A transaction that answers an error
changes nothing and is not a step here.

Time appears where the code compares with it: an ACTIVE lease becomes `ELAPSED` (still
ACTIVE in the table, refused by `validate_authority`) until `expire_leases` sweeps it,
and a backed-off task is promoted for any set of due tasks. Lease renewal is the
absence of `LeaseElapses`.

`physical[id]` is the truth about the process of an execution: `none`, `running`,
`ended`. It is not in the store. The kernel's safety depends on what its callers
assert about it, and the model makes that explicit: `Truthful` (quiescence is asserted
only of a process that ended), RUNNING is confirmed only of a process that was started,
and `abort_before_physical_start` is called only when none was. `ControlLoop` and
`Recovery` are shown to keep to this, and `LocalProcess` that the adapters' answers do.

Payloads, workspaces, tags, handles, result bodies and timestamps are dropped;
`isolated`, `terminal` and `quiescent` are kept because decisions depend on them.

### ControlLoop and Recovery

`pc` is the place of the control loop between two of its transactions or adapter
calls, from the cycle's maintenance (`expire`, `promote`, `reconcile`, `list`,
`revive`, `ensure`) through `claim` to the steps of `dispatch_claim` and
`commit_start_observation`. `claim` is the receipt it carries. The start is a call
(`StartExecution`) and a return (`StartReturns`), and everything else can happen
between them. Each error arm of the code is kept: staleness leads to an outcome or to
a second, history-only transaction; any other refusal is `Fail`, which is the
runner's error arm: the gate fails, the thread ends.

The observer takes a ticket for a watched execution, asks the adapter, and applies the
answer in the two transactions the code makes. Host control can call anything
`SchedulerControl` exposes, which has no way to assert quiescence.

In `Recovery` the process may die between any two transactions, including between the
one that records the end of an execution and the one that acts on it
(`CrashAfterEvidence`). `boot` is the place of the startup: replay of persisted terminal
consequences, one reconciliation per open execution with every answer of the adapter,
the sweep, promotion, the pool, revival, the READY check and the activation sweep. While
it runs there is no host control; time passes and processes start, run and end.

A startup stops at a check that fails (`Refuse`), and the next one begins anew. Of the
`failure_class` of an execution the model keeps whether there is one (`classed`): a replay
refuses a row that is SUCCEEDED with a class. `Contradictory` rows exist. An observation
leaves a class with UNKNOWN or LOST, `confirm_running_and_renew` keeps it, and the success
of an unisolated writer that is not known to have stopped is recorded by `ack_success`
without a Result and with the class still there. From then on every startup is refused,
as the report `riir-m5.4-restart-reconciliation` asks for inconsistent durable evidence.

### Supervision

Every instant is kept as its distance from now: what is left of the lease, how long the
evidence stays fresh, when an entry is due. A tick shortens them all. The heartbeat thread
is split at its critical sections (`beat` is the renewal in hand), the observer at the
point between an answer and its refresh (`sight`). An execution is admitted once in the
life of a process, so the entry of an execution is the entry of its generation.

### Daemon

`main` is the thread of `start` and then of the host. The four runners, the control loop,
the observer and the watchdog can fail at any step; `gate`, `starts` and `released` are
the gate's phase, its permits in flight and the release of the workers. Executions appear
as far as READY depends on them. `Readiness` has four variables: a gate that opens at
most once, the starts in flight, whether a thread failed, and whether threads are left.

### Notifier

`outbox` is the state of every row; `queue` is the PENDING rows in the order of
`due_outbox`, and `wait` the time that is left to the `next_delivery_at` of each, in
units of `base_delay`. The thread reads a batch of due rows (`due_outbox`), takes one
(`NextCandidate`), calls the bridge without a transaction (`Delivers`, `Errs`) and
commits the answer (`CommitDelivery`); Root may acknowledge between any two of these.
A failed call may have reached Root. The bridge's panic and a refused transaction end
the thread (`Fails`); `Stops` is the shutdown and `Crash` the end of the process, and
`start` a new daemon on the same store. Who enqueues does not matter to it: an event
appears at any moment, as `enqueue_event` leaves it.

### LocalProcess

A process belongs to a request or is a stranger. Its birth is the coarse tick of
`/proc/<pid>/stat`, so two processes may share one; its instance token is in its
environment and is its own. `call` is what each daemon thread is doing, one step per
system call that another thread, the process or the system can race with: spawning,
publishing the record, pinning by pidfd, proving birth and token, signalling, waiting,
reaping. A deadline may expire before any step. A number is recycled only once its
process was reaped; a crash turns the children into orphans that the system reaps.

### Topology

An operation is one transaction and one action; one that the code refuses rolls back and
is no step. `agent` carries the live incarnation, the staged move and retirement. Work is
coarse (`Kernel` has it in full): an agent with a task has the one ACTIVE attempt, which
ends in a release or in the quarantine of a writer that may still run. `listed` is the
stale list of a `revive_eligible_agents` pass.

### AgentContract, Catalog, TypedAcquisition

The relations are predicates; what may fail is the set of its results, one or none.
Ranks, quantities and budgets are naturals, of which only the order matters. The content
of a revision is immutable and therefore a constant; `catalog` is the disposition of each.

`d` is the dispatch in hand: the task, what was matched, the sources attested so far
(`d.seen`), what they offered (`d.found`) and the frontier digest it began with. Each step
is one read, attestation or transaction of `dispatch_typed_one`, and between any two of
them operators publish and change dispositions, Root resolves, leases elapse, agents are
bound, revived or retired, tasks cancelled, and the process may stop. `finish_acquisition`
re-proves what it commits. Existing agents are ranked once over all that are eligible
(`d.eligible`), however many were tried already (`d.ranked`). A claim that expires, is
cancelled or ends while its Execution may still write a shared workspace puts its agent in
quarantine (`Quarantine`) until Root accounts for the writer; the agent is then revived or
retired. What an Execution does once committed is otherwise left to `Kernel`.

### Frontier

A generation goes OPEN, FROZEN, CLOSED. Intents of Root (`compile_root_intent`) and
intents that a result carries (`compile_result_intent`) become PENDING proposals; Root
admits, rejects, freezes and closes on the revision it last read, which may be out of
date. `admit_proposal_core` is the whole transaction: task, binding, requirement,
proposal and sequence. A proposal is identified by its generation and its key, as the
table's UNIQUE constraint does; an intent is its information function, the results and
seeds it rests on, and its specification. The kernel ends an admitted task in one step
(`TaskEnds`), and creates tasks that no generation admitted (`submit_batch`).

A typed admission derives a requirement (`derive_task_agent_requirement`): the selector
is resolved in the published catalogue, the draft is completed from the specification and
folded with the generation's policy. Revisions are published and deprecated at any
moment. A repeated admission changes nothing, so it is no action: `Replays` says whether
it is answered with the task, and `issued` remembers the original command.

## Runs

| run | instance | checks |
|---|---|---|
| `kernel_writer` | one write task, two claims, two agents, a pool that is resized | `WriterExclusion`, `SingleAuthority`, `WriterQuarantine`, `ObligationsAndEndsLast` |
| `kernel_join` | a task that waits for two others, one agent, two generations of hosts | `DependenciesFirst`, `BatchUpToDate`, `HostExclusive`, `FencedForever` |
| `recovery` | one write task, one agent, two claims, two generations, any number of crashes | `RefusesOnlyContradictions`, `EvidenceDecides`, `StaleClaimsAreHistory`, `ImplementsKernel` |
| `recovery_live` | the same, with a pool that is not resized | `WorkSurvivesCrashes` |
| `notifier` | three events, batches of two | `OutboxIsTrue`, `AtLeastOnce` |
| `frontier` | a generation, two intents of Root and one of a result, three tasks, two revisions of a type, two policies, two drafts | `NothingIsStranded`, `PolicyIsCeiling`, `ReplayIdempotent`, `DecidedAsSeen` |
| `supervision` | two executions, lease 3, heartbeat 2, freshness 2 | `ScheduledBeforeExpiry`, `RenewedOnFreshEvidence`, `FreshIsNotRevoked` |
| `daemon` | one execution | `KeepsItsPromise`, `ReadyIsSupervised`, `FailuresAreReal` |
| `local_process` | one request, one stranger, one number, two threads, two ticks, one crash | `KillsHitTheirTarget`, `AnswersAreTrue`, `OnlyACrashLosesAProcess` |
| `topology` | three partitions on two targets, two agents, an untyped and a typed task | `ReleaseNeverRefused`, `WorkIsPlaced`, `NobodyIsStuck`, `HostNeverAbandoned` |
| `typed` | one task, one agent and one that may be born, three types, sources and policies, four configurations | `FaultReachesRoot`, `BestOfTheCatalogue`, `RestrictionsHold`, `PublishedNarrows`, `FrontierDecides`, `RetiredForGood`, `HostKeepsItsProvenance`, `AcquisitionSettles` |
| `stale_start` | one write task, one agent | `StaleStartIsRecorded` is violated |

What the passing runs show:

* **Writers** (`WriterExclusion`, `WriterQuarantine`, `ObligationsAndEndsLast`). No
  order of expiry, late start, cancellation, observation and resolution puts two
  processes on the workspace of a write task; the obligation survives cancellation
  and is closed only by Root with quiescence or isolation as its reason.
* **Authority** (`SingleAuthority`, `StaleClaimsAreHistory`). The four tables agree
  after every transaction, and a receipt that lost its authority changes nothing but
  history from then on, whichever step of a dispatch, an observation or a recovery
  holds it.
* **Bookkeeping** (`BatchUpToDate`, `DependenciesFirst`). No path forgets to recompute
  the batch; its completion is announced once; no task is claimed before what it
  depends on has a result.
* **Hosts** (`HostExclusive`, `FencedForever`). A fenced incarnation never comes back
  although `confirm_running_and_renew` writes WARM without a guard, because authority
  was closed with the fence.
* **Restart** (`ImplementsKernel`, `RefusesOnlyContradictions`, `EvidenceDecides`,
  `WorkSurvivesCrashes`). However often the process dies, what it does is what the
  kernel allows; the only history that stops a startup is success with a failure class and
  no Result, and only the closed attempt of a writer in a shared workspace leaves one;
  evidence of success that is durable is not thrown away; and once crashes cease, leases
  are swept and work moves on, unless startups are refused for such a row.
* **Renewal** (`ScheduledBeforeExpiry`, `RenewedOnFreshEvidence`, `FreshIsNotRevoked`).
  A healthy entry is due before its lease ends, a lease is extended only on evidence
  that is within the freshness limit at the commit (one observation may carry several
  renewals) and authority that is current, and an answer that comes late does not revoke
  what was refreshed since.
* **Life of the daemon** (`KeepsItsPromise`, `ReadyIsSupervised`, `FailuresAreReal`). It
  implements `Readiness`, READY is published on supervised authority, a fatal ends every
  thread, and an orderly shutdown is reported as one.
* **Notification** (`OutboxIsTrue`, `AtLeastOnce`). DELIVERED is written only of what
  reached Root, a commit that comes late never undoes an acknowledgement, and because
  the backoff is counted from the end of the call, events that keep failing leave room
  in the batch for the others.
* **Processes** (`KillsHitTheirTarget`, `AnswersAreTrue`, `OnlyACrashLosesAProcess`).
  SIGKILL reaches the process it is meant for or nobody (SIGINT need not, see
  [Findings](#findings)), an end is reported only of a
  process that ended, and no error path loses a running process; only a crash between
  the spawn and the record can.
* **Pools** (`ReleaseNeverRefused`, `WorkIsPlaced`, `NobodyIsStuck`,
  `HostNeverAbandoned`). No sequence of merges, moves, resizes and retirements makes the
  release of an agent fail, strands a task, or abandons a provisioned host.
* **Typed work** (the run `typed`). A claim commits to the best of what is eligible at
  that moment, within the task's restrictions, on a host whose provenance is kept; a
  fault reaches Root before the next claim; a retired agent stays retired; every claim
  is settled.
* **Admission** (`DecidedAsSeen`, `NothingIsStranded`, `PolicyIsCeiling`,
  `ReplayIdempotent`). An admission happens in the state that Root saw, a decision is not
  opened again by compiling its intent once more, nothing stays PENDING that can never be
  admitted, and changes of the catalogue never touch what was
  committed: it can be read, and the command can be repeated, for ever.

## Bounds

* `MaxClaims = 2` gives a writer and its replacement, the smallest case of every
  exclusion property; a third claim repeats the second. In `kernel_join` one claim
  each is enough, because the subject is the hand-over of the host between two tasks.
* `MaxGenerations = 2` lets an agent lose a host and get another. Where it is 1 a
  second agent takes the place of the second generation.
* Two agents allow a retry on another agent; the agents are symmetric where no liveness
  is checked.
* `Observable` limits the states that late observations report: all those that matter
  to writers in `kernel_writer`, RUNNING alone in `kernel_join`, all in `recovery`.
* `FailureClass` has few members: one that may be retried, one that may not, and the
  class of an unclear end.
* In `recovery_live` the pool is not resized, so that the graph is small enough for the
  liveness check; `Exhausted` in `WorkMovesOn` excuses a task that used up the model's
  claims or agents, which the code does not bound. Crashes are not bounded.
* `Supervision`: a lease of 3 with a heartbeat and a freshness of 2 leaves one tick of
  room, the tightest configuration that `timing.rs` accepts with the heartbeat above 1.
* `Notifier`: with three events and batches of two, two failing events can fill a batch;
  `max_delay = 2` is one doubling of the backoff and its cap. Crashes, stops and failures
  are not bounded.
* `LocalProcess`: one number forces its reuse by the stranger, two ticks let the stranger
  share the birth tick or not, two threads are the pairs of calls that can race.
* `Topology`: three partitions are a chain of two merges; two targets make moves that
  cross a target; the two partitions of one target are ephemeral; one unit of capacity
  goes round (`MaxCapacity` bounds the sum, so that no move or merge is cut off).
* `TypedAcquisition`: `MaxAttempts = 2` is the retry limit, `MaxChanges = 1` one change
  of the catalogue at any step of a dispatch; `NewAgents` bounds births, which the code
  does not bound: when none is left, the dispatch of a new agent defers the task. Two configurations tie and one is better, one provides too little, one
  type refines another and one does not.
* `Frontier`: three tasks give the generation two of its own and one from outside, so
  that evidence may come from a task it did not admit. The intents cover the functions, a
  seed that does not resolve, a specification that names its task and one that is refused
  for its dependencies. The second revision of the type is narrower than the first, so
  that `Latest` may stop or start to be admissible.

## Fairness

`LoopSpec` assumes weak fairness of the control loop, of the observer's application of
an observation it has made, and of the backoff clock. The code justifies each: the runner
calls `cycle` until it fails or is stopped, adapter calls carry an absolute deadline so
the thread comes back, and `next_eligible_at` is compared with a clock that advances.
Nothing is assumed of the host, of Root, of workers, of processes or of leases. `RecSpec`
adds weak fairness of the startup, which is straight-line code; that crashes cease is
the hypothesis of `WorkSurvivesCrashes` and not part of the specification.

`DaemonSpec` assumes that every thread of the daemon goes on: the main thread, the control
loop, the watchdog, the observer and the runners. None of them waits without a timeout.

`FairSpec` of `Notifier` assumes that a running thread keeps polling (its loop only ends
on stop or failure, and the bridge returns within its budget) and that time passes.
`AtLeastOnce` assumes `Reachable` of the event it is about, that Root answers a call that
is repeated for ever; without it the code promises nothing but to go on trying. Nothing is
assumed of the other events, and a restart is not assumed.

`TypedAcquisition` assumes that the control thread goes on while its process lives, that a
stopped daemon is started again, and that leases elapse. While the process lives a step of
the dispatch or the cycle's expiry is always possible.

## Proofs

All theorems hold for every value of the constants: every set of tasks, batches, agents,
executions, requests, strangers, threads, types, sources, policies and generations, every
dependency relation and catalogue, every retry limit, capacity, interval and number of
claims. Each is preceded in its module by what it says of the code.

| module | theorem | property |
|---|---|---|
| `KernelProofs` | `WritersExcluded` | `WriterExclusion` |
| | `AuthorityIsSingle` | `SingleAuthority` |
| | `WriterQuarantined` | `WriterQuarantine` |
| | `TypeCorrect`, `SuspensionEscalated` | `TypeOK`, `SuspendedAsksRoot` |
| | `DependenciesComeFirst` | `DependenciesFirst` |
| | `BatchesAreUpToDate` | `BatchUpToDate` |
| | `HostsAreExclusive` | `HostExclusive` |
| | `FencesAreFinal` | `FencedForever` |
| | `ObligationsAndEndsAreKept` | `ObligationsAndEndsLast` |
| | `WorkInvariant`, `HostInvariant` | their inductive invariants |
| `RecoveryProofs` | `DaemonImplementsKernel` | `ImplementsKernel`, without crashes |
| | `DaemonExcludesWriters` | `WriterExclusion` of the daemon |
| | `RecoveryImplementsKernel` | `ImplementsKernel`, with crashes |
| | `RecoveryExcludesWriters`, `RecoveryKeepsAuthoritySingle`, `RecoveryKeepsQuarantine`, `RecoveryKeepsOrder`, `RecoveryKeepsEnds` | the properties of `Kernel` above, of the daemon with crashes |
| | `StaleClaimsStayHistory` | `StaleClaimsAreHistory` |
| | `RecoveryInvariant` | its inductive invariant |
| `StartupProofs` | `RecoveryRefusesOnlyContradictions` | `RefusesOnlyContradictions` |
| | `SuccessDecides` | `EvidenceDecides` |
| | `RecoveryNInv` | its inductive invariant |
| `SupervisionProofs` | `NeverScheduledPastExpiry` | `ScheduledBeforeExpiry` |
| | `RenewsOnlyOnFreshEvidence` | `RenewedOnFreshEvidence` |
| | `FreshEvidenceStays` | `FreshIsNotRevoked` |
| | `SupervisionInvariant` | its inductive invariant |
| `LocalProcessProofs` | `KillsHit` | `KillsHitTheirTarget` |
| | `AnswersTrue` | `AnswersAreTrue` |
| | `OnlyCrashLoses` | `OnlyACrashLosesAProcess` |
| | `AdapterInvariant` | its inductive invariant |
| `TopologyProofs` | `ReleaseIsNeverRefused` | `ReleaseNeverRefused` |
| | `WorkStaysPlaced` | `WorkIsPlaced` |
| | `NobodyIsEverStuck` | `NobodyIsStuck` |
| | `NoHostIsAbandoned` | `HostNeverAbandoned` |
| | `TopologyInvariant` | its inductive invariant |
| `FrontierProofs` | `NothingStranded` | `NothingIsStranded` |
| | `PolicyIsACeiling` | `PolicyIsCeiling` |
| | `CommitmentsStand` | `ReplayIdempotent` |
| | `RootDecidesAsSeen` | `DecidedAsSeen` |
| | `FrontierInvariant` | its inductive invariant |
| `TypedProofs` | `FaultsReachRoot` | `FaultReachesRoot` |
| | `BestIsCommitted` | `BestOfTheCatalogue` |
| | `RestrictionsAreHeld` | `RestrictionsHold` |
| | `RefinementsAreNarrow` | `PublishedNarrows` |
| | `FrontierIsFaithful` | `FrontierDecides` |
| | `RetirementIsFinal` | `RetiredForGood` |
| | `ProvenanceIsKept` | `HostKeepsItsProvenance` |
| | `TypeCorrect`, `RefinementNarrows`, `CountingRespectsSpecificity` | types; laws of the pure relations |

The arguments, by the invariant each rests on:

* **Writers** (`IInv`). `WriterExclusion` is not inductive. It needs that every earlier
  unisolated execution of a write task that has a newer attempt was confirmed quiescent,
  which holds because a task leaves SUSPENDED only through a resolution that confirmed it,
  which needs the escalation's state, cause and agent to be tied to the task's, which needs
  the four tables to agree on authority. `IInv` is that chain. The steps that close
  attempts share the lemmas about `CloseAttempts`, so that each action supplies only the
  rows it closes with; those that open or touch one row are proved one by one.
* **Work** (`WorkInv`). `Ordered` says that a task that may be or was worked on has its
  dependencies completed, `Submitted` and `Reported` which tasks exist and which have a
  result. `BatchUpToDate` is inductive together with them: each action is shown to end in
  `recompute_batch` of the batches it touched, and to touch no other.
* **Hosts** (`Hosted`). The incarnation of a live execution is live exactly as long as its
  attempt is active; an open writer obligation is about the newest attempt. From this no
  fenced host can be confirmed WARM: its execution's authority is closed.
* **Daemon and crashes** (`LInv`, `RInv`). To the invariant of the kernel they add what the
  receipts in hand mean (`Receipts`, `BootReceipts`): at each place of a dispatch or a
  recovery, whether the claim's execution exists and whether its process may. Then each
  step of the daemon is a step of `Kernel` or changes no table, and every theorem about
  `Kernel` carries over.
* **What recovery refuses** (`NInv`, on top of `RInv`). Every check of a startup
  compares what was read in one transaction with what is there in a later one, and between
  the two workers may still acknowledge and the observer may still write. `Careful(X)` says
  what a step may do to rows that are not its business: it may close an attempt, and as long
  as it does not, it leaves the execution alone; every operation is shown to be careful
  about all attempts but its own. So what was read of a candidate still holds (`AsRead`) or
  its authority is closed. `Pass` says what is left to do at each place of a startup: in
  the first pass every authority with a proven end is among the candidates (`Replaying`),
  so that none is left when the second pass reads (`NothingSettled`); in the second every
  authority with an execution is still a candidate or supervised already (`Accountable`),
  so that at the end all are supervised (`Supervised`), which is what the last check asks
  for. `Dispatched` and `Watch` say the same of the claim in dispatch and of the ticket of
  the observer, and give that the running daemon is refused nothing either. What is left is
  the class on a success: `Sound` says that a row SUCCEEDED with a class and no Result
  belongs to a closed attempt of an unisolated writer, because whoever records an end names
  the class with it and only `ack_success` turns a row with a class into a success; it
  writes the Result in the same transaction unless the writer is not safe to replace.
  `EvidenceDecides` follows: with a row that says SUCCEEDED the lease can close only
  through the replay of the success.
* **Topology** (`TInv`). `RowInv` says what the state of an agent's row entails. Its centre
  is that the place an agent is to go to is an *active* partition itself, so that
  `canonical_partition` never has a merge to follow: a merge redirects what is staged, and
  a partition is retired only when nobody is on the way to it. That a retirement does not
  catch a working agent needs `Works`: the task of an agent in an active partition is in
  that partition, and the retirement wants it to have no open task. A provisioned host is
  that of a typed agent, which only the merge of its partition moves (`bound` and a staged
  move together mean that the origin is no longer active); hence a release either commits
  or keeps the host. One lemma for each operation on a row is stated for the row alone, and
  two frame lemmas carry it to the tables (`OneAgent` and `AllAgents`).
* **Supervision.** Beats, observations and tokens describe the registration they were taken
  from, or one that is gone for good; the distances satisfy the inequalities that the
  assumption on the intervals makes possible.
* **Processes** (`AdapterInv`). Who may reap a child is known at every step of every call:
  a child in a live map or in the hands of a caller is not reaped by anybody else, so its
  number cannot have been recycled; a number from a record is trusted only behind a pidfd
  whose birth tick and token were compared after it was opened. Two calls hold different
  children (`Apart`).
* **Admission** (`FrontierInv`). The rows of an admission belong together (`Committed`),
  the revision of a generation tells its state, both as it is and as Root read it
  (`Seen`), a pending proposal can still be admitted (`Askable`), and the tasks of a
  closed generation have ended (`Settled`). That a command can be repeated rests on the
  committed pin: the selector still names it whatever was published since, its revision
  stays readable, and the same draft, policy and pin derive the same requirement.
* **Typed work** (`TypedInv`, `CoverInv`). `Ledger` and `Settled` say which attempt, agent
  and host belong together; `Carrying` and `Asked` what the dispatch in hand may rely on at
  each step. `Covered` says that what was attested so far includes all that is eligible,
  as long as the frontier digest is still the one the dispatch began with;
  `finish_acquisition` compares it, and the digest is faithful by `FrontierIsFaithful`.

Each invariant was also checked by TLC on the instance of its run, `NInv` on 1,266,602
distinct states and `TInv` on 594,743.

Assumed of the constants: `KernelAssumption`, `LoopAssumption`, `RecoveryAssumption`,
`TimingAssumption`, `ProcessAssumption`, `TopologyAssumption`, `NullAssumption`,
`FrontierAssumption`, `ContentAssumption`, `CatalogAssumption`, `RequirementsAssumption`
and `CountsAreNatural`, each in the module that declares the constants, and evaluated by
TLC in the runs of that module.

Only model-checked:

* liveness, which depends on fairness and ENABLED and is beyond the prover:
  `WorkSurvivesCrashes`, `AtLeastOnce`, `AcquisitionSettles`, and the last conjunct of
  `KeepsItsPromise`, that a shut gate or a failed thread brings every thread down;
* `OutboxIsTrue`, the safety of `Daemon` and its refinement of `Readiness`: these modules
  have no proofs yet.

Nothing is assumed without proof: no theorem rests on an unproved lemma, and no module
with a theorem reaches a RECURSIVE declaration.

## Findings

* `stale_start`. `cancel_task` during a start makes the execution LOST. The dispatcher's
  UNKNOWN is then an illegal physical transition, and the refusal ends the control
  loop, although the comments at that place promise that legal physical history is
  recorded and nothing else. The trace: submit, claim, commit, call start, host cancels
  the task, the start returns.

Met while modelling, and kept in the models as the code has them; paths are under
`src/crates/`:

* A claim that loses its authority between the resolution of its environment and the
  commitment of its execution is propagated as an error, which the control loop treats as
  fatal (`agentype-runtime/src/lib.rs:1753`); `DispatchOneOutcome::AuthorityRejected`
  (`lib.rs:1398`) describes exactly this case as an outcome. In `ControlLoop` it is one of
  the ways to reach `failed`.
* A change of the catalogue between `prepare_selection` and `finish_acquisition` is
  detected and refused as stale, as `BestOfTheCatalogue` needs, but the refusal ends the
  control loop instead of leading to a new resolution as the comments in
  `provisioning.rs` and `provisioning_resolver.rs` say. `TypedAcquisition` has the step
  to `failed`.
* `interrupt_execution` of the local adapter looks its child up in the live map, lets go of
  the lock and pins the number without asking for the token
  (`agentype-adapter-local-process/src/lib.rs:1728`); the comment on
  `pin_instance_with_token_check` (`pin.rs:222`) says that a caller without a token "already
  holds the Child". Another thread may reap the child in between; a process that takes its
  number within the same birth tick is then the one that gets the SIGINT. In `LocalProcess`
  this is a behaviour, and `KillsHitTheirTarget` is about SIGKILL, where the caller does
  hold the Child or asks for the token.
* A replay with a `Latest` selector of the committed type is answered from the committed
  pin, whatever the catalogue says by then; the comment on
  `build_task_agent_requirement_replay` (`requirement.rs:338`) says that it fails closed.
  The code is right (`ReplayIdempotent` needs it) and the comment is not.
* A typed task whose pinned type is DEPRECATED and that has no bound READY agent is
  deferred for as long as that stays so.
* In `Topology`, a merge between a typed claim and the commit of its Execution can end with
  an agent SUSPENDED with a staged move, whose origin can then not be retired; and a stale
  entry of a revival list ends that pass early (`ReviveRefused`).

## What is not modelled

The components with status `not_modelled` in `PROJECT.json`, each with its reason:
operating-system mechanism (file identity, locks, the jail's confinement), of which the
models assume the result; encodings (canonical documents, digests), of which only
equality matters; and the Python line, the predecessor of the same transactions.

Within the modelled parts: checkpoints and the memory of workstreams, the read-only
projections, the migration chain, publication of capability definitions, the derivation
of one deadline from another, and payloads and texts. `Kernel` has one partition and
untyped tasks; several partitions are `Topology`'s and typed tasks `TypedAcquisition`'s,
where work is coarse in turn. The three are not composed into one state space.
