# StateKnot: models and proofs

TLA+ models of StateKnot's durable core, the TLC runs that check them, and
TLAPS proofs about the run store. Definitions keep the names of the Rust
functions and SQL columns they stand for; `PROJECT.json` maps each of them to
its source lines. In the text below, `store.rs` is
`crates/stateknot-store-postgres/src/store.rs`.

## 1. The system

StateKnot runs agent graphs durably on PostgreSQL. A *run* is a row with a
lifecycle, an append-only journal and a fenced lease. Workers claim runs, execute
their ready graph nodes, record every physical step (node attempts, tool and model
invocations) in the journal and close each *superstep* with a barrier that writes
the next checkpoint. Runs may wait for timers and interrupts, emit messages
through a transactional outbox, own child runs that share their budget, and be
cancelled, closed after a failure, or quarantined. Tenants share workers through a
weighted fair scheduler.

### Parts, state, operations

| Part | State | Operations that change it |
|---|---|---|
| Run row and journal (`store.rs`, `core/run.rs`, `core/journal.rs`) | lifecycle, revision, journal head, events | admit, append (control plane or worker, with or without a lifecycle transition) |
| Leases (`store.rs`) | epoch, holder, renewed/expires, scheduler readiness | claim, supersede, renew, release, delayed retry |
| Quarantine | one immutable record per run | operator request, fenced request of an owner |
| Supersteps (`core/checkpoint.rs`, `barrier.rs`, `node_attempt.rs`, `recovery.rs`) | checkpoints, node attempts, pending results | initial checkpoint, start, fail, succeed, barrier; recovery planning |
| Invocations (`core/tool_invocation.rs`, `model_invocation.rs`; `runtime/invocation_executor.rs`) | revisions of an invocation, its physical attempts | prepare, start, commit, fail, mark unknown, reconcile |
| Waits (`core/wait.rs`) | registrations, terminal evidence | register, resolve, fire, expire, abandon; two paged scans |
| Outbox (`core/outbox.rs`) | deliveries, attempts, completions | enqueue, claim, complete, reap |
| Fair scheduler (`runtime/fair_scheduler.rs`) | policy, cursor, reservations | register, reserve, prune |
| Child runs (`child_runs.rs`, `child_cancellation.rs`, `child_joins.rs`, `failure_closes.rs`, `agent_deadlines.rs`) | ownership, accounts, settlements, joins, closes | admit, spend, deliver a cancellation, settle, register/publish a join, request/complete a close |
| Drivers (`runtime/driver.rs`, `lifecycle.rs`, `agent_loop.rs`, `tenant_scheduler.rs`) | none of their own that survives a crash | sequences of the operations above |
| Submission and service (`runtime/agent_service.rs`) | submission keys | submit, cancel, read |
| Artifacts (`stateknot-artifact-store`) | objects, registrations | stage, publish, register, resolve |
| Skill windows and receipts | approvals, windows, revocations, receipts | open, revoke, record |
| Hosts and workers (`crates/stateknot`) | health, task sets | start, drain, stop |
| Integrations (A2A, MCP, model providers) | connection and token state | wire protocols |

Interactions: everything that belongs to a run is written in a transaction that
locks the run row and, as a rule, appends to its journal at an exact head. What
interleaves are committed transactions of many workers and callers, plus, in a
few places, statements that read without the lock: the scans, the reaper's
SKIP LOCKED statements, the evidence reads of a failure close and the preflight
of a barrier.

### What makes it hard

Takeover after a lapsed lease while the old worker goes on sending; requests that
are repeated because the answer was lost; a database clock that may be set back;
crashes between a durable start and a durable outcome; racing ends of a wait;
rows passed over by SKIP LOCKED; reads split over several READ COMMITTED
statements; budgets and stops that travel through a tree of runs one transaction
at a time. `PROJECT.json` lists each hazard at the line where it bites,
with the property that covers it or the reason why none does yet.

### What must hold

- One journal chain; each event, revision and epoch used once; a displaced worker
  has no effect; acknowledgements are true; ends are final.
- One line of checkpoints; every barrier consumes exactly its ready set; nothing in
  flight is orphaned; evidence a barrier consumed does not change.
- A non-idempotent effect happens at most once.
- A wait ends once, on its own side of its instant; a run whose waits were abandoned
  never waits again; scans miss nothing.
- Delivery attempts do not overlap; every delivery ends.
- A tick reserves one slot; shares and starvation bounds are exact.
- A tree ends from its leaves, exceeds a budget only by what calls used beyond their
  declared limits, and a stop reaches every child.
- What the store wrote, the store can read.

## 2. Modules

Common conventions. One action is one committed transaction of one handler,
including everything the handler writes. Clients are as general as the API allows:
any request may be sent by anyone, late, twice or composed from old reads. A
request that is refused, or answered from what is already stored, changes nothing
and is not a step. SQL CHECK, UNIQUE and trigger conditions are guards of the
actions whose statements they constrain. Identities, digests and payloads are
model values. A few variables are histories that no column holds: `granted` and
`acked` (RunStore) and `told` (Outbox) record what callers were given, and `excess`
(ChildRuns) what calls used beyond their declared limits; `calls`, `inflight` and `applied` (ToolLedger) are the outside world. An operator whose comment says
`Mutant:` is a deliberately wrong variant of the definition that follows it. It is
used by nothing in the specification; replacing the definition by it must break
the property `PROJECT.json` pairs it with.

| Module | What it models |
|---|---|
| `RunLifecycle` | `RunStatus`, the allowed transitions of `core/run.rs`; shared |
| `DurableRun` | abstract specification: an ordered history in which each event occurs once, a lifecycle advanced by it, owners with growing epochs, acknowledgements only for what is recorded |
| `RunStore` | the run row, its journal, lease and quarantine; implements `DurableRun` |
| `RunStoreProofs` | TLAPS proofs about `RunStore` |
| `InvocationState` | the revision state machine of an invocation (`tool_invocation.rs`), shared by the next two |
| `Superstep` | checkpoints, node attempts, pending results, invocations, barriers, recovery planning |
| `ToolLedger` | one tool invocation, the executors of successive owners, the external system |
| `DurableWaits` | timers and interrupts of a tenant's runs, the discovery scans |
| `Outbox` | deliveries, their attempts, dispatchers and the reaper |
| `FairScheduler` | the compiled weighted cycle and the shared durable cursor |
| `ChildRuns` | a tree of runs: ownership, accounts, joins, cancellation, failure closes |
| `MC*` | small instances: symmetry sets and constant values |

### RunStore

Variables are the columns of `stateknot.runs` plus the journal and the quarantine
record. `AdmitRun`, `ClaimLease`, `SupersedeLease`, renewal, release,
`AppendByAnyone` (the control plane and worker variants of `append_with_outbox`
and `update_run_head`), and both forms of `quarantine_run` are its steps. A worker's
authority is checked as `authorize_worker` does: attempt, epoch and a live lease
by the current clock. The clock is a variable that jumps both ways; a recorded
time is the later of the clock and the journal's last time, as in the code.
`DurableRun` is instantiated with a mapping that forgets times and columns; the
property `ImplementsDurableRun` is checked by `run_store_safety`.

### Superstep

`StartNodeAttempt`, `FailNodeAttempt`, `SucceedNodeAttempt`, `PrepareInvocation`,
`AdvanceInvocation`, `AppendInitialCheckpoint`, `Preflight` and `AppendBarrier`. The
barrier is two steps because its preflight verifies the pending results before the
run row is locked; what it verified is re-checked only as far as the code does. Its
caller may name a base the run has left, so `StillAtBase`, the comparison under the
lock, is what keeps the checkpoints in one line.
The pure rules for a node's history (`node_attempt.rs`) and the planner
(`recovery.rs`) are operators, and the invariants compare them with what the store
accepts. Of RunStore it keeps the status, the quarantine and the holders of the
epochs; a lapsed lease only makes requests fail, which silence covers.

### ToolLedger

Each worker has an executor state (`exec`): idle, holding a startable or started
invocation, calling, holding an outcome, probing. Crashes, takeovers, lost
acknowledgements, timeouts with late effects, and appends by others are actions.
The adapter is assumed honest: it reports an effect only if it happened, and its
absence only if it can no longer happen. The three tool risks are chosen in `Init`.

### DurableWaits

A mutation takes the row lock and reads the clock (`BeginMutation`), then commits
or rolls back; other runs, the clock and readers move in between. Scans
(`FirstPage`, `NextPage`) carry the cutoff and cursor of
`load_due_timer_page` and `load_expired_interrupt_page`.

### Outbox

Claim and reap statements take the sets of rows they pass over as parameters
(SKIP LOCKED, LIMIT), different for each statement of one call. The pure verifier
of `core/outbox.rs` is the operator `HistoryVerifies` with the projection
checks of `store.rs`.

### FairScheduler

`compile_smooth_cycle`, `derive_starvation_bounds` are functions; the reference
definitions count occurrences and gaps in the circular schedule. A request looks
its identity up, waits for the cursor's lock and looks again, and its replica may
give up and repeat it meanwhile.

### ChildRuns

Rows of a tree. Abstractions: a superstep has one activation; the budget is one
resource; limits are the same for all graphs; a lease is held or not; a run that ends
has complete usage evidence (the barrier that orphans nothing is Superstep's).

A call is three steps. `PrepareContext` is the executor's preflight: it compares the
limit the call declares (`CallLimit`, one unit) with the capacity of the account it
reads, and remembers that account. `StartCall` is the transaction that starts the
call: it wants every child settled and the account still to be the one observed, and
compares no capacity. `SettleCall` records what the call used, which may be more than
was declared, or that no price is known. An overrun is kept, and an unpriced account
has no capacity any more, for calls or for children. Hence
`OnlyOverrunsExceedBudget` and no stricter bound: what a subtree used, less what its
calls used beyond their declared limits, is within its budget.

Each action is one transaction,
except that `RequestRunFailureClose` reads one child's evidence and
`CommitRunFailureClose`/`RejectRunFailureClose` act on it later, with the run's
row locked in between. `CompleteRunFailureClose` reads its children without locking
them, too, but no child is settled without the lock it holds, and a settled child no
longer changes: a child that ends meanwhile changes only the error of a completion it
prevents, so one step is exact. The advisory tree lock and the order of row locks are not
modelled.

### How the modules compose

Each store module contains the part of the run row that its handlers read, so a
property that needs both sides is stated where both are: results against
invocations in Superstep, the ledger against the outside world in ToolLedger,
joins and budgets against lifecycles in ChildRuns. What a module takes from
another one is a conclusion checked there: stale heads are refused and retries
converge (RunStore); a checkpoint leaves nothing unsettled (Superstep).

## 3. Runs

Every run is `tlc -config <cfg> <module>` in this directory. State counts are
distinct states with the symmetry the configuration names. Symmetry is only used in
runs without temporal properties that need fairness, and only over identities that the
code compares for equality. Identities the code orders (the tenant indices, and the run and
wait identities that a scan's cursor sorts by) are numbers and have no symmetry.

| Run | Instance | States | Shows |
|---|---|---|---|
| `run_store_safety` | 2 attempts, 3 epochs, 2 events, 2 instants | 281,854 | `RowDecodes`, `FencingInv` and `JournalInv` (the inductive invariants of section 4), `DisplacedWorkerHasNoEffect`, `EndsAreFinal`, `ImplementsDurableRun` |
| `run_store_liveness` | 1 event, 2 epochs, 3 instants | 12,899 | `LapsedRunIsTakenOver`, `DelayedRunIsWoken` |
| `superstep_barrier` | 2 nodes, 2 checkpoints, 1 invocation of up to 5 revisions | 1,023,572 | `BarrierConsumesReadySet`, `NoOrphanInvocation`, `ConsumedEvidenceIsFinal` |
| `superstep_attempts` | 2 workers, 3 epochs, 3 attempts, delays, 3 checkpoints, 2 barriers in flight, 7 events | 1,209,496 | `AttemptHistoryVerifies`, `RecoveryAgreesWithStore`, `LineageIsLinear` |
| `tool_effects` | 2 workers, 2 attempts, 3 epochs, three risks | 118,684 | `EffectAtMostOnce`, `DispatchedOnce`, `LedgerIsTrue` |
| `waits_races` | 2 runs, 2 timers and an interrupt at one instant, pages of one | 2,172,038 | `WaitSetAgrees`, `EndsOnce`, `AbandonmentIsLast`, `ScanIsExact` |
| `outbox_deliveries` | 1 delivery, 2 attempts, 6 instants, clock both ways | 55,878 | `AttemptsNeverOverlap`, `RowMatchesAttempts`, `ToldIsRecorded`, `EndIsFinal`, `EveryDeliveryEnds` |
| `fair_replicas` | 2 replicas, 2 policies of 3 tenants, 4 ticks, 2 requests per tick; cycles of all weights up to 4 | 1,411,475 | `OneSlotPerTick`, `StarvationBoundIsExact` |
| `child_tree` | 3 runs, 2 slots, budgets 2 and 1, calls that use 1 or 2 | 1,412,734 | `TreeEndsFromLeaves`, `UsageCountedOnce`, `OnlyOverrunsExceedBudget`, `StopReachesChildren` |
| `child_steps` | 3 runs, 2 slots, two supersteps, one active descendant, quarantine, unknown prices | 2,348,457 | `DescendantLimitsHold`, `ParentRestsBesideChildren`, `JoinBindsFinalChildren`, `DecisionsStand` |
| `child_liveness` | three generations, one call of the root | 227,458 | `StoppedTreesEnd` |

`TypeOK` of `RunStore`, `Superstep` and `ChildRuns` is part of their runs; in the
other modules it documents the shapes of the state. `tool_prepared` checks one
statement of the repository that the code does not keep; section 6 has it and
the others that were met.

### Why the bounds are enough to be interesting

- Three epochs and two attempts let an attempt lose the lease and win it back, so
  an old fence of the *current* attempt is among the late requests. Two events
  admit a transition and a stale or repeated one beside it.
- Two instants already contain: before and at expiry, forwards and backwards. The
  boundary cases are equalities, and each occurs.
- Five revisions are prepared, executing, failed, executing, and a second outcome:
  one full retry, which fits between a barrier's preflight and its commit. Two
  nodes make an incomplete result set possible.
- Three checkpoints and two barriers in flight let a lineage fork or close into a
  circle if it could: two barriers race from one base, or one names the first
  checkpoint as its base after the run has moved to the second. Seven events are
  enough for two complete supersteps, or for three attempts of a node with a failure
  after each but the last.
- Two attempts of a delivery give a first and a last permitted one; deliveries
  share nothing but the namespace of attempt identities, and the sets of rows a
  statement passes over are chosen freely.
- Two runs with three waits at one instant make every component of a scan's
  cursor decide once. The clock of this run only advances.
- Four ticks are more than a whole cycle of one policy and a whole cycle of the
  other; the compiled cycles of all 64 weightings are compared with the reference
  definition besides.
- Three runs make a chain of three generations or two siblings; the budgets make
  one call too many possible at each level. Two supersteps of a parent have children
  of their own, so that a join could bind those of an earlier activation.

Bounds are constants (`MaxTime`, `MaxEpoch`, `MaxTicks`, `MaxSteps`, ...). Those
that exist in the code (`MaxAttempts`, `MaxWaits`, `MaxChildren`, ...) have the
code's name in a comment and the code's effect at the limit.

### Fairness

- `run_store_liveness`: weak fairness of the clock and of some claim. The clock of
  a database advances, and schedulers poll; nobody is required to renew, release
  or finish. The clock does not go back in this run, since a clock that is set
  back for ever postpones every expiry.
- `outbox_deliveries`: weak fairness of the clock and of a poll whose statements
  skip nothing. Dispatchers that claimed may die. `EveryDeliveryEnds` has the
  premise that the clock is at some point not set back any more.
- `child_liveness`: weak fairness of claims and of the end of a failure-close
  transaction, strong fairness of the reconciling steps together (deliver,
  settle, complete, settle a call, confirm). Reconcilers repeat bounded
  passes and queue for row locks, so that a step that is enabled again and again
  is eventually taken; each such step can happen a bounded number of times per
  run. Calls without a known price and quarantined runs are left out: by design
  both keep a parent from ending until an operator acts.

Deadlock checking is off where the system may come to rest: a finished or
quarantined run, all ticks used, a tree that has ended. It is on for the waits and
the outbox, where the clock can always move.

## 4. Proofs

`tlapm RunStoreProofs.tla` proves, for every set of events, attempts and payloads
and every bound on epochs and time:

| Theorem | Statement |
|---|---|
| `TypeCorrect` | `Spec => []TypeOK` |
| `JournalIsFenced` | `Spec => []FencingInv`, so `FencedJournal` and `EpochNamesOneHolder` |
| `DisplacedWorkerIsHarmless` | `Spec => DisplacedWorkerHasNoEffect` |
| `JournalIsExact` | `Spec => []JournalInv`, so `JournalIsChain`, `JournalTimeMonotone`, `RevisionConsumedOnce`, `ChangeDatedByJournal` and `AckedIsCommitted` |

Assumptions: `None` is no identity, the bounds are natural numbers, `MaxEpoch` and
`LeaseDuration` are positive. TLC evaluates them in every run of `MCRunStore`.

The argument. Every append either answers a retry or commits one event
(`AppendCases`); a commit extends the journal by exactly one event at the end
(`CommitAppends`), so the type invariant and both inductive invariants need one
lemma for commits and a frame lemma for the steps that leave the journal alone.

- *Fencing.* `FencedJournal` alone is not inductive: a worker that appends could
  have an epoch below one already in the journal, unless the row's epoch bounds all
  granted ones and the holder's fence is a granted one. `FencesOfRecord` adds
  this: the row's epoch is the largest granted, the current holder was granted
  its fence, and only granted fences wrote. `FencingInv` is their conjunction
  with `TypeOK` and `EpochNamesOneHolder`. `DisplacedWorkerHasNoEffect` follows for every
  step, since an authorised fence is the current one and thus has the largest epoch.
- *Journal.* `JournalInv` joins the chain, the monotone time, the count of
  transitions by revision, the date of the last change and the truth of
  acknowledgements, and adds that an absent run has no journal. The lifecycle
  revision counts the transitions in the journal, so a new event that names the
  current revision cannot repeat an old one.

Only model-checked: `RowDecodes`, `EndsAreFinal`, the refinement `ImplementsDurableRun`, and all properties of
the other modules. Liveness under fairness is outside what TLAPS 1.4.5 can prove
and stays with TLC, as does what the recursively defined cycle of `FairScheduler`
computes for arbitrary weights (induction over data).

## 5. Not modelled

Listed in `PROJECT.json` with reasons. In short: drivers and lifecycle resolution
(`driver.rs`, `lifecycle.rs`, `agent_loop.rs`), the tenant scheduler's page scan,
submission keys and the agent service, the due-instants of agent deadlines, lock
order in a tree, artifacts, skill windows and receipts, worker and host
supervision, the model path of the invocation executor: all within reach and
planned below. Core value types and codecs, graph compilation, wire formats of
providers, A2A and MCP, HTTP and the test kit: pure data or I/O without control
that a property here depends on.

## 6. Where the code and its documentation disagree

Each is a configuration whose single property TLC violates. The first is a run of
`PROJECT.json`, which quotes the lines and explains the trace; the others are
checked in the same way (`tlc -config <cfg> <module>`).

- `ToolLedger_prepared.cfg`, `PreparedCanStart`: a prepared invocation that a
  successor finds cannot be started, because the start expects the journal head of
  the prepare event (`runtime/src/invocation_executor.rs:2135`), and the node
  attempt's own start event has moved it. `docs/postgresql-provider.md:435`: "A
  `Prepared` record may claim one physical attempt".
- `Outbox_readable.cfg`, `DeadLettersAreReadable`: the reaper's deadline statement
  (`store.rs:16951`) can reach an abandoned last attempt that its attempt-limit
  statement passed over, and writes `expired` where verification
  (`store.rs:15127`) expects `dead_letter`; the delivery cannot be read again.
  `docs/postgresql-provider.md:113`: "`Never` and attempt 64 dead-letter".
- `Superstep_verifies.cfg`, `PendingResultsVerify`: a failed invocation whose
  failure a pending result has bound may be started again; the undamaged result
  then fails verification (`store.rs:16312`), and recovery takes it for corruption.
- `Superstep_failed.cfg`, `FailedInvocationBlocksCheckpoint`: a barrier leaves a
  checkpoint that owns a failed invocation (`store.rs:1660`), which
  `docs/postgresql-provider.md:444` says it rejects.
- `DurableWaits_cutoff.cfg`, `CutoffIsClosed`: a registration dated before a scan's
  cutoff can be committed after it, so cutoffs are not closed as the comment at
  `store.rs:4645` says.
- `DurableWaits_readable.cfg`, `DiscoveryIsReadable`: a quarantined waiting run with
  a due wait makes its tenant's discovery page fail (`store.rs:12049`).
- `FairScheduler_decodes.cfg`, `ShardDecodes`: a reservation after the clock was set
  back behind the registration leaves a shard row that decoding rejects
  (`store.rs:14422`).
- `ChildRuns_torn.cfg`, `EvidenceNeverTorn`: a child that ends between two unlocked
  reads makes a failure-close request (`failure_closes.rs:153`) report intact
  evidence as corrupt, which the comment at `child_runs.rs:1117` excludes.

The passing properties are stated so that they hold beside these: `RowMatchesAttempts`
names the one exception (`ReapedPastLimit`), `NoOrphanInvocation` admits a failed
invocation, `ConsumedEvidenceIsFinal` is about results a barrier consumed, not
about pending ones, and `ScanIsExact` is about the waits that were due and visible when
the scan began.

## 7. Plan

Done: `RunLifecycle`, `DurableRun`, `RunStore` with proofs, `InvocationState`,
`Superstep`, `ToolLedger`, `DurableWaits`, `Outbox`, `FairScheduler`, `ChildRuns`.

Next, in this order. The list of runs stays short: a new module gets one run for
safety and liveness together where its instance allows it.

1. `Driver`: the drive loop, background renewal, node tasks, shutdown and
   lifecycle resolution of one claimed run over an abstract store (the interface
   of `DurableRun` extended by attempts and results). Properties: a finished
   node's result is committed or its attempt remains recoverable; no commit after
   the local deadline; a lost lease ends every task; a driven run rests only in
   states some other actor can move. Liveness under a fair executor.
2. `RunnableScan`: the runnable page, the tenant tick and its claim contention,
   composed with the claim of `RunStore` for several runs. Property: under fair
   ticks no claimable run is passed over for ever; bounds on pages.
3. `AgentDeadlines` and `Submission`: due instants and scans; one run per
   submission key under retries; cancellation of runs that start or stop waiting.
4. `TreeLocks`: row and advisory locks of the tree operations; absence of
   deadlock for every pair of operations.
5. `ArtifactIngestion`: stage, publish, register with crashes and retries.
   Property: a registered artifact's object has the registered digest; a retry
   converges or is refused.
6. `SkillWindows`: windows, revocation and receipts under the database clock.
7. `WorkerSupervision`, `RemoteDispatch`, `OAuthChallenge`; operator
   reconciliation and the model path as further actions of `ToolLedger`.
8. `RunOutbox`: the append that enqueues with the outbox it feeds, showing that a
   delivery exists exactly for committed events.

Proofs to add, each after TLC has checked the inductive invariant: the remaining
RunStore properties and its refinement of `DurableRun`; `EffectAtMostOnce` and
`DispatchedOnce`; `WaitSetAgrees` and `EndsOnce`; `OneSlotPerTick`;
`LineageIsLinear`; `ParentRestsBesideChildren` and `TreeEndsFromLeaves`.
