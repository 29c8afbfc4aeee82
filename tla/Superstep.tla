----------------------------- MODULE Superstep ------------------------------
(***************************************************************************)
(* The supersteps of one run: checkpoints, the physical attempts of their  *)
(* ready nodes, the pending results attempts leave, the external           *)
(* invocations nodes make, and the barrier that consumes a complete result *)
(* set into the next checkpoint.                                           *)
(* crates/stateknot-store-postgres/src/store.rs; the pure history rules    *)
(* and the recovery planner are crates/stateknot-core/src/node_attempt.rs, *)
(* barrier.rs and recovery.rs.                                             *)
(*                                                                         *)
(* The run below is RunStore's, reduced to what these handlers read: its   *)
(* status, its quarantine and the workers that held its fencing epochs.    *)
(* A lease that has expired only makes requests fail, which a caller that  *)
(* stays silent covers, so expiry is no state here.  A request that names  *)
(* an old journal head is refused and an exact retry changes nothing, as   *)
(* RunStore shows; the head matters here only to a barrier, whose caller   *)
(* observed it before the preflight.  A commit is dated at or after the    *)
(* last one, however the clock jumps.  "waiting" is not reached: a waiting *)
(* run has no owner, so no operation below could run in it.                *)
(***************************************************************************)
EXTENDS Integers, Sequences, FiniteSets, RunLifecycle, InvocationState

CONSTANTS Nodes,         \* nodes of the graph (NodeId)
          Checkpoints,   \* checkpoint identities (CheckpointId)
          Attempts,      \* physical attempts of nodes and invocations (AttemptId)
          Workers,       \* worker attempts (AttemptId)
          Invocations,   \* invocation identities (InvocationId)
          Risks,         \* the risks of the invocations nodes make
          None,          \* SQL NULL
          MaxTime,       \* the clock's bound
          MaxDelay,      \* the longest retry delay a failure advises
          MaxEpoch,      \* the bound on takeovers
          MaxAttempts,   \* ReadyNodeRecoveryPlanner::MAX_ATTEMPTS_PER_NODE
          MaxRevisions,  \* the bound on the revisions of an invocation
          MaxEvents,     \* the bound on the journal
          MaxBarriers    \* the bound on barriers between preflight and commit

ASSUME NoneIsNoId ==
    None \notin Checkpoints \cup Attempts \cup Invocations

ASSUME SuperstepBounds ==
    /\ {MaxTime, MaxDelay, MaxEpoch, MaxEvents, MaxBarriers} \subseteq Nat
    /\ {MaxAttempts, MaxRevisions} \subseteq Nat \ {0}
    /\ Risks \subseteq Risk

Time == 0..MaxTime
Delays == 0..MaxDelay

VARIABLES
    status,       \* lifecycle_status
    quarantined,
    holders,      \* holders[e]: the worker that was given fencing epoch e
    held,         \* whether the last of them still is the row's owner
    head,         \* sequence of the journal head
    last,         \* recorded_at of the journal head
    checkpoint,   \* run_checkpoints by identity, or None
    current,      \* runs.checkpoint_id
    attempts,     \* node_attempts with their completions, in journal order
    invocation,   \* tool and model invocations with their revisions, or None
    results,      \* pending_node_results with their bindings
    consumed,     \* pending_node_result_consumptions
    cleared       \* barriers whose preflight passed, not yet committed

runVars == <<status, quarantined, holders, held>>
journalVars == <<head, last>>
vars == <<runVars, journalVars, checkpoint, current, attempts, invocation, results, consumed, cleared>>

-----------------------------------------------------------------------------
(* Records. *)

\* NodeAttemptOutcome, with the RetryAdvice of a failure; "open" before.
Open      == [kind |-> "open", delay |-> 0]
Succeeded == [kind |-> "succeeded", delay |-> 0]
Failures  == {[kind |-> "never", delay |-> 0]} \cup {[kind |-> "safe_after", delay |-> d] : d \in Delays}

\* A revision names an attempt from its first start on, and an error once
\* one is recorded.
Revision ==
    {r \in [status : InvocationStatus, attempt : Attempts \cup {None}, error : Error(Delays),
            at : Time] :
        /\ r.status = "prepared" <=> r.attempt = None
        /\ r.error # NoError => r.status \in {"failed", "unknown"}}

Attempt == [id : Attempts, base : Checkpoints, node : Nodes, epoch : 1..MaxEpoch,
            started : Time, outcome : Failures \cup {Open, Succeeded}, ended : Time]

\* The revision of each invocation a result consumes.
Bindings == UNION {[S -> 1..MaxRevisions] : S \in SUBSET Invocations}

Result == [base : Checkpoints, node : Nodes, attempt : Attempts, bindings : Bindings]

Consumption == [base : Checkpoints, node : Nodes, attempt : Attempts, successor : Checkpoints]

Invocation == [base : Checkpoints, node : Nodes, risk : Risks, revisions : Seq(Revision)]

Epoch == Len(holders)

Unused(c) == checkpoint[c] = None

\* activation_is_canonical_ready_root, at the locked current checkpoint.
ReadyAtCurrent(base, node) ==
    base # None /\ base = current /\ node \in checkpoint[base].ready

History(base, node) == SelectSeq(attempts, LAMBDA a : a.base = base /\ a.node = node)

ResultsOf(base) == {r \in results : r.base = base}

HasResult(base, node) == \E r \in results : r.base = base /\ r.node = node

Known == {i \in Invocations : invocation[i] # None}

CurrentRevision(i) == Len(invocation[i].revisions)

CurrentStatus(i) == invocation[i].revisions[CurrentRevision(i)].status

\* run_attempt_claims: nodes and invocations share one namespace of attempts.
Claimed ==
    {attempts[n].id : n \in DOMAIN attempts} \cup
    UNION {{invocation[i].revisions[n].attempt : n \in 1..CurrentRevision(i)} : i \in Known}

\* JournalEvent::commit: the next sequence, dated at or after the head.
commit(t) == head < MaxEvents /\ t >= last /\ last' = t /\ head' = head + 1

-----------------------------------------------------------------------------
(* The run: ownership, lifecycle, quarantine. *)

\* A worker claims or supersedes the lease.  Nothing stops it from coming
\* back under an identity it used before, unless it is the owner.
AcquireLease(w) ==
    /\ ~quarantined /\ status \in RunnableStatus
    /\ Epoch < MaxEpoch
    /\ held => w # holders[Epoch]
    /\ holders' = Append(holders, w)
    /\ held' = TRUE
    /\ UNCHANGED <<status, quarantined, journalVars, checkpoint, current, attempts,
                   invocation, results, consumed, cleared>>

\* authorize_worker: the caller holds the fence of the row.
authorize_worker(epoch) == held /\ epoch = Epoch

\* prepare_projection and update_run_head: an event may carry a lifecycle
\* transition, and a run that is no longer runnable loses its owner.
Keep == "keep"

project(kind) ==
    \/ kind = Keep /\ UNCHANGED runVars
    \/ /\ kind \in TransitionKind \ WaitTransition
       /\ transition_allowed(status, kind)
       /\ status' = apply_transition(kind)
       /\ held' = (held /\ status' \in RunnableStatus)
       /\ UNCHANGED <<quarantined, holders>>

\* An append that only moves the lifecycle.
ChangeStatus(kind, t) ==
    /\ ~quarantined
    /\ kind # Keep /\ project(kind)
    /\ commit(t)
    /\ UNCHANGED <<checkpoint, current, attempts, invocation, results, consumed, cleared>>

QuarantineRun ==
    /\ ~quarantined
    /\ quarantined' = TRUE
    /\ held' = FALSE
    /\ UNCHANGED <<status, holders, journalVars, checkpoint, current, attempts,
                   invocation, results, consumed, cleared>>

\* append_checkpoint, which its callers only let write the first checkpoint;
\* the control plane may, in any state of the run.
AppendInitialCheckpoint(c, ready, kind, t) ==
    /\ ~quarantined
    /\ Unused(c) /\ current = None
    /\ project(kind)
    /\ commit(t)
    /\ checkpoint' = [checkpoint EXCEPT ![c] = [parent |-> None, superstep |-> 0, ready |-> ready]]
    /\ current' = c
    /\ UNCHANGED <<attempts, invocation, results, consumed, cleared>>

-----------------------------------------------------------------------------
(* Physical attempts of the ready nodes: core/node_attempt.rs. *)

\* Mutant: an attempt nobody finished does not stand in the way of another.
SupersedesOpen(previous, epoch, t) ==
    /\ epoch >= previous.epoch
    /\ epoch > previous.epoch => holders[epoch] # holders[previous.epoch]
    /\ previous.outcome = Open \/ t >= previous.ended + previous.outcome.delay
    /\ previous.outcome.kind \in {"open", "safe_after"}

\* Mutant: any failure may be retried, at once.
RetriesAnyFailure(previous, epoch, t) ==
    /\ epoch >= previous.epoch
    /\ epoch > previous.epoch => holders[epoch] # holders[previous.epoch]
    /\ previous.outcome = Open => epoch > previous.epoch
    /\ previous.outcome # Succeeded

\* What may start after the latest attempt of the activation.
validate_history_successor(previous, epoch, t) ==
    /\ epoch >= previous.epoch
    /\ epoch > previous.epoch => holders[epoch] # holders[previous.epoch]
    /\ \/ previous.outcome = Open /\ epoch > previous.epoch
       \/ previous.outcome.kind = "safe_after" /\ t >= previous.ended + previous.outcome.delay

\* Mutant: the worker is compared with the latest attempt's only.
ReuseIsNotRejected(h, epoch) == TRUE

\* reject_reused_node_worker_attempt, on every attempt of the activation.
WorkerIsNew(h, epoch) ==
    \A n \in DOMAIN h : h[n].epoch # epoch => holders[h[n].epoch] # holders[epoch]

\* start_node_attempt, but for the attempt's identity: whether the store
\* accepts another attempt of the activation at the instant t.
StartAccepted(base, node, epoch, t) ==
    LET h == History(base, node)
    IN  /\ ~HasResult(base, node)
        /\ ~quarantined /\ status = "active"
        /\ ReadyAtCurrent(base, node)
        /\ Len(h) < MaxAttempts
        /\ authorize_worker(epoch)
        /\ h # <<>> => validate_history_successor(h[Len(h)], epoch, t)
        /\ WorkerIsNew(h, epoch)

StartNodeAttempt(a, base, node, epoch, t) ==
    /\ a \notin Claimed
    /\ StartAccepted(base, node, epoch, t)
    /\ commit(t)
    /\ attempts' = Append(attempts, [id |-> a, base |-> base, node |-> node, epoch |-> epoch,
                                     started |-> t, outcome |-> Open, ended |-> t])
    /\ UNCHANGED <<runVars, checkpoint, current, invocation, results, consumed, cleared>>

\* The checks fail_node_attempt and succeed_node_attempt share.  An attempt is
\* finished under the very fence that started it.
Finishes(n, t) ==
    LET a == attempts[n]
    IN  /\ a.outcome = Open
        /\ ~HasResult(a.base, a.node)
        /\ ~quarantined
        /\ status \in {"active", "waiting", "cancellation_requested"}
        /\ ReadyAtCurrent(a.base, a.node)
        /\ authorize_worker(a.epoch)
        /\ commit(t)

FailNodeAttempt(n, failure, t) ==
    /\ Finishes(n, t)
    /\ attempts' = [attempts EXCEPT ![n].outcome = failure, ![n].ended = t]
    /\ UNCHANGED <<runVars, checkpoint, current, invocation, results, consumed, cleared>>

\* NodeInvocationBinding and the foreign keys of the binding tables: any
\* committed or failed revision of an invocation of the same activation.
Consumable(base, node) ==
    {b \in Bindings :
        \A i \in DOMAIN b :
            /\ i \in Known /\ invocation[i].base = base /\ invocation[i].node = node
            /\ b[i] <= CurrentRevision(i)
            /\ invocation[i].revisions[b[i]].status \in {"committed", "failed"}}

SucceedNodeAttempt(n, bindings, t) ==
    LET a == attempts[n]
    IN  /\ Finishes(n, t)
        /\ bindings \in Consumable(a.base, a.node)
        /\ attempts' = [attempts EXCEPT ![n].outcome = Succeeded, ![n].ended = t]
        /\ results' = results \cup {[base |-> a.base, node |-> a.node, attempt |-> a.id,
                                     bindings |-> bindings]}
        /\ UNCHANGED <<runVars, checkpoint, current, invocation, consumed, cleared>>

-----------------------------------------------------------------------------
(* External invocations of the ready nodes. *)

\* prepare_tool_invocation and prepare_model_invocation.
PrepareInvocation(i, base, node, risk, epoch, t) ==
    /\ i \notin Known
    /\ ~quarantined /\ status = "active"
    /\ ReadyAtCurrent(base, node)
    /\ authorize_worker(epoch)
    /\ commit(t)
    /\ invocation' = [invocation EXCEPT ![i] = [base |-> base, node |-> node, risk |-> risk,
                                                revisions |-> <<Prepared(None, t)>>]]
    /\ UNCHANGED <<runVars, checkpoint, current, attempts, results, consumed, cleared>>

\* validate_tool_invocation_transition_lifecycle, and the model's.
TransitionAllowedIn(kind) ==
    \/ status = "active"
    \/ kind # "start_attempt" /\ status \in {"waiting", "cancellation_requested"}

\* Mutant: the invocation is advanced whatever checkpoint the run is at.
AdvancesAnywhere(i) == TRUE

AtCurrentCheckpoint(i) == ReadyAtCurrent(invocation[i].base, invocation[i].node)

\* advance_tool_invocation and advance_model_invocation.  Whether the node's
\* result was committed already is not asked.
AdvanceInvocation(i, tr, epoch, t) ==
    /\ i \in Known /\ CurrentRevision(i) < MaxRevisions
    /\ ~quarantined /\ TransitionAllowedIn(tr.kind)
    /\ AtCurrentCheckpoint(i)
    /\ authorize_worker(epoch)
    /\ TransitionFits(invocation[i].risk, invocation[i].revisions[CurrentRevision(i)], tr, t)
    /\ tr.kind = "start_attempt" => tr.attempt \notin Claimed
    /\ commit(t)
    /\ invocation' = [invocation EXCEPT ![i].revisions = Append(@, advance(tr, t))]
    /\ UNCHANGED <<runVars, checkpoint, current, attempts, results, consumed, cleared>>

-----------------------------------------------------------------------------
(* Barriers: core/barrier.rs, append_barrier. *)

\* verify_pending_node_result: every bound revision must be the current one.
verify_pending_node_result(r) ==
    \A i \in DOMAIN r.bindings : r.bindings[i] = CurrentRevision(i)

\* Mutant: a ready node whose result is missing is not noticed.
PartialShape(b) == b.results # {}

\* validate_barrier_shape: the successor's parent is the base, and the results
\* are of the base's ready nodes, one of each.
validate_barrier_shape(b) ==
    /\ checkpoint[b.base].ready # {}
    /\ {r.node : r \in b.results} = checkpoint[b.base].ready

\* verify_checkpoint_barrier_preflight, in a transaction of its own before the
\* mutation.  The caller observed the head it expects no later than here.
Preflight(b) ==
    /\ Cardinality(cleared) < MaxBarriers
    /\ ~Unused(b.base) /\ b.base # b.successor
    /\ b.head = head
    /\ validate_barrier_shape(b)
    /\ \A r \in b.results : r \in results /\ r.base = b.base /\ verify_pending_node_result(r)
    /\ cleared' = cleared \cup {b}
    /\ UNCHANGED <<runVars, journalVars, checkpoint, current, attempts, invocation, results,
                   consumed>>

\* Mutant: only invocations whose attempt is running hold a checkpoint back.
OnlyRunningHoldBack(base) ==
    \A i \in Known : invocation[i].base = base => CurrentStatus(i) # "executing"

\* ensure_no_unsettled_tool_invocations, and the model's.
ensure_no_unsettled_invocations(base) ==
    \A i \in Known : invocation[i].base = base => CurrentStatus(i) \in {"committed", "failed"}

\* Mutant: the run may have moved on since the preflight.
AnyHead(b) == b.head <= head

ExpectedHead(b) == b.head = head

\* Mutant: a checkpoint identity is written a second time.
AnyIdentity(c) == TRUE

IdentityUnused(c) == Unused(c)

\* Mutant: the base is looked at in the preflight only.
AnyBase(b) == TRUE

\* The base of the barrier is compared with the locked current checkpoint, and
\* nothing may have consumed its results.
StillAtBase(b) ==
    /\ current = b.base
    /\ ~\E c \in consumed : c.base = b.base

\* append_barrier, the mutation.  The control plane may commit one, so the
\* lease is no guard.
AppendBarrier(b, kind, t) ==
    /\ IdentityUnused(b.successor)
    /\ ~quarantined /\ status = "active"
    /\ ExpectedHead(b)
    /\ StillAtBase(b)
    /\ ensure_no_unsettled_invocations(b.base)
    /\ b.results = ResultsOf(b.base)
    /\ project(kind)
    /\ commit(t)
    /\ checkpoint' = [checkpoint EXCEPT ![b.successor] =
                        [parent |-> b.base, superstep |-> checkpoint[b.base].superstep + 1,
                         ready |-> b.ready]]
    /\ consumed' = consumed \cup {[base |-> b.base, node |-> r.node, attempt |-> r.attempt,
                                   successor |-> b.successor] : r \in b.results}
    /\ current' = b.successor
    /\ cleared' = cleared \ {b}
    /\ UNCHANGED <<attempts, invocation, results>>

-----------------------------------------------------------------------------
(* The recovery planner: core/recovery.rs, run by plan_ready_nodes.  A plan *)
(* that fails is taken for corruption, and quarantines the run.             *)

validate_current_fence(historical, epoch) ==
    historical < epoch => holders[historical] # holders[epoch]

\* Mutant: the delay is counted from the attempt's start.
DelayFromStart(a, t) == t < a.started + a.outcome.delay

\* retry_not_before
Deferred(a, t) == t < a.ended + a.outcome.delay

\* Mutant: an attempt whose worker was displaced is taken to be still running.
OpenIsRunning(a, epoch) == a.outcome = Open

Running(a, epoch) == a.outcome = Open /\ a.epoch = epoch

\* classify_entry, observed at t by the owner of the epoch.
classify_entry(base, node, epoch, t) ==
    LET h == History(base, node)
        latest == h[Len(h)]
    IN  CASE h # <<>> /\ ~validate_current_fence(latest.epoch, epoch) -> "corrupt"
          [] HasResult(base, node) ->
                IF latest.outcome = Succeeded THEN "completed" ELSE "corrupt"
          [] h = <<>> -> "dispatchable"
          [] Running(latest, epoch) -> "in_flight"
          [] latest.outcome = Succeeded -> "corrupt"
          [] latest.outcome.kind = "never" -> "failed"
          [] Len(h) >= MaxAttempts -> "exhausted"
          [] latest.outcome = Open -> "dispatchable"
          [] Deferred(latest, t) -> "deferred"
          [] OTHER -> "dispatchable"

-----------------------------------------------------------------------------

Init ==
    /\ status = "pending" /\ quarantined = FALSE
    /\ holders = <<>> /\ held = FALSE
    /\ head = 0 /\ last = 0
    /\ checkpoint = [c \in Checkpoints |-> None] /\ current = None
    /\ attempts = <<>>
    /\ invocation = [i \in Invocations |-> None]
    /\ results = {} /\ consumed = {} /\ cleared = {}

Transition ==
    [kind : {"record_error", "reconcile_error"}, attempt : Attempts, error : Error(Delays)] \cup
    [kind : {"start_attempt", "record_result", "reconcile_result"}, attempt : Attempts,
     error : {NoError}]

Next ==
    \/ \E w \in Workers : AcquireLease(w)
    \/ QuarantineRun
    \/ \E t \in Time :
        \/ \E kind \in TransitionKind : ChangeStatus(kind, t)
        \/ \E c \in Checkpoints, ready \in SUBSET Nodes, kind \in TransitionKind \cup {Keep} :
                AppendInitialCheckpoint(c, ready, kind, t)
        \/ \E a \in Attempts, base \in Checkpoints, node \in Nodes, epoch \in 1..Epoch :
                StartNodeAttempt(a, base, node, epoch, t)
        \/ \E n \in DOMAIN attempts : \E f \in Failures : FailNodeAttempt(n, f, t)
        \/ \E n \in DOMAIN attempts : \E b \in Bindings : SucceedNodeAttempt(n, b, t)
        \/ \E i \in Invocations, base \in Checkpoints, node \in Nodes, risk \in Risks,
              epoch \in 1..Epoch : PrepareInvocation(i, base, node, risk, epoch, t)
        \/ \E i \in Invocations, tr \in Transition, epoch \in 1..Epoch :
                AdvanceInvocation(i, tr, epoch, t)
        \/ \E b \in cleared, kind \in TransitionKind \cup {Keep} : AppendBarrier(b, kind, t)
    \/ \E base \in Checkpoints, successor \in Checkpoints, ready \in SUBSET Nodes,
          rs \in SUBSET results :
            Preflight([base |-> base, successor |-> successor, ready |-> ready,
                       results |-> rs, head |-> head])

Spec == Init /\ [][Next]_vars

-----------------------------------------------------------------------------
(* Properties. *)

\* The rows have the shapes the records of stateknot-core give them.
TypeOK ==
    /\ status \in RunStatus /\ {quarantined, held} \subseteq BOOLEAN
    /\ holders \in Seq(Workers) /\ Epoch <= MaxEpoch /\ (held => Epoch > 0)
    /\ head \in Nat /\ last \in Time
    /\ \A c \in Checkpoints :
        checkpoint[c] \in {None} \cup [parent : Checkpoints \cup {None}, superstep : Nat,
                                       ready : SUBSET Nodes]
    /\ current \in Checkpoints \cup {None}
    /\ attempts \in Seq(Attempt)
    /\ \A i \in Known : invocation[i] \in Invocation
    /\ results \subseteq Result /\ consumed \subseteq Consumption

Written == {c \in Checkpoints : checkpoint[c] # None}

Superseded == Written \ {current}

\* Successors(c): the checkpoints written after c.
Successors(c) == {d \in Written : checkpoint[d].parent = c}

\* The checkpoints of a run are one line from the first to the current one,
\* numbered by their superstep: neither of two barriers in flight, nor one
\* whose base the run has left by the time its caller reads the head, starts a
\* second line (append_barrier: CheckpointIdConflict, and StaleCheckpointHead
\* under the run's lock).
LineageIsLinear ==
    /\ current = None <=> Written = {}
    /\ \A c \in Written :
        /\ checkpoint[c].superstep < Cardinality(Written)
        /\ checkpoint[c].superstep = 0 <=> checkpoint[c].parent = None
        /\ Cardinality(Successors(c)) = (IF c = current THEN 0 ELSE 1)
        /\ \A d \in Successors(c) : checkpoint[d].superstep = checkpoint[c].superstep + 1

\* A checkpoint is left only by a barrier that consumed the result of each of
\* its ready nodes exactly once, and each consumed result is the outcome of a
\* successful attempt (validate_complete_barrier_result_heads,
\* insert_barrier_consumptions).
BarrierConsumesReadySet ==
    \A base \in Written :
        LET cs == {c \in consumed : c.base = base}
        IN  /\ \A x, y \in cs : x.node = y.node => x = y
            /\ {c.successor : c \in cs} = Successors(base)
            /\ {c.node : c \in cs} = IF base \in Superseded THEN checkpoint[base].ready ELSE {}
            /\ \A c \in cs : \E n \in DOMAIN attempts :
                    attempts[n].id = c.attempt /\ attempts[n].outcome = Succeeded

\* No invocation is left behind without an outcome when the run moves to the
\* next checkpoint, where nobody may record one any more
\* (ensure_no_unsettled_tool_invocations, the orphan-prevention guard).
NoOrphanInvocation ==
    \A i \in Known : invocation[i].base \in Superseded =>
        CurrentStatus(i) \in {"committed", "failed"}

\* The evidence a consumed result was computed from is final: the bound
\* revision is the invocation's last, although the preflight that compared
\* them ran in an earlier transaction (append_barrier: the exact head).
ConsumedEvidenceIsFinal ==
    \A c \in consumed : \A r \in results :
        r.base = c.base /\ r.node = c.node => verify_pending_node_result(r)

\* The complete history of an activation verifies, not only each attempt
\* against the one before it: epochs never decrease, a worker's identity names
\* one epoch, an unfinished attempt is followed only under a higher epoch, a
\* failed one only after its delay, and a successful one by nothing
\* (NodeAttemptHistoryVerifier, reject_reused_node_worker_attempt).
AttemptHistoryVerifies ==
    \A base \in Written, node \in Nodes :
        LET h == History(base, node)
        IN  \A m, n \in DOMAIN h : m < n =>
                /\ h[m].epoch <= h[n].epoch
                /\ h[m].epoch < h[n].epoch => holders[h[m].epoch] # holders[h[n].epoch]
                /\ h[m].outcome = Open => h[m].epoch < h[n].epoch
                /\ h[m].outcome.kind \in {"open", "safe_after"}
                /\ h[m].outcome # Open => h[m].ended + h[m].outcome.delay <= h[n].started

\* Whether the owner's identity is new to the current activations, as the
\* runtime's always is.
FreshOwner ==
    held /\ \A e \in 1..(Epoch - 1) : holders[e] # holders[Epoch]

\* The planner and the store agree: a fresh owner that plans at the head's
\* instant or later is told to dispatch a node exactly when the store accepts
\* the start, and no history the store wrote is taken for corruption
\* (classify_entry, start_node_attempt).
RecoveryAgreesWithStore ==
    (FreshOwner /\ status = "active" /\ ~quarantined /\ current # None) =>
        \A node \in checkpoint[current].ready : \A t \in last..MaxTime :
            LET verdict == classify_entry(current, node, Epoch, t)
            IN  /\ verdict # "corrupt"
                /\ verdict = "dispatchable" <=> StartAccepted(current, node, Epoch, t)

\* A pending result whose bytes nobody damaged verifies until it is consumed,
\* so the owner's recovery does not quarantine the run and the barrier can
\* pass its preflight (verify_pending_node_result).
PendingResultsVerify ==
    \A r \in results : r.base = current => verify_pending_node_result(r)

\* A checkpoint that owns a failed invocation is not left
\* (docs/postgresql-provider.md; ensure_no_unsettled_tool_invocations).
FailedInvocationBlocksCheckpoint ==
    \A i \in Known : invocation[i].base \in Superseded => CurrentStatus(i) = "committed"

=============================================================================
