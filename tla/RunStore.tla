------------------------------ MODULE RunStore ------------------------------
(***************************************************************************)
(* One durable run in PostgreSQL: its row in stateknot.runs, its append-   *)
(* only journal, its fenced worker lease and its quarantine record.        *)
(* crates/stateknot-store-postgres/src/store.rs                            *)
(*                                                                         *)
(* Every mutation locks the row (fetch_locked_run_row, FOR UPDATE) and     *)
(* commits one transaction, so each is one atomic step; what interleaves   *)
(* are the transactions of any number of workers, schedulers and control-  *)
(* plane callers.  A caller is not modelled beyond its requests: a request *)
(* may be sent by anyone, late, twice, or again after its answer was lost, *)
(* with a journal head, a revision and a fence observed at any earlier     *)
(* time.  A rejected request changes nothing and is not a step.            *)
(*                                                                         *)
(* The database clock may jump forwards and backwards.  A handler that     *)
(* reads the clock twice (update_run_head re-checks the lease at the       *)
(* UPDATE) can only fail on the second reading, so one reading is enough.  *)
(***************************************************************************)
EXTENDS Integers, Sequences, FiniteSets, RunLifecycle

CONSTANTS EventIds,       \* identities of journal events (EventId)
          Attempts,       \* identities of worker attempts (AttemptId)
          Payloads,       \* journal payloads
          QuarantineIds,  \* identities of quarantine requests
          None,           \* SQL NULL for identities
          MaxTime,        \* the clock's bound
          LeaseDuration,  \* PostgresStoreOptions::lease_duration
          MaxHorizon,     \* PostgresStoreOptions::maximum_lease_horizon
          MaxEpoch        \* FencingEpoch::MAX

ASSUME NoneIsNoIdentity ==
    None \notin EventIds /\ None \notin Attempts /\ None \notin QuarantineIds

ASSUME BoundsAreNatural ==
    MaxTime \in Nat /\ MaxHorizon \in Nat /\ MaxEpoch \in Nat \ {0}

ASSUME LeaseDurationIsPositive == LeaseDuration \in Nat \ {0}

Time == 0..MaxTime
NoTime == -1   \* SQL NULL for timestamps

VARIABLES
    now,            \* clock_timestamp()
    status,         \* lifecycle_status, or "absent" before admission
    revision,       \* lifecycle_revision
    admitted_at,
    changed_at,
    journal,        \* run_events in sequence order; its end is the row's journal head
    epoch,          \* fencing_epoch
    lease_attempt,  \* lease_attempt_id, or None
    lease_renewed,  \* lease_renewed_at (lease_acquired_at is never later)
    lease_expires,  \* lease_expires_at
    ready_at,       \* scheduler_ready_at
    not_before,     \* scheduler_not_before
    quarantine,     \* the run_quarantines record, or None
    granted,        \* history: every fence a caller was given
    acked           \* history: every append a caller was told is committed

lifecycleVars == <<status, revision, admitted_at, changed_at>>
leaseVars     == <<lease_attempt, lease_renewed, lease_expires>>
schedulerVars == <<ready_at, not_before>>
vars == <<now, lifecycleVars, journal, epoch, leaseVars, schedulerVars,
          quarantine, granted, acked>>

-----------------------------------------------------------------------------
(* The values of requests and rows. *)

Fence == [attempt : Attempts, epoch : 1..MaxEpoch]

\* JournalEventSource: the control plane, or a worker with its fence.
ControlPlane == [attempt |-> None, epoch |-> 0]
Source == Fence \cup {ControlPlane}

\* RunProjection: no lifecycle change, or one transition applied to the
\* revision the caller observed, dated by the caller.
NoProjection == [kind |-> "none", revision |-> 0, at |-> 0]
Projection == [kind : TransitionKind, revision : Nat, at : Time] \cup {NoProjection}

\* JournalEventIntent together with the digest of its projection: what an
\* idempotent retry must repeat exactly (matches_intent, projection_digest).
Intent == [id : EventIds, source : Source, payload : Payloads, projection : Projection]

Event == [intent : Intent, sequence : Nat \ {0}, recorded_at : Time]

QuarantineRequest == [id : QuarantineIds, fence : Fence \cup {None}, expected : Nat]

Max2(a, b) == IF a >= b THEN a ELSE b

Held == lease_attempt # None

CurrentFence == [attempt |-> lease_attempt, epoch |-> epoch]

IsTransition(p) == p.kind # "none"

EventIn(id) == \E i \in DOMAIN journal : journal[i].intent.id = id

\* Mutant: an event is dated by the clock alone.
RecordedAtByClock == now

\* recorded_at of the next event: never before the head's.
RecordedAt ==
    IF journal = <<>> THEN now ELSE Max2(now, journal[Len(journal)].recorded_at)

-----------------------------------------------------------------------------
(* Admission and the database clock. *)

\* admit_run: inserts the row; a retry with the same provenance changes nothing.
AdmitRun ==
    /\ status = "absent"
    /\ status' = "pending"
    /\ admitted_at' = now /\ changed_at' = now /\ ready_at' = now
    /\ UNCHANGED <<now, revision, journal, epoch, leaseVars, not_before,
                   quarantine, granted, acked>>

ClockAdvances ==
    /\ \E t \in Time : t > now /\ now' = t
    /\ UNCHANGED <<lifecycleVars, journal, epoch, leaseVars, schedulerVars,
                   quarantine, granted, acked>>

ClockRegresses ==
    /\ \E t \in Time : t < now /\ now' = t
    /\ UNCHANGED <<lifecycleVars, journal, epoch, leaseVars, schedulerVars,
                   quarantine, granted, acked>>

-----------------------------------------------------------------------------
(* The worker lease. *)

\* Mutant: quarantine is forgotten.
IgnoresQuarantine == status # "absent"

NotQuarantined == status # "absent" /\ quarantine = None

\* validate_runnable: neither quarantined, waiting nor terminal.
validate_runnable == NotQuarantined /\ status \in RunnableStatus

\* Mutant: the delayed-retry gate stays shut at the instant it names.
AvailableAfterGate ==
    Max2(Max2(ready_at, not_before + 1), IF Held THEN lease_expires ELSE ready_at)

\* Mutant: only a release, never an expiry, makes an owned run available.
AvailableAfterRelease == IF Held THEN MaxTime + 1 ELSE Max2(ready_at, not_before)

\* scheduler_available_at: queue entry, retry delay and lease all permit a claim.
scheduler_available_at ==
    Max2(Max2(ready_at, not_before), IF Held THEN lease_expires ELSE ready_at)

\* Mutant: a takeover keeps the displaced worker's epoch.
SameEpoch == Max2(epoch, 1)

NextEpoch == epoch + 1

\* Mutant: the last epoch is taken for one that still has a successor.
EpochLeftAtMaximum == epoch <= MaxEpoch

EpochLeft == epoch < MaxEpoch

\* The UPDATE of acquire_lease: the next epoch names the new holder.
GrantLease(attempt) ==
    /\ EpochLeft
    /\ epoch' = NextEpoch
    /\ lease_attempt' = attempt
    /\ lease_renewed' = now
    /\ lease_expires' = now + LeaseDuration
    /\ not_before' = NoTime
    /\ granted' = granted \cup {[attempt |-> attempt, epoch |-> NextEpoch]}
    /\ UNCHANGED <<now, lifecycleVars, journal, ready_at, quarantine, acked>>

\* claim_lease.  The holder's own retry is answered with its lease and
\* changes nothing; once that lease has expired it is refused, so an attempt
\* never takes the run over from itself.
ClaimLease(attempt) ==
    /\ attempt # lease_attempt
    /\ Held => now >= lease_renewed
    /\ validate_runnable
    /\ now >= scheduler_available_at
    /\ GrantLease(attempt)

\* supersede_lease: a live lease, the queue entry and the retry delay do not
\* stop a successor; only the epoch protects the run from its predecessor.
SupersedeLease(attempt) ==
    /\ attempt # lease_attempt
    /\ Held => now >= lease_renewed
    /\ validate_runnable
    /\ GrantLease(attempt)

\* renew_lease: extends a live lease, within the configured horizon.  The
\* retry with the expiry already stored is answered and changes nothing.
RenewLease(fence, desired) ==
    /\ Held /\ fence = CurrentFence
    /\ now >= lease_renewed
    /\ now < lease_expires
    /\ desired > lease_expires
    /\ desired <= now + MaxHorizon
    /\ lease_renewed' = now
    /\ lease_expires' = desired
    /\ UNCHANGED <<now, lifecycleVars, journal, epoch, lease_attempt, schedulerVars,
                   quarantine, granted, acked>>

ClearLease == lease_attempt' = None /\ lease_renewed' = NoTime /\ lease_expires' = NoTime

\* release_lease: an expired lease may still be released.  The CHECK
\* runs_scheduler_ready_shape aborts a release dated before admission.
ReleaseLease(fence) ==
    /\ Held /\ fence = CurrentFence
    /\ now >= lease_renewed
    /\ now >= admitted_at
    /\ ClearLease
    /\ ready_at' = IF status \in RunnableStatus THEN now ELSE NoTime
    /\ not_before' = NoTime
    /\ UNCHANGED <<now, lifecycleVars, journal, epoch, quarantine, granted, acked>>

-----------------------------------------------------------------------------
(* Journal appends. *)

\* Mutant: the holder is recognised by its attempt, whatever its epoch.
AuthorizeByAttempt(fence) ==
    /\ Held /\ fence \in Fence /\ fence.attempt = lease_attempt
    /\ lease_renewed <= now /\ now < lease_expires

\* authorize_worker and RunLease::validate_write: exact fence, live lease.
authorize_worker(fence) ==
    /\ Held /\ fence = CurrentFence
    /\ lease_renewed <= now /\ now < lease_expires

Authorized(source) == source = ControlPlane \/ authorize_worker(source)

\* Mutant: the journal head the caller observed is not compared.
AnyHead(expected) == expected <= Len(journal)

CurrentHead(expected) == expected = Len(journal)

\* Mutant: a transition is applied whatever revision the caller observed.
AnyRevision(p) == p.revision <= revision

ObservedRevision(p) == p.revision = revision

\* Mutant: a change may be dated after the event that records it.
DatedAnytime(p) == p.at >= changed_at

\* RunLifecycle::apply (ClockRegression), LifecycleObservationAfterCommit.
DatedByCommit(p) == p.at >= changed_at /\ p.at <= RecordedAt

\* prepare_projection: durable waits have operations of their own.
prepare_projection(p) ==
    IsTransition(p) =>
        /\ ObservedRevision(p)
        /\ p.kind \notin WaitTransition
        /\ ~(status = "waiting" /\ p.kind \in {"request_cancellation", "fail"})
        /\ transition_allowed(status, p.kind)
        /\ DatedByCommit(p)

insert_event(intent, expected) ==
    journal' = Append(journal, [intent |-> intent, sequence |-> expected + 1,
                                recorded_at |-> RecordedAt])

\* Mutant: a transition is recorded but its revision is not advanced.
SameRevision == revision

NextRevision == revision + 1

\* Mutant: a run no worker may own keeps its lease.
KeepLease(next) == UNCHANGED leaseVars

LeaseAfter(next) ==
    IF next \in RunnableStatus THEN UNCHANGED leaseVars ELSE ClearLease

\* update_run_head: with a transition, the lifecycle advances, the run enters
\* or leaves the scheduler queue, and a run no worker may own loses its lease.
update_run_head(p, next) ==
    IF IsTransition(p)
    THEN /\ status' = next
         /\ revision' = NextRevision
         /\ changed_at' = p.at
         /\ ready_at' = IF next \in RunnableStatus THEN RecordedAt ELSE NoTime
         /\ not_before' = NoTime
         /\ LeaseAfter(next)
         /\ UNCHANGED admitted_at
    ELSE UNCHANGED <<lifecycleVars, leaseVars, schedulerVars>>

\* Mutant: a retry is recognised by its event identity alone.
MatchesId(event, intent) == event.intent.id = intent.id

\* JournalEvent::matches_intent and the committed projection digest.
matches_intent(event, intent) == event.intent = intent

\* The projections a caller may ask for, from any revision it has seen.
RequestedProjection ==
    [kind : TransitionKind, revision : 0..revision, at : Time] \cup {NoProjection}

\* append, existing event: an exact retry is told its event is committed,
\* whoever holds the lease now and even if the run is quarantined.
AppendRetry(intent) ==
    /\ \E i \in DOMAIN journal : matches_intent(journal[i], intent)
    /\ acked' = acked \cup {intent}
    /\ UNCHANGED <<now, lifecycleVars, journal, epoch, leaseVars, schedulerVars,
                   quarantine, granted>>

\* append, after its checks.  The acknowledgement may be lost on its way back.
CommitEvent(intent, expected) ==
    /\ prepare_projection(intent.projection)
    /\ insert_event(intent, expected)
    /\ update_run_head(intent.projection, apply_transition(intent.projection.kind))
    /\ acked' \in {acked, acked \cup {intent}}
    /\ UNCHANGED <<now, epoch, quarantine, granted>>

\* append, behind append_control_plane and append_worker.  The journal head,
\* the revision and the fence may have been observed at any earlier time.
AppendEvent(id, source, payload) ==
    LET Request(p) == [id |-> id, source |-> source, payload |-> payload, projection |-> p]
    IN  IF EventIn(id)
        THEN \E p \in RequestedProjection : AppendRetry(Request(p))
        ELSE /\ NotQuarantined
             /\ Authorized(source)
             /\ \E expected \in 0..Len(journal), p \in RequestedProjection :
                    CurrentHead(expected) /\ CommitEvent(Request(p), expected)

-----------------------------------------------------------------------------
(* Delayed retry and quarantine. *)

\* schedule_delayed_retry_wakeup: a worker whose recovery plan, made at the
\* current head, defers every unfinished node until "until" gives the lease
\* back and gates the run.  CHECK runs_scheduler_not_before_shape aborts a gate
\* before the run's queue entry.  The plan itself is an input here.
ScheduleDelayedRetryWakeup(fence, expected, until) ==
    /\ validate_runnable /\ status = "active"
    /\ CurrentHead(expected)
    /\ authorize_worker(fence)
    /\ now < until /\ until >= ready_at
    /\ ClearLease
    /\ not_before' = until
    /\ UNCHANGED <<now, lifecycleVars, journal, epoch, ready_at, quarantine, granted, acked>>

\* Mutant: an automatic quarantine ignores that its detector lost the lease.
AnyQuarantineFence(fence) == TRUE

\* authorize_quarantine_fence: an operator names no fence.
authorize_quarantine_fence(fence) == fence = None \/ authorize_worker(fence)

\* quarantine_run: freezes the run at the exact head its evidence is about.
\* The retry of a stored request is answered and changes nothing.
QuarantineRun(request) ==
    /\ NotQuarantined
    /\ authorize_quarantine_fence(request.fence)
    /\ CurrentHead(request.expected)
    /\ journal # <<>> => journal[Len(journal)].recorded_at <= now
    /\ quarantine' = request
    /\ ClearLease
    /\ UNCHANGED <<now, lifecycleVars, journal, epoch, schedulerVars, granted, acked>>

-----------------------------------------------------------------------------
Init ==
    /\ now \in Time
    /\ status = "absent" /\ revision = 0
    /\ admitted_at = NoTime /\ changed_at = NoTime
    /\ journal = <<>>
    /\ epoch = 0
    /\ lease_attempt = None /\ lease_renewed = NoTime /\ lease_expires = NoTime
    /\ ready_at = NoTime /\ not_before = NoTime
    /\ quarantine = None
    /\ granted = {} /\ acked = {}

AppendByAnyone ==
    \E id \in EventIds, source \in granted \cup {ControlPlane}, payload \in Payloads :
        AppendEvent(id, source, payload)

LeaseStep ==
    \/ \E attempt \in Attempts : ClaimLease(attempt) \/ SupersedeLease(attempt)
    \/ \E fence \in granted : \/ ReleaseLease(fence)
                              \/ \E desired \in 0..MaxTime + MaxHorizon : RenewLease(fence, desired)
    \/ \E fence \in granted, expected \in 0..Len(journal), until \in Time :
           ScheduleDelayedRetryWakeup(fence, expected, until)

QuarantineByAnyone ==
    \E id \in QuarantineIds, fence \in granted \cup {None}, expected \in 0..Len(journal) :
        QuarantineRun([id |-> id, fence |-> fence, expected |-> expected])

StoreStep == AdmitRun \/ LeaseStep \/ AppendByAnyone \/ QuarantineByAnyone

Next == StoreStep \/ ClockAdvances \/ ClockRegresses

Spec == Init /\ [][Next]_vars

\* Liveness is claimed once the clock has stopped jumping backwards: the
\* clock keeps advancing and schedulers keep polling for claimable runs.
LiveNext == StoreStep \/ ClockAdvances

LiveSpec ==
    /\ Init /\ [][LiveNext]_vars
    /\ WF_vars(ClockAdvances)
    /\ WF_vars(\E attempt \in Attempts : ClaimLease(attempt))

-----------------------------------------------------------------------------
(* Properties. *)

\* Every column and history variable has the type of its definition.
TypeOK ==
    /\ now \in Time
    /\ status \in RunStatus \cup {"absent"}
    /\ revision \in Nat
    /\ admitted_at \in Time \cup {NoTime} /\ changed_at \in Time \cup {NoTime}
    /\ journal \in Seq(Event)
    /\ epoch \in 0..MaxEpoch
    /\ lease_attempt \in Attempts \cup {None}
    /\ lease_renewed \in Time \cup {NoTime} /\ lease_expires \in Nat \cup {NoTime}
    /\ ready_at \in Time \cup {NoTime} /\ not_before \in Time \cup {NoTime}
    /\ quarantine \in QuarantineRequest \cup {None}
    /\ granted \subseteq Fence
    /\ acked \subseteq Intent

\* decode_run never rejects a row the store itself wrote as corrupt: the
\* lifecycle snapshot, the lease shape and the scheduler readiness it checks
\* hold after every sequence of operations and clock jumps.  And no worker owns
\* a run that waits, has finished or is quarantined: whatever ended its turn
\* (update_run_head, quarantine_run) also took its lease.
RowDecodes ==
    status # "absent" =>
        /\ changed_at >= admitted_at
        /\ status = "pending" <=> revision = 0
        /\ Held => validate_runnable
        /\ Held => epoch > 0 /\ lease_renewed < lease_expires /\ not_before = NoTime
        /\ IF status \in RunnableStatus
           THEN ready_at >= admitted_at /\ (not_before # NoTime => not_before >= ready_at)
           ELSE ready_at = NoTime /\ not_before = NoTime

\* The journal is one unbroken chain (JournalEvent::commit numbers an event
\* from the head its caller observed) and no event identity occurs twice.
JournalIsChain ==
    /\ \A i \in DOMAIN journal : journal[i].sequence = i
    /\ \A i, j \in DOMAIN journal : journal[i].intent.id = journal[j].intent.id => i = j

\* Journal time never runs backwards although the database clock may.
JournalTimeMonotone ==
    \A i, j \in DOMAIN journal : i <= j => journal[i].recorded_at <= journal[j].recorded_at

\* Fencing leaves its evidence in the journal: the epochs of worker events
\* never decrease, and one epoch was only ever used by one attempt.
FencedJournal ==
    \A i, j \in DOMAIN journal :
        LET f == journal[i].intent.source
            g == journal[j].intent.source
        IN  f # ControlPlane /\ g # ControlPlane /\ i <= j =>
                f.epoch < g.epoch \/ f = g

\* An epoch is granted to one attempt only (acquire_lease increments it for
\* every holder, also after a release, an expiry or a supersession).
EpochNamesOneHolder == \A f, g \in granted : f.epoch = g.epoch => f = g

\* Inductive strengthening of the two: the row's epoch is the newest granted
\* one, the holder was granted its fence, and only granted fences wrote.
FencesOfRecord ==
    /\ \A f \in granted : f.epoch <= epoch
    /\ Held => CurrentFence \in granted
    /\ \A i \in DOMAIN journal : journal[i].intent.source \in granted \cup {ControlPlane}

\* Fencing holds for good (authorize_worker, acquire_lease): worker epochs in
\* the journal never decrease, an epoch has one holder, and what makes the two
\* inductive.
FencingInv == TypeOK /\ FencesOfRecord /\ EpochNamesOneHolder /\ FencedJournal

\* Exactly-once projection: the lifecycle revision counts the transitions in
\* the journal; every revision below it was consumed by exactly one event,
\* whatever was retried, answered late or written by two workers.
RevisionConsumedOnce ==
    /\ \A r \in 0..revision - 1 : \E i \in DOMAIN journal :
           IsTransition(journal[i].intent.projection) /\ journal[i].intent.projection.revision = r
    /\ \A i, j \in DOMAIN journal :
           LET p == journal[i].intent.projection
               q == journal[j].intent.projection
           IN  IsTransition(p) /\ IsTransition(q) =>
                   p.revision < revision /\ (p.revision = q.revision => i = j)

\* The lifecycle never claims a change later than the event that records it,
\* and changes are dated in journal order (prepare_projection, apply).
ChangeDatedByJournal ==
    /\ \A i \in DOMAIN journal : LET p == journal[i].intent.projection IN
           IsTransition(p) => p.at <= journal[i].recorded_at /\ p.at <= changed_at
    /\ \A i, j \in DOMAIN journal :
           LET p == journal[i].intent.projection
               q == journal[j].intent.projection
           IN  IsTransition(p) /\ IsTransition(q) /\ i <= j => p.at <= q.at

\* A caller told that its append is committed, at once or by a retry, finds
\* exactly that intent in the journal.
AckedIsCommitted == \A a \in acked : \E i \in DOMAIN journal : journal[i].intent = a

\* The journal is exact under retries, stale heads, several writers and clock
\* jumps (append, prepare_projection, JournalEvent::commit): one chain in
\* monotone time, each revision consumed once, acknowledgements true.  These are
\* inductive together, given that a run has no history before its admission.
JournalInv ==
    /\ status = "absent" => journal = <<>>
    /\ TypeOK /\ JournalIsChain /\ JournalTimeMonotone
    /\ RevisionConsumedOnce /\ ChangeDatedByJournal /\ AckedIsCommitted

\* Once a later fence was granted, the worker it displaced neither writes the
\* journal nor quarantines the run, however late its request arrives.
DisplacedWorkerHasNoEffect ==
    [][/\ journal' # journal =>
              LET source == journal'[Len(journal')].intent.source
              IN  source # ControlPlane => \A f \in granted : f.epoch <= source.epoch
       /\ quarantine' # quarantine /\ quarantine'.fence # None =>
              \A f \in granted : f.epoch <= quarantine'.fence.epoch
      ]_vars

\* What ends a run stands.  A quarantined run is frozen: nothing is appended,
\* projected, leased, scheduled or released any more, and its record is never
\* replaced (quarantine_run).  A terminal status is final, and after an accepted
\* cancellation the run can only be confirmed cancelled (RunTransition).
EndsAreFinal ==
    [][/\ quarantine # None =>
              UNCHANGED <<lifecycleVars, journal, epoch, leaseVars, schedulerVars, quarantine>>
       /\ status \in TerminalStatus => UNCHANGED lifecycleVars
       /\ status = "cancellation_requested" => status' \in {status, "cancelled"}]_vars

\* RunStore implements the abstract durable run.
Abstract == INSTANCE DurableRun WITH
    history     <- [i \in DOMAIN journal |-> journal[i].intent],
    state       <- status,
    transitions <- revision,
    term        <- epoch,
    owner       <- IF Held THEN CurrentFence ELSE ControlPlane,
    known       <- acked

\* The store behaves as the abstract durable run: one total order, every
\* event once, transitions applied once in order, one owner at a time.
ImplementsDurableRun == Abstract!DSpec

Claimable == validate_runnable /\ EpochLeft

\* A run whose worker vanished (its lease lapsed) is taken over by another
\* attempt, unless it finishes, is quarantined or runs out of epochs.
LapsedRunIsTakenOver ==
    \A n \in 0..MaxEpoch :
        (Claimable /\ epoch = n /\ Held /\ now >= lease_expires) ~> (epoch > n \/ ~Claimable)

\* A run parked by schedule_delayed_retry_wakeup is claimed again after its
\* delay: the gate opens at the very instant it names.
DelayedRunIsWoken ==
    \A n \in 0..MaxEpoch :
        (Claimable /\ epoch = n /\ not_before # NoTime) ~> (epoch > n \/ ~Claimable)
=============================================================================
