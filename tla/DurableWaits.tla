---------------------------- MODULE DurableWaits ----------------------------
(***************************************************************************)
(* Durable interrupts and timers of the runs of one tenant, and the paged  *)
(* discovery of due timers and expired interrupts.                         *)
(* crates/stateknot-store-postgres/src/store.rs, core/src/{wait,run}.rs    *)
(*                                                                         *)
(* A mutation locks its run's row, reads the clock and commits later: the  *)
(* row lock orders the mutations of one run, while those of other runs,    *)
(* the clock and the readers go on between the reading and the commit.     *)
(* A mutation's exact-head and revision checks are RunStore's; here a      *)
(* refused request is not a step.                                          *)
(***************************************************************************)
EXTENDS Integers, FiniteSets, RunLifecycle

CONSTANTS Runs,            \* run identities, ordered as UUIDs are
          Waits,           \* wait identities, ordered as UUIDs are
          Intents,         \* WaitRegistrationIntents that callers may send
          MaxTime,         \* the clock's bound
          MaxWaits,        \* RunWaits::MAX_LEN
          PageSize,        \* WaitDiscoveryPageSize
          ClockRegresses   \* whether the database clock may be set back

ASSUME IdentitiesAreOrdered == Runs \subseteq Nat /\ Waits \subseteq Nat

ASSUME BoundsArePositive ==
    MaxTime \in Nat /\ MaxWaits \in Nat \ {0} /\ PageSize \in Nat \ {0}

Time == 0..MaxTime
NoTime == -1
Never == MaxTime + 1      \* an interrupt without expires_at

\* A timer is due at .at; an interrupt expires at .at, exclusively.
Intent == [wait : Waits, kind : {"timer"}, at : Time]
          \cup [wait : Waits, kind : {"interrupt"}, at : Time \cup {Never}]

ASSUME IntentsAreIntents == Intents \subseteq Intent /\ ClockRegresses \in BOOLEAN

Kind == {"timer", "interrupt"}

VARIABLES
    now,           \* clock_timestamp()
    observed,      \* the clock as read by the mutation that holds the row lock
    status,        \* runs.lifecycle_status
    quarantined,   \* runs.quarantined_at IS NOT NULL
    head_at,       \* recorded_at of the journal head
    checkpointed,  \* whether the run has a current checkpoint
    waits,         \* RunWaits of the lifecycle document: its outstanding markers
    registration,  \* run_wait_registrations
    evidence,      \* interrupt_resolutions, timer_firings, wait_abandonments
    scan           \* one caller paging through load_*_page

vars == <<now, observed, status, quarantined, head_at, checkpointed, waits,
          registration, evidence, scan>>

-----------------------------------------------------------------------------
(* Rows. *)

NoRow == [run |-> -1, kind |-> "timer", at |-> 0, registered |-> NoTime,
          status |-> "absent"]

Row == [run : Runs, kind : Kind, at : Time \cup {Never}, registered : Time,
        status : {"outstanding", "resolved", "fired", "abandoned"}]

Evidence == [wait : Waits, how : {"resolved", "fired", "abandoned"}, at : Time]

NoKey == [at |-> NoTime, run |-> -1, wait |-> -1]

Scan == [kind : Kind, snapshot : Time \cup {NoTime}, cursor : [at : Int, run : Int, wait : Int],
         due : SUBSET Waits, seen : SUBSET Waits, repeated : BOOLEAN,
         more : BOOLEAN]

IdleScan == [kind |-> "timer", snapshot |-> NoTime, cursor |-> NoKey,
             due |-> {}, seen |-> {}, repeated |-> FALSE, more |-> FALSE]

Outstanding(r) ==
    {w \in Waits : registration[w].status = "outstanding" /\ registration[w].run = r}

-----------------------------------------------------------------------------
Init ==
    /\ now = 0
    /\ observed = [r \in Runs |-> NoTime]
    /\ status = [r \in Runs |-> "pending"]
    /\ quarantined = [r \in Runs |-> FALSE]
    /\ head_at = [r \in Runs |-> 0]
    /\ checkpointed = [r \in Runs |-> FALSE]
    /\ waits = [r \in Runs |-> {}]
    /\ registration = [w \in Waits |-> NoRow]
    /\ evidence = {}
    /\ scan = IdleScan

Tick(t) ==
    /\ t # now /\ (ClockRegresses \/ t > now)
    /\ now' = t
    /\ UNCHANGED <<observed, status, quarantined, head_at, checkpointed, waits,
                   registration, evidence, scan>>

\* begin_mutation, fetch_locked_run_row and database_now of any mutation below.
BeginMutation(r) ==
    /\ observed[r] = NoTime
    /\ observed' = [observed EXCEPT ![r] = now]
    /\ UNCHANGED <<now, status, quarantined, head_at, checkpointed, waits,
                   registration, evidence, scan>>

\* A refused mutation, or one whose connection is lost, rolls back.
Rollback(r) ==
    /\ observed[r] # NoTime
    /\ observed' = [observed EXCEPT ![r] = NoTime]
    /\ UNCHANGED <<now, status, quarantined, head_at, checkpointed, waits,
                   registration, evidence, scan>>

\* recorded_at = max(observed_at, head.recorded_at).
recorded_at(r) == IF observed[r] > head_at[r] THEN observed[r] ELSE head_at[r]

\* insert_event, update_run_head, commit.
CommitEvent(r) ==
    /\ observed[r] # NoTime
    /\ ~quarantined[r]
    /\ head_at' = [head_at EXCEPT ![r] = recorded_at(r)]
    /\ observed' = [observed EXCEPT ![r] = NoTime]
    /\ UNCHANGED <<now, quarantined, scan>>

\* append_*: an event without a lifecycle change; a waiting run accepts it.
Append(r) ==
    /\ CommitEvent(r)
    /\ UNCHANGED <<status, checkpointed, waits, registration, evidence>>

\* append_* with a transition.  prepare_projection refuses to leave "waiting"
\* (DurableWaitMutationRequired).
ChangeStatus(r, kind) ==
    /\ CommitEvent(r)
    /\ kind \notin WaitTransition
    /\ status[r] # "waiting"
    /\ transition_allowed(status[r], kind)
    /\ status' = [status EXCEPT ![r] = apply_transition(kind)]
    /\ UNCHANGED <<checkpointed, waits, registration, evidence>>

\* append_checkpoint, in any state of the run.
AppendInitialCheckpoint(r) ==
    /\ CommitEvent(r)
    /\ ~checkpointed[r]
    /\ checkpointed' = [checkpointed EXCEPT ![r] = TRUE]
    /\ UNCHANGED <<status, waits, registration, evidence>>

\* quarantine_run clears the lease and marks the row; the registrations stay.
QuarantineRun(r) ==
    /\ observed[r] # NoTime
    /\ ~quarantined[r]
    /\ quarantined' = [quarantined EXCEPT ![r] = TRUE]
    /\ observed' = [observed EXCEPT ![r] = NoTime]
    /\ UNCHANGED <<now, status, head_at, checkpointed, waits, registration,
                   evidence, scan>>

\* What every wait mutation re-checks under the lock: the lifecycle document's
\* markers are exactly the outstanding registrations.
verify_current_wait_set(r) ==
    /\ {m.wait : m \in waits[r]} = Outstanding(r)
    /\ \A m \in waits[r] : m.kind = registration[m.wait].kind /\ m.at = registration[m.wait].at

-----------------------------------------------------------------------------
(* Registration. *)

\* One to RunWaits::MAX_LEN registrations of distinct identities.
validate_wait_registration_batch(batch) ==
    /\ batch # {} /\ Cardinality(batch) <= MaxWaits
    /\ \A i, j \in batch : i.wait = j.wait => i = j

\* Mutant: a run that was asked to stop may still begin to wait.
WaitsWhileStopping(r) == status[r] \in {"active", "cancellation_requested"}

\* RunNotRunnable, and the source of RunTransition::Wait.
MayWait(r) == status[r] = "active"

\* materialize_wait_registrations, RunTransition::Wait, insert_wait_registration.
\* RunTimer::new and RunInterrupt::new want an instant after the registration.
RegisterWaits(r, batch) ==
    /\ CommitEvent(r)
    /\ MayWait(r)
    /\ validate_wait_registration_batch(batch)
    /\ verify_current_wait_set(r)
    /\ \A i \in batch : registration[i.wait] = NoRow /\ i.at > recorded_at(r)
    /\ registration' =
         [w \in Waits |->
            IF \E i \in batch : i.wait = w
            THEN LET i == CHOOSE i \in batch : i.wait = w
                 IN  [run |-> r, kind |-> i.kind, at |-> i.at,
                      registered |-> recorded_at(r), status |-> "outstanding"]
            ELSE registration[w]]
    /\ waits' = [waits EXCEPT ![r] = batch]
    /\ status' = [status EXCEPT ![r] = "waiting"]
    /\ UNCHANGED evidence

AppendInitialWaitCheckpoint(r, batch) ==
    /\ ~checkpointed[r]
    /\ RegisterWaits(r, batch)
    /\ checkpointed' = [checkpointed EXCEPT ![r] = TRUE]

\* The barrier's own conditions are Superstep's.
AppendWaitBarrier(r, batch) ==
    /\ checkpointed[r]
    /\ RegisterWaits(r, batch)
    /\ UNCHANGED checkpointed

-----------------------------------------------------------------------------
(* Ends of a wait. *)

\* resolve_interrupt and fire_timer of run.rs: the last wait wakes the run.
status_without(r, ended) ==
    IF {m \in waits[r] : m.wait \notin ended} = {}
    THEN apply_transition("resolve_interrupt")
    ELSE "waiting"

\* The event, the terminal evidence (one row per wait and table), the
\* registration's terminal projection and the lifecycle document.
EndWaits(r, ended, how, next) ==
    /\ CommitEvent(r)
    /\ verify_current_wait_set(r)
    /\ \A w \in ended : ~\E e \in evidence : e.wait = w /\ e.how = how
    /\ evidence' = evidence \cup {[wait |-> w, how |-> how, at |-> recorded_at(r)] : w \in ended}
    /\ registration' = [w \in Waits |->
                          IF w \in ended THEN [registration[w] EXCEPT !.status = how]
                                         ELSE registration[w]]
    /\ waits' = [waits EXCEPT ![r] = {m \in @ : m.wait \notin ended}]
    /\ status' = [status EXCEPT ![r] = next]
    /\ UNCHANGED checkpointed

\* InterruptResolution::commit: an interrupt is resolved before its expiry.
ResolvableAt(w, t) == t < registration[w].at

\* TimerFiring::commit: a timer fires at its due instant or later.
FireableAt(w, t) == t >= registration[w].at

\* commit_interrupt_resolution.
ResolveInterrupt(r, w) ==
    /\ status[r] = "waiting"
    /\ w \in Outstanding(r) /\ registration[w].kind = "interrupt"
    /\ ResolvableAt(w, recorded_at(r))
    /\ EndWaits(r, {w}, "resolved", status_without(r, {w}))

\* commit_timer_firing.
FireTimer(r, w) ==
    /\ status[r] = "waiting"
    /\ w \in Outstanding(r) /\ registration[w].kind = "timer"
    /\ FireableAt(w, recorded_at(r))
    /\ EndWaits(r, {w}, "fired", status_without(r, {w}))

\* Mutant: every registration of the run is abandoned, ended ones too.
AbandonsEndedWaits(r, kind) ==
    /\ kind \in {"request_cancellation", "fail"}
    /\ status[r] = "waiting"
    /\ LET all == {w \in Waits : registration[w].run = r}
       IN  EndWaits(r, all, "abandoned", apply_transition(kind))

\* Mutant: only interrupts are abandoned, timers are left to fire.
AbandonsInterrupts(r, kind) ==
    /\ kind \in {"request_cancellation", "fail"}
    /\ status[r] = "waiting"
    /\ LET all == {w \in Outstanding(r) : registration[w].kind = "interrupt"}
       IN  EndWaits(r, all, "abandoned", apply_transition(kind))

\* commit_wait_abandonment: cancellation or failure ends every outstanding wait.
AbandonWaits(r, kind) ==
    /\ kind \in {"request_cancellation", "fail"}
    /\ status[r] = "waiting"
    /\ Outstanding(r) # {} /\ Cardinality(Outstanding(r)) = Cardinality(waits[r])
    /\ EndWaits(r, Outstanding(r), "abandoned", apply_transition(kind))

-----------------------------------------------------------------------------
(* Discovery: load_due_timer_page and load_expired_interrupt_page. *)

Key(w) == [at |-> registration[w].at, run |-> registration[w].run, wait |-> w]

\* wait_discovery_key_after, and the row comparison of the page queries.
wait_discovery_key_after(k, c) ==
    \/ k.at > c.at
    \/ k.at = c.at /\ k.run > c.run
    \/ k.at = c.at /\ k.run = c.run /\ k.wait > c.wait

\* The outstanding waits of a kind at or past their instant at the cutoff.
DueRows(kind, snapshot) ==
    {w \in Waits : /\ registration[w].status = "outstanding" /\ registration[w].kind = kind
                   /\ registration[w].at <= snapshot}

\* Mutant: the cursor compares instants only.
RowsAfterInstant(kind, snapshot, cursor) ==
    {w \in DueRows(kind, snapshot) : registration[w].at > cursor.at}

\* ORDER BY at, run_id, wait_id LIMIT page_size; one row more tells has_more.
RowsAfter(kind, snapshot, cursor) ==
    {w \in DueRows(kind, snapshot) : wait_discovery_key_after(Key(w), cursor)}

Page(rows) ==
    {w \in rows : Cardinality({v \in rows : wait_discovery_key_after(Key(w), Key(v))}) < PageSize}

LastKey(page) ==
    Key(CHOOSE w \in page : \A v \in page : v = w \/ wait_discovery_key_after(Key(w), Key(v)))

\* load_discovery_wait_owner: anything else is reported as corrupt data.
load_discovery_wait_owner(r) ==
    status[r] = "waiting" /\ ~quarantined[r] /\ verify_current_wait_set(r)

PageReadable(kind, snapshot, cursor) ==
    \A w \in Page(RowsAfter(kind, snapshot, cursor)) :
        load_discovery_wait_owner(registration[w].run)

\* One page as a repeatable-read snapshot: its records, the next cursor and
\* whether there are more.  A failed page leaves the caller where it was.
LoadPage(kind, snapshot, cursor, due, seen) ==
    LET rows == RowsAfter(kind, snapshot, cursor)
        page == Page(rows)
    IN  /\ PageReadable(kind, snapshot, cursor)
        /\ scan' = [kind |-> kind, snapshot |-> snapshot,
                    cursor |-> IF page = {} THEN cursor ELSE LastKey(page),
                    due |-> due, seen |-> seen \cup page,
                    repeated |-> page \cap seen # {}, more |-> page # rows]
        /\ UNCHANGED <<now, observed, status, quarantined, head_at, checkpointed,
                       waits, registration, evidence>>

\* The first page fixes the cutoff at the transaction's start.
FirstPage(kind) ==
    /\ ~scan.more
    /\ LoadPage(kind, now, NoKey, DueRows(kind, now), {})

\* A later page keeps it, and fails if the clock is behind it
\* (DatabaseClockRegression).
NextPage ==
    /\ scan.more
    /\ now >= scan.snapshot
    /\ LoadPage(scan.kind, scan.snapshot, scan.cursor, scan.due, scan.seen)

\* A caller may drop its cursor.
AbandonScan ==
    /\ scan.more
    /\ scan' = IdleScan
    /\ UNCHANGED <<now, observed, status, quarantined, head_at, checkpointed, waits,
                   registration, evidence>>

-----------------------------------------------------------------------------
Next ==
    \/ \E t \in Time : Tick(t)
    \/ \E r \in Runs :
         \/ BeginMutation(r) \/ Rollback(r) \/ Append(r)
         \/ AppendInitialCheckpoint(r) \/ QuarantineRun(r)
         \/ \E kind \in TransitionKind : ChangeStatus(r, kind) \/ AbandonWaits(r, kind)
         \/ \E batch \in SUBSET Intents :
              AppendInitialWaitCheckpoint(r, batch) \/ AppendWaitBarrier(r, batch)
         \/ \E w \in Waits : ResolveInterrupt(r, w) \/ FireTimer(r, w)
    \/ \E kind \in Kind : FirstPage(kind)
    \/ NextPage
    \/ AbandonScan

Spec == Init /\ [][Next]_vars

-----------------------------------------------------------------------------
(* Properties. *)

\* Every variable holds a value of its column's type, the CHECK on
\* unresolved_wait_count included.
TypeOK ==
    /\ now \in Time
    /\ observed \in [Runs -> Time \cup {NoTime}]
    /\ status \in [Runs -> RunStatus]
    /\ quarantined \in [Runs -> BOOLEAN]
    /\ head_at \in [Runs -> Time]
    /\ checkpointed \in [Runs -> BOOLEAN]
    /\ waits \in [Runs -> SUBSET Intents]
    /\ \A r \in Runs : Cardinality(waits[r]) <= MaxWaits
    /\ registration \in [Waits -> Row \cup {NoRow}]
    /\ evidence \subseteq Evidence
    /\ scan \in Scan

\* The lifecycle document and the registration table are written by different
\* statements of six handlers, and verify_current_wait_set reports a
\* disagreement as corruption, which blocks the run for good.  They always
\* agree, and a run waits exactly while something is outstanding: no run is
\* woken while a wait is left, none sleeps with nothing to wake it, and none
\* that was cancelled or failed keeps a wait that could still fire.
WaitSetAgrees ==
    \A r \in Runs :
        /\ verify_current_wait_set(r)
        /\ status[r] = "waiting" <=> Outstanding(r) # {}

\* A wait ends at most once, whatever resolutions, firings and abandonments
\* race for it: it has terminal evidence exactly when its registration is no
\* longer outstanding, of that one kind, dated no earlier than its
\* registration, before an interrupt's expiry and not before a timer's due
\* instant (the CHECK constraint run_wait_registrations_terminal_shape).
EndsOnce ==
    \A w \in Waits :
        LET ends == {e \in evidence : e.wait = w}
            row  == registration[w]
        IN  IF row.status \in {"absent", "outstanding"} THEN ends = {}
            ELSE \E e \in ends :
                   /\ ends = {e}
                   /\ e.how = row.status
                   /\ e.at >= row.registered
                   /\ row.status = "resolved" => e.at < row.at
                   /\ row.status = "fired" => e.at >= row.at

\* A run whose waits were abandoned has stopped waiting for good: one event
\* abandoned all that were outstanding, no other of its waits ends later, none
\* is registered after it, and the run never becomes active again
\* (commit_wait_abandonment, append_wait_barrier: RunNotRunnable).
AbandonmentIsLast ==
    \A a \in evidence : a.how = "abandoned" =>
        LET r == registration[a.wait].run
        IN  /\ status[r] \in {"cancellation_requested", "cancelled", "failed"}
            /\ \A w \in Waits : registration[w].run = r =>
                    registration[w].status # "outstanding" /\ registration[w].registered <= a.at
            /\ \A e \in evidence : registration[e.wait].run = r => e.at <= a.at

\* A scan returns no wait twice, and when it ends it has returned every wait
\* that was due at its cutoff when it began and is still outstanding, whatever
\* was registered, ended or re-dated between its pages.
ScanIsExact ==
    /\ ~scan.repeated
    /\ ~scan.more => \A w \in scan.due : registration[w].status = "outstanding"
                                           => w \in scan.seen

\* load_due_timer_page: "New registrations cannot enter an existing cutoff
\* because a timer's due instant is strictly after its registration
\* observation."
CutoffIsClosed ==
    [][\A w \in Waits :
         (scan.more /\ registration[w] = NoRow /\ registration'[w] # NoRow)
            => registration'[w].at > scan.snapshot]_vars

\* load_due_timer_page: "Loads one fixed-database-cutoff page of outstanding
\* timers whose due instant has been reached."  Nothing here is corrupt, so the
\* first page of a tenant can always be read.
DiscoveryIsReadable == \A kind \in Kind : PageReadable(kind, now, NoKey)
=============================================================================
