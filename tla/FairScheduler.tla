--------------------------- MODULE FairScheduler ----------------------------
(***************************************************************************)
(* The weighted cross-tenant scheduler of one shard: the compiled cycle    *)
(* (crates/stateknot-runtime/src/fair_scheduler.rs) and the durable cursor *)
(* its replicas share (crates/stateknot-store-postgres/src/store.rs).      *)
(*                                                                         *)
(* A tick reserves one slot with an identity of its own.  Its request is a *)
(* transaction that looks the identity up, waits for the cursor's row lock *)
(* and looks again; the replica may give a request up and send it again    *)
(* while the first one still waits for the lock.                           *)
(***************************************************************************)
EXTENDS Integers, Sequences, FiniteSets, FiniteSetsExt

CONSTANTS Replicas,      \* scheduler replicas
          Tenants,       \* 1..n, in the order of their identifiers
          Policies,      \* the weights, [Tenants -> 1..MAX_WEIGHT], replicas may be given
          None,
          MaxTicks,      \* bound on ticks
          MaxRequests,   \* maximum_reservation_attempts
          MaxPending,    \* connections of the pool
          MaxWeight,     \* the bound on the weights whose cycles are compared
          MaxTime,       \* the clock's bound
          RetainFor,     \* SchedulerFairnessRetentionPolicy::retain_for
          ClockRegresses \* whether the database clock may be set back

ASSUME TenantsAreIndices == Tenants = 1..Cardinality(Tenants) /\ Tenants # {}

ASSUME PoliciesAreWeights ==
    MaxWeight \in Nat /\ \A p \in Policies : p \in [Tenants -> Nat \ {0}]

-----------------------------------------------------------------------------
(* WeightedFairnessPolicy::new *)

cycle_length(p) == FoldSet(LAMBDA t, sum : p[t] + sum, 0, Tenants)

\* compile_smooth_cycle: everybody gains its weight, the first of the highest
\* scores is selected and pays the total.
compile_smooth_cycle(p) ==
    LET total == cycle_length(p)
        Raised(score) == [t \in Tenants |-> score[t] + p[t]]
        Selected(score) == Min({t \in Tenants : \A u \in Tenants : score[u] <= score[t]})
        Rounds[n \in 0..total] ==
            IF n = 0 THEN [score |-> [t \in Tenants |-> 0], cycle |-> <<>>]
            ELSE LET before == Rounds[n - 1]
                     raised == Raised(before.score)
                     chosen == Selected(raised)
                 IN  [score |-> [raised EXCEPT ![chosen] = @ - total],
                      cycle |-> Append(before.cycle, chosen)]
    IN  Rounds[total].cycle

Positions(cycle, t) == {i \in DOMAIN cycle : cycle[i] = t}

verify_cycle_counts(p, cycle) == \A t \in Tenants : Cardinality(Positions(cycle, t)) = p[t]

\* The position after i at which t is selected, in this turn of the cycle or the next.
NextPosition(cycle, t, i) ==
    LET later == {j \in Positions(cycle, t) : j > i}
    IN  IF later # {} THEN Min(later) ELSE Min(Positions(cycle, t)) + Len(cycle)

\* Mutant: the gap across the end of the cycle is forgotten.
GapsWithinCycle(cycle, t) ==
    Max({1} \cup {NextPosition(cycle, t, i) - i : i \in Positions(cycle, t) \ {Max(Positions(cycle, t))}})

\* derive_starvation_bounds: the largest circular gap between selections of t.
starvation_bound(cycle, t) ==
    Max({NextPosition(cycle, t, i) - i : i \in Positions(cycle, t)})

\* A policy is compiled once.
Compiled == [p \in Policies |->
    LET cycle == compile_smooth_cycle(p)
    IN  [cycle |-> cycle,
         length |-> Len(cycle),
         verified |-> verify_cycle_counts(p, cycle),
         bound |-> [t \in Tenants |-> starvation_bound(cycle, t)]]]

-----------------------------------------------------------------------------
VARIABLES
    now,           \* clock_timestamp()
    shard,         \* the scheduler_fairness_shards row, or None
    reservations,  \* scheduler_fairness_reservations
    local,         \* per replica: the policy it registered, or None
    tick,          \* per replica: the tick it is in, or None
    pending,       \* transactions waiting for the cursor lock
    issued,        \* number of SchedulerReservationIds generated
    log,           \* history: what each advance of the cursor reserved
    told           \* history: the last reservation a tick was told, or None

vars == <<now, shard, reservations, local, tick, pending, issued, log, told>>

Time == 0..MaxTime

Init ==
    /\ now \in Time
    /\ shard = None /\ reservations = {}
    /\ local = [r \in Replicas |-> None] /\ tick = [r \in Replicas |-> None]
    /\ pending = {} /\ issued = 0 /\ log = <<>> /\ told = None

\* The clock of the database; requests do not outlive the retention window.
Clock(t) ==
    /\ t # now /\ (t > now \/ ClockRegresses)
    /\ \A q \in pending : t <= q.since + RetainFor
    /\ \A r \in Replicas : tick[r] # None => t <= tick[r].since + RetainFor
    /\ now' = t
    /\ UNCHANGED <<shard, reservations, local, tick, pending, issued, log, told>>

\* decode_scheduler_fairness_policy
Decodes(row) == row.next_slot < Compiled[row.policy].length /\ row.updated_at >= row.registered_at

\* Mutant: ON CONFLICT DO NOTHING without the comparison that follows it.
RegistersAnything(r, p) ==
    /\ local[r] = None
    /\ shard' = IF shard # None THEN shard
                ELSE [policy |-> p, next_slot |-> 0, next_sequence |-> 0,
                      registered_at |-> now, updated_at |-> now]
    /\ local' = [local EXCEPT ![r] = p]
    /\ UNCHANGED <<now, reservations, tick, pending, issued, log, told>>

\* register_scheduler_fairness_policy, called by DurableFairScheduler::register:
\* the first policy of the shard is its policy for ever.
Register(r, p) ==
    /\ local[r] = None
    /\ Compiled[p].verified
    /\ \/ /\ shard = None
          /\ shard' = [policy |-> p, next_slot |-> 0, next_sequence |-> 0,
                       registered_at |-> now, updated_at |-> now]
       \/ /\ shard # None
          /\ Decodes(shard) /\ shard.policy = p
          /\ UNCHANGED shard
    /\ local' = [local EXCEPT ![r] = p]
    /\ UNCHANGED <<now, reservations, tick, pending, issued, log, told>>

\* A replica crashes and is started again; its requests remain.
Restart(r) ==
    /\ local[r] # None
    /\ local' = [local EXCEPT ![r] = None] /\ tick' = [tick EXCEPT ![r] = None]
    /\ UNCHANGED <<now, shard, reservations, pending, issued, log, told>>

\* tick_inner allocates one reservation identity, under the policy's digest.
BeginTick(r) ==
    /\ local[r] # None /\ tick[r] = None
    /\ issued < MaxTicks
    /\ issued' = issued + 1
    /\ tick' = [tick EXCEPT ![r] = [id |-> issued + 1, policy |-> local[r], sent |-> 0, since |-> now]]
    /\ UNCHANGED <<now, shard, reservations, local, pending, log, told>>

\* The retries are used up.
GiveUp(r) ==
    /\ tick[r] # None /\ tick[r].sent = MaxRequests
    /\ tick' = [tick EXCEPT ![r] = None]
    /\ UNCHANGED <<now, shard, reservations, local, pending, issued, log, told>>

\* Mutant: a retry is a reservation of its own.
FreshIdentity(r) == [tick[r] EXCEPT !.id = issued + tick[r].sent, !.sent = @ + 1]

\* A retry sends the same identity.
NextRequest(r) == [tick[r] EXCEPT !.sent = @ + 1]

\* A request starts; its first lookup finds nothing and it waits for the lock.
Request(r) ==
    /\ tick[r] # None /\ tick[r].sent < MaxRequests
    /\ Cardinality(pending) < MaxPending
    /\ LET q == NextRequest(r)
       IN  /\ \A x \in reservations : x.id # q.id
           /\ tick' = [tick EXCEPT ![r] = q]
           /\ pending' = pending \cup {q}
    /\ UNCHANGED <<now, shard, reservations, local, issued, log, told>>

\* The tick is told its reservation and goes on to its tenant's queue.
Answer(r, x) ==
    /\ tick' = [tick EXCEPT ![r] = None]
    /\ told' = [id |-> x.id, sequence |-> x.sequence, slot |-> x.slot]

\* The first lookup of a retry finds the reservation.
Recover(r) ==
    /\ tick[r] # None /\ tick[r].sent \in 1..(MaxRequests - 1)
    /\ \E x \in reservations : x.id = NextRequest(r).id /\ Answer(r, x)
    /\ UNCHANGED <<now, shard, reservations, local, pending, issued, log>>

next_slot(row) ==
    IF row.next_slot + 1 = Compiled[row.policy].length THEN 0 ELSE row.next_slot + 1

\* insert_scheduler_fairness_reservation and the cursor's advance.  MaxTicks
\* stays far below the sequence at which it reports exhaustion, i64::MAX.
Insert(q) ==
    /\ Decodes(shard) /\ shard.policy = q.policy
    /\ reservations' = reservations \cup
           {[id |-> q.id, sequence |-> shard.next_sequence, slot |-> shard.next_slot, at |-> now]}
    /\ shard' = [shard EXCEPT !.next_slot = next_slot(shard), !.next_sequence = @ + 1,
                              !.updated_at = now]
    /\ log' = Append(log, [id |-> q.id, slot |-> shard.next_slot])

\* reserve_scheduler_fairness_slot under the cursor lock: the identity is looked
\* up again, since a request with it may have committed meanwhile.
Reserve(q) ==
    /\ pending' = pending \ {q}
    /\ IF \E x \in reservations : x.id = q.id
       THEN UNCHANGED <<shard, reservations, log>>
       ELSE Insert(q)
    /\ \/ UNCHANGED <<tick, told>>               \* the acknowledgement is lost or late
       \/ \E r \in Replicas, x \in reservations' : tick[r] = q /\ x.id = q.id /\ Answer(r, x)
    /\ UNCHANGED <<now, local, issued>>

\* Mutant: evidence is kept for no time at all.
PrunesAtOnce(x) == x.at <= now

Prunable(x) == x.at < now - RetainFor

\* prune_scheduler_fairness_reservations: a batch, rows in use skipped.
Prune ==
    /\ \E batch \in SUBSET {x \in reservations : Prunable(x)} :
           batch # {} /\ reservations' = reservations \ batch
    /\ UNCHANGED <<now, shard, local, tick, pending, issued, log, told>>

Next ==
    \/ \E t \in Time : Clock(t)
    \/ \E r \in Replicas :
         \/ \E p \in Policies : Register(r, p)
         \/ Restart(r) \/ BeginTick(r) \/ GiveUp(r) \/ Request(r) \/ Recover(r)
    \/ \E q \in pending : Reserve(q)
    \/ Prune

Spec == Init /\ [][Next]_vars

-----------------------------------------------------------------------------
(* Properties. *)

\* Every variable has its type, the cursor stays inside the cycle (the table's
\* cursor_valid constraint) and it counts its advances.
TypeOK ==
    /\ now \in Time /\ issued \in 0..MaxTicks
    /\ shard # None =>
         /\ shard.policy \in Policies
         /\ shard.next_slot \in 0..(Compiled[shard.policy].length - 1)
         /\ shard.next_sequence = Len(log)
    /\ \A r \in Replicas : local[r] \in Policies \cup {None}

\* "A retry with the same reservation ID returns the original sequence and slot
\* without advancing the shard cursor twice": no identity is behind two advances
\* of the cursor, there are never more advances than ticks, and every answer to a
\* tick is the advance its identity made.  The replicas that schedule agree on the
\* policy, whatever they were deployed with, so that the slot names one tenant.
OneSlotPerTick ==
    /\ \A i, j \in DOMAIN log : log[i].id = log[j].id => i = j
    /\ Len(log) <= issued
    /\ told # None =>
         /\ told.sequence + 1 \in DOMAIN log
         /\ log[told.sequence + 1] = [id |-> told.id, slot |-> told.slot]
    /\ \A r \in Replicas : local[r] # None => local[r] = shard.policy

Cycle == Compiled[shard.policy].cycle

\* The tenant the n-th advance selected (tenant_for_slot).
Chosen(n) == Cycle[log[n].slot + 1]

\* The tenant of the n-th slot of a cycle repeated for ever.
Repeated(cycle, n) == cycle[((n - 1) % Len(cycle)) + 1]

\* What a compiled policy promises: each tenant has its weight's share of the
\* cycle, is selected within its starvation bound wherever one starts to count,
\* and the bound is the least that promises this.
IsFair(p) ==
    LET cycle == compile_smooth_cycle(p)
    IN  /\ Len(cycle) = cycle_length(p) /\ verify_cycle_counts(p, cycle)
        /\ \A t \in Tenants :
             LET b == starvation_bound(cycle, t)
             IN  /\ \A n \in DOMAIN cycle : \E i \in n..(n + b - 1) : Repeated(cycle, i) = t
                 /\ \E n \in DOMAIN cycle : \A i \in n..(n + b - 2) : Repeated(cycle, i) # t

EveryWeightingIsFair == \A p \in [Tenants -> 1..MaxWeight] : IsFair(p)

\* The configured ratio is exact over every full cycle of reservations, and a
\* tenant is selected within its starvation bound wherever one starts to count,
\* whatever replicas reserve, restart or retry; the cycle of every weighting up to
\* MaxWeight would do the same (reserve_scheduler_fairness_slot,
\* derive_starvation_bounds).
StarvationBoundIsExact ==
    /\ EveryWeightingIsFair
    /\ shard # None =>
        /\ \A n \in 0..(Len(log) - Compiled[shard.policy].length) : \A t \in Tenants :
             Cardinality({i \in (n + 1)..(n + Compiled[shard.policy].length) : Chosen(i) = t})
                = shard.policy[t]
        /\ \A t \in Tenants :
             LET b == Compiled[shard.policy].bound[t]
             IN  \A n \in 0..(Len(log) - b) : \E i \in (n + 1)..(n + b) : Chosen(i) = t

\* error.rs: CorruptData means "Durable bytes or redundant columns failed closed
\* validation".  The shard's own row, which only the store wrote, decodes.
ShardDecodes == shard # None => Decodes(shard)
=============================================================================
