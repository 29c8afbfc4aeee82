------------------------------- MODULE Outbox -------------------------------
(***************************************************************************)
(* The transactional outbox of one tenant: deliveries that were enqueued   *)
(* with a journal event are claimed, attempted and completed by any number *)
(* of dispatchers.  crates/stateknot-store-postgres/src/store.rs and, for  *)
(* the pure verifier, crates/stateknot-core/src/outbox.rs.                 *)
(*                                                                         *)
(* A dispatcher is not modelled beyond its requests: it may vanish after a *)
(* claim, complete late, twice, or with another outcome after its answer   *)
(* was lost.  The database clock may jump both ways, which also covers a   *)
(* claim that read the clock before other transactions committed.  Queries *)
(* use FOR UPDATE SKIP LOCKED: a row some other transaction has locked     *)
(* (even one that is then rejected) or that is beyond the LIMIT is passed  *)
(* over by one statement and may be seen by the next.                      *)
(***************************************************************************)
EXTENDS Integers, Sequences, SequencesExt

CONSTANTS Deliveries,   \* delivery identities (DeliveryId)
          Attempts,     \* physical attempt identities (AttemptId)
          None,         \* SQL NULL
          MaxTime,      \* the clock's bound
          Lease,        \* PostgresStoreOptions::outbox_attempt_lease_duration
          MaxAttempts,  \* MAX_OUTBOX_ATTEMPTS
          MaxDelay      \* the longest retry delay a failure advises

ASSUME NoneIsNoAttempt == None \notin Attempts

ASSUME OutboxBounds ==
    /\ MaxTime \in Nat /\ MaxDelay \in Nat
    /\ Lease \in Nat \ {0} /\ MaxAttempts \in Nat \ {0}

Time == 0..MaxTime
NoTime == -1

VARIABLES
    now,       \* clock_timestamp()
    delivery,  \* the immutable OutboxDelivery of every identity, or None
    row,       \* its mutable columns in outbox_deliveries
    attempts,  \* its outbox_attempts, each with its completion or None
    told       \* history: every completion a dispatcher was told is committed

vars == <<now, delivery, row, attempts, told>>

-----------------------------------------------------------------------------
(* Records. *)

Acknowledged == [kind |-> "acknowledged", delay |-> 0]
Never        == [kind |-> "never", delay |-> 0]
SafeAfter(n) == [kind |-> "safe_after", delay |-> n]

\* OutboxAttemptOutcome with its RetryAdvice; ReconcileFirst is always refused.
Outcome == {Acknowledged, Never} \cup {SafeAfter(n) : n \in 0..MaxDelay}

Completion == [outcome : Outcome, at : Time]

Attempt == [id : Attempts, started : Time, expires : Nat, completion : Completion \cup {None}]

OutboxDelivery == [recorded_at : Time, expires_at : Nat]

ActiveStatus   == {"pending", "delivering", "retry_scheduled"}
TerminalStatus == {"acknowledged", "dead_letter", "expired"}

Row == [status : ActiveStatus \cup TerminalStatus \cup {"absent"},
        attempt_count : 0..MaxAttempts, attempt_id : Attempts \cup {None},
        started : Time \cup {NoTime}, expires : Nat \cup {NoTime},
        next_at : Nat \cup {NoTime}, last : Completion \cup {None},
        terminal_at : Nat \cup {NoTime}, updated_at : Nat \cup {NoTime}]

NoRow == [status |-> "absent", attempt_count |-> 0, attempt_id |-> None,
          started |-> NoTime, expires |-> NoTime, next_at |-> NoTime, last |-> None,
          terminal_at |-> NoTime, updated_at |-> NoTime]

Enqueued == {d \in Deliveries : delivery[d] # None}

UsedAttempts == {attempts[d][i].id : <<d, i>> \in {<<d, i>> \in Deliveries \X (1..MaxAttempts) :
                                                      i \in DOMAIN attempts[d]}}

Min2(a, b) == IF a <= b THEN a ELSE b

-----------------------------------------------------------------------------
(* The pure verifier: crates/stateknot-core/src/outbox.rs. *)

retry_eligible_at(c) == c.at + c.outcome.delay

\* validate_attempt_start
StartFits(dl, a) ==
    /\ dl.recorded_at <= a.started
    /\ a.started < dl.expires_at
    /\ a.started < a.expires
    /\ a.expires <= dl.expires_at

\* validate_attempt_completion
CompletionFits(a) ==
    a.completion # None => a.started <= a.completion.at /\ a.completion.at < a.expires

\* validate_attempt_successor
Succeeds(prev, next) ==
    IF prev.completion = None
    THEN prev.expires <= next.started
    ELSE /\ prev.completion.outcome.kind = "safe_after"
         /\ retry_eligible_at(prev.completion) <= next.started

\* OutboxAttemptHistoryVerifier::verify_next over the whole history.
HistoryVerifies(dl, hist) ==
    /\ Len(hist) <= MaxAttempts
    /\ \A i \in DOMAIN hist : StartFits(dl, hist[i]) /\ CompletionFits(hist[i])
    /\ \A i, j \in DOMAIN hist : hist[i].id = hist[j].id => i = j
    /\ \A i \in 1..Len(hist) - 1 : Succeeds(hist[i], hist[i + 1])

\* The latest fact of a history: no observation may precede it.
latest_at(dl, hist) ==
    IF hist = <<>> THEN dl.recorded_at
    ELSE LET a == Last(hist) IN IF a.completion = None THEN a.started ELSE a.completion.at

\* OutboxAttemptHistoryVerifier::status_at; "regressed" is its clock error.
status_at(dl, hist, t) ==
    LET a         == Last(hist)
        open      == hist # <<>> /\ a.completion = None
        completed == hist # <<>> /\ a.completion # None
        spent     == Len(hist) = MaxAttempts
    IN CASE t < latest_at(dl, hist) -> "regressed"
         [] completed /\ a.completion.outcome.kind = "acknowledged" -> "acknowledged"
         [] completed /\ (a.completion.outcome.kind = "never" \/ spent) -> "dead_letter"
         [] open /\ spent /\ t >= a.expires ->
                IF a.expires < dl.expires_at THEN "dead_letter" ELSE "expired"
         [] OTHER ->
                IF t >= dl.expires_at THEN "expired"
                ELSE IF open /\ t < a.expires THEN "delivering"
                ELSE IF completed /\ t < retry_eligible_at(a.completion) THEN "retry_scheduled"
                ELSE "pending"

-----------------------------------------------------------------------------
(* What the store accepts as a decodable row. *)

\* verify_outbox_current_attempt_projection; without attempts all NULL.
CurrentAttemptMatches(r, hist) ==
    IF hist = <<>>
    THEN r.attempt_id = None /\ r.started = NoTime /\ r.expires = NoTime
    ELSE r.attempt_id = Last(hist).id /\ r.started = Last(hist).started
            /\ r.expires = Last(hist).expires

\* verify_initial_outbox_projection
InitialVerifies(r, dl) ==
    /\ r.status = "pending" /\ r.next_at = dl.recorded_at
    /\ r.last = None /\ r.terminal_at = NoTime /\ r.updated_at = dl.recorded_at

\* verify_expired_outbox_projection
ExpiredVerifies(r, dl, hist) ==
    /\ status_at(dl, hist, dl.expires_at) = "expired"
    /\ r.next_at = NoTime /\ r.terminal_at = dl.expires_at /\ r.updated_at = dl.expires_at
    /\ r.last = IF hist = <<>> THEN None ELSE Last(hist).completion

\* The last attempt is open: delivering, or reaped at the attempt limit.
OpenVerifies(r, dl, a) ==
    /\ r.last = None
    /\ \/ /\ r.status = "delivering" /\ r.next_at = a.expires
          /\ r.terminal_at = NoTime /\ r.updated_at = a.started
       \/ /\ r.attempt_count = MaxAttempts /\ a.expires < dl.expires_at
          /\ r.status = "dead_letter" /\ r.next_at = NoTime
          /\ r.terminal_at = a.expires /\ r.updated_at = a.expires

\* The last attempt is completed: acknowledged, dead-lettered or to be retried.
CompletedVerifies(r, c) ==
    /\ r.last = c /\ r.updated_at = c.at
    /\ IF c.outcome.kind = "safe_after" /\ r.attempt_count < MaxAttempts
       THEN /\ r.status = "retry_scheduled"
            /\ r.next_at = retry_eligible_at(c) /\ r.terminal_at = NoTime
       ELSE /\ r.status = IF c.outcome.kind = "acknowledged" THEN "acknowledged" ELSE "dead_letter"
            /\ r.next_at = NoTime /\ r.terminal_at = c.at

\* verify_outbox_projection_records
ProjectionVerifies(r, dl, hist) ==
    /\ r.attempt_count = Len(hist)
    /\ CurrentAttemptMatches(r, hist)
    /\ CASE r.status = "expired"         -> ExpiredVerifies(r, dl, hist)
         [] r.status # "expired" /\ hist = <<>> -> InitialVerifies(r, dl)
         [] OTHER -> IF Last(hist).completion = None
                     THEN OpenVerifies(r, dl, Last(hist))
                     ELSE CompletedVerifies(r, Last(hist).completion)

\* verify_outbox_projection: what every locked read of a delivery demands.
Readable(d) ==
    /\ HistoryVerifies(delivery[d], attempts[d])
    /\ ProjectionVerifies(row[d], delivery[d], attempts[d])

-----------------------------------------------------------------------------
(* The row updates. *)

\* insert_outbox_delivery
InitialRow(recorded) ==
    [NoRow EXCEPT !.status = "pending", !.next_at = recorded, !.updated_at = recorded]

\* reap_outbox_terminals, first statement: an abandoned last attempt.
AttemptLimitReached(r, dl) ==
    /\ r.status = "delivering"
    /\ r.attempt_count = MaxAttempts
    /\ r.last = None
    /\ r.expires <= now
    /\ r.expires < dl.expires_at

\* Mutant: the deadline reap does not look at the status.
ExpireAnything(r, dl) == dl.expires_at <= now

\* Mutant: the deadline reap covers deliveries that were never claimed only.
ExpirePendingOnly(r, dl) == r.status = "pending" /\ dl.expires_at <= now

\* reap_outbox_terminals, second statement: the delivery's deadline.
DeadlinePassed(r, dl) == r.status \in ActiveStatus /\ dl.expires_at <= now

Terminal(r, status, at) ==
    [r EXCEPT !.status = status, !.next_at = NoTime, !.terminal_at = at, !.updated_at = at]

\* reap_outbox_terminals: held1 and held2 are the rows its two statements pass
\* over (locked by another transaction, or beyond the batch of 64).
reap_outbox_terminals(held1, held2) ==
    LET first(d) ==
            IF d \in Enqueued \ held1 /\ AttemptLimitReached(row[d], delivery[d])
            THEN Terminal(row[d], "dead_letter", row[d].expires) ELSE row[d]
    IN [d \in Deliveries |->
            IF d \in Enqueued \ held2 /\ DeadlinePassed(first(d), delivery[d])
            THEN Terminal(first(d), "expired", delivery[d].expires_at) ELSE first(d)]

\* Mutant: the candidate query looks at the row's status only, not at its schedule.
ReadyByStatus(r, dl, t) ==
    r.status \in ActiveStatus /\ r.attempt_count < MaxAttempts /\ t < dl.expires_at

\* SELECT_OUTBOX_CLAIM_CANDIDATE
ClaimCandidate(r, dl, t) ==
    /\ r.status \in ActiveStatus
    /\ r.attempt_count < MaxAttempts
    /\ r.next_at <= t
    /\ t < dl.expires_at

\* OutboxAttemptStart::new as claim_outbox_delivery calls it.
StartAttempt(dl, attempt) ==
    [id |-> attempt, started |-> now, expires |-> Min2(now + Lease, dl.expires_at),
     completion |-> None]

update_outbox_delivery_claim(r, a) ==
    [r EXCEPT !.status = "delivering", !.attempt_count = @ + 1, !.attempt_id = a.id,
              !.started = a.started, !.expires = a.expires, !.next_at = a.expires,
              !.last = None, !.terminal_at = NoTime, !.updated_at = a.started]

\* Mutant: the attempt limit is not looked at: the last failure schedules a retry.
RetryForever(r, c) ==
    IF c.outcome.kind = "safe_after"
    THEN [r EXCEPT !.status = "retry_scheduled", !.next_at = retry_eligible_at(c),
                   !.last = c, !.updated_at = c.at]
    ELSE [Terminal(r, IF c.outcome.kind = "acknowledged" THEN "acknowledged" ELSE "dead_letter", c.at)
             EXCEPT !.last = c]

update_outbox_delivery_completion(r, c) ==
    IF c.outcome.kind = "safe_after" /\ r.attempt_count < MaxAttempts
    THEN [r EXCEPT !.status = "retry_scheduled", !.next_at = retry_eligible_at(c),
                   !.last = c, !.updated_at = c.at]
    ELSE [Terminal(r, IF c.outcome.kind = "acknowledged" THEN "acknowledged" ELSE "dead_letter", c.at)
             EXCEPT !.last = c]

-----------------------------------------------------------------------------
(* The operations. *)

Init ==
    /\ now = 0
    /\ delivery = [d \in Deliveries |-> None]
    /\ row = [d \in Deliveries |-> NoRow]
    /\ attempts = [d \in Deliveries |-> <<>>]
    /\ told = {}

\* append_with_outbox for one of the event's deliveries.  recorded is the
\* event's time, which is ahead of a clock that jumped back.
Enqueue(d, recorded, expires_at) ==
    /\ delivery[d] = None
    /\ now <= recorded
    /\ recorded < expires_at
    /\ delivery' = [delivery EXCEPT ![d] = [recorded_at |-> recorded, expires_at |-> expires_at]]
    /\ row' = [row EXCEPT ![d] = InitialRow(recorded)]
    /\ UNCHANGED <<now, attempts, told>>

\* claim_outbox_delivery with an attempt identity it finds: the answer is only
\* repeated while that attempt is current and live, and otherwise everything,
\* the reaping included, is rolled back.
ClaimAgain(attempt, held1, held2) ==
    LET reaped == reap_outbox_terminals(held1, held2) IN
    /\ \E d \in Enqueued :
          /\ attempts[d] # <<>> /\ Last(attempts[d]).id = attempt
          /\ reaped[d].status = "delivering"
          /\ reaped[d].attempt_id = attempt
          /\ now < Last(attempts[d]).expires
          /\ HistoryVerifies(delivery[d], attempts[d])
          /\ ProjectionVerifies(reaped[d], delivery[d], attempts[d])
    /\ row' = reaped
    /\ UNCHANGED <<now, delivery, attempts, told>>

\* claim_outbox_delivery that finds nothing it may lock: NoWork.
ClaimNothing(attempt, held1, held2) ==
    /\ attempt \notin UsedAttempts
    /\ row' = reap_outbox_terminals(held1, held2)
    /\ UNCHANGED <<now, delivery, attempts, told>>

\* claim_outbox_delivery that starts a new attempt of d.
ClaimNew(attempt, d, held1, held2) ==
    LET reaped == reap_outbox_terminals(held1, held2)
        start  == StartAttempt(delivery[d], attempt)
    IN  /\ attempt \notin UsedAttempts
        /\ d \in Enqueued
        /\ ClaimCandidate(reaped[d], delivery[d], now)
        /\ HistoryVerifies(delivery[d], attempts[d])
        /\ ProjectionVerifies(reaped[d], delivery[d], attempts[d])
        /\ status_at(delivery[d], attempts[d], now) = "pending"
        /\ StartFits(delivery[d], start)
        /\ row' = [reaped EXCEPT ![d] = update_outbox_delivery_claim(@, start)]
        /\ attempts' = [attempts EXCEPT ![d] = Append(@, start)]
        /\ UNCHANGED <<now, delivery, told>>

\* Mutant: complete_outbox_attempt forgets to compare the fence with the row.
CompleteDisplaced(d, epoch, outcome) ==
    LET c == [outcome |-> outcome, at |-> now] IN
    /\ epoch \in DOMAIN attempts[d]
    /\ attempts[d][epoch].completion = None
    /\ now < attempts[d][epoch].expires
    /\ attempts' = [attempts EXCEPT ![d][epoch].completion = c]
    /\ row' = [row EXCEPT ![d] = update_outbox_delivery_completion(@, c)]
    /\ told' = told \cup {[delivery |-> d, epoch |-> epoch, outcome |-> outcome]}
    /\ UNCHANGED <<now, delivery>>

\* Mutant: a second, different outcome of an attempt replaces the first.
CompleteOver(d, epoch, outcome) ==
    LET a == attempts[d][epoch]
        c == [outcome |-> outcome, at |-> now]
    IN  /\ epoch \in DOMAIN attempts[d]
        /\ row[d].attempt_id = a.id
        /\ row[d].status \in ActiveStatus
        /\ a.started <= now /\ now < a.expires
        /\ attempts' = [attempts EXCEPT ![d][epoch].completion = c]
        /\ row' = [row EXCEPT ![d] = update_outbox_delivery_completion(@, c)]
        /\ told' = told \cup {[delivery |-> d, epoch |-> epoch, outcome |-> outcome]}
        /\ UNCHANGED <<now, delivery>>

\* complete_outbox_attempt, committed: the attempt is current and live.
Complete(d, epoch, outcome) ==
    LET a == attempts[d][epoch]
        c == [outcome |-> outcome, at |-> now]
    IN  /\ epoch \in DOMAIN attempts[d]
        /\ Readable(d)
        /\ a.completion = None
        /\ row[d].status = "delivering"
        /\ row[d].attempt_id = a.id
        /\ row[d].attempt_count = epoch
        /\ CompletionFits([a EXCEPT !.completion = c])
        /\ attempts' = [attempts EXCEPT ![d][epoch].completion = c]
        /\ row' = [row EXCEPT ![d] = update_outbox_delivery_completion(@, c)]
        /\ told' = told \cup {[delivery |-> d, epoch |-> epoch, outcome |-> outcome]}
        /\ UNCHANGED <<now, delivery>>

\* complete_outbox_attempt, repeated with the same outcome: Idempotent.
CompleteAgain(d, epoch, outcome) ==
    /\ epoch \in DOMAIN attempts[d]
    /\ Readable(d)
    /\ attempts[d][epoch].completion # None
    /\ attempts[d][epoch].completion.outcome = outcome
    /\ told' = told \cup {[delivery |-> d, epoch |-> epoch, outcome |-> outcome]}
    /\ UNCHANGED <<now, delivery, row, attempts>>

ClockAdvances ==
    /\ now < MaxTime
    /\ now' = now + 1
    /\ UNCHANGED <<delivery, row, attempts, told>>

ClockRegresses ==
    /\ now > 0
    /\ now' = now - 1
    /\ UNCHANGED <<delivery, row, attempts, told>>

Claim ==
    \E attempt \in Attempts, held1, held2 \in SUBSET Deliveries :
        \/ ClaimAgain(attempt, held1, held2)
        \/ ClaimNothing(attempt, held1, held2)
        \/ \E d \in Deliveries : ClaimNew(attempt, d, held1, held2)

Report ==
    \E d \in Deliveries, epoch \in 1..MaxAttempts, outcome \in Outcome :
        Complete(d, epoch, outcome) \/ CompleteAgain(d, epoch, outcome)

Submit ==
    \E d \in Deliveries, recorded \in Time, expires_at \in 1..MaxTime :
        Enqueue(d, recorded, expires_at)

Next == Submit \/ Claim \/ Report \/ ClockAdvances \/ ClockRegresses

Spec == Init /\ [][Next]_vars

\* Some dispatcher keeps polling with fresh identities and its statements are
\* not passed over for ever; the clock advances.  Nothing forces a dispatcher
\* to complete what it claimed.
Polls ==
    \E attempt \in Attempts :
        \/ \E d \in Deliveries : ClaimNew(attempt, d, {}, {})
        \/ /\ \A d \in Enqueued : ~ClaimCandidate(row[d], delivery[d], now)
           /\ ClaimNothing(attempt, {}, {})

FairSpec == Spec /\ WF_vars(ClockAdvances) /\ WF_vars(Polls)

-----------------------------------------------------------------------------
(* Properties. *)

\* Every table holds well-formed values: the clock, the immutable delivery, its
\* row and its attempts, and a delivery has a row exactly when it was enqueued.
TypeOK ==
    /\ now \in Time
    /\ delivery \in [Deliveries -> OutboxDelivery \cup {None}]
    /\ row \in [Deliveries -> Row]
    /\ \A d \in Deliveries : attempts[d] \in Seq(Attempt) /\ Len(attempts[d]) <= MaxAttempts
    /\ told \subseteq [delivery : Deliveries, epoch : 1..MaxAttempts, outcome : Outcome]
    /\ \A d \in Deliveries : delivery[d] = None <=> row[d].status = "absent"

\* What claim_outbox_delivery and complete_outbox_attempt leave behind is a
\* history that the pure verifier accepts, although neither runs it over the
\* attempt it adds: attempts of a delivery never overlap, no attempt starts
\* before the retry its predecessor's failure advised, after an acknowledgement,
\* or outside the delivery's window, and identities are not reused.
AttemptsNeverOverlap ==
    \A d \in Enqueued : HistoryVerifies(delivery[d], attempts[d])

\* A delivery whose last permitted attempt was abandoned before the deadline
\* and which the deadline reap reached although the attempt-limit reap had
\* passed it over.
ReapedPastLimit(d) ==
    /\ row[d].status = "expired"
    /\ Len(attempts[d]) = MaxAttempts
    /\ Last(attempts[d]).completion = None
    /\ Last(attempts[d]).expires < delivery[d].expires_at

\* The row that claims, completions and reaping leave behind is the one that
\* verify_outbox_projection derives from the attempts, whatever the clock does
\* and whichever statements pass rows over; the one exception is a delivery
\* reaped past its limit (see DeadLettersAreReadable).
\* No row poisons the dispatch of its tenant: at any time, a row that the claim
\* query selects is Pending to the verifier, so that claims never stop at
\* "outbox ready projection" or at a regressed clock.
RowMatchesAttempts ==
    \A d \in Enqueued :
        /\ Readable(d) \/ ReapedPastLimit(d)
        /\ \A t \in Time : ClaimCandidate(row[d], delivery[d], t) =>
               Readable(d) /\ status_at(delivery[d], attempts[d], t) = "pending"

\* Every completion a dispatcher was told is committed, first or repeated, is
\* the recorded completion of that attempt, for ever.
ToldIsRecorded ==
    \A c \in told :
        /\ c.epoch \in DOMAIN attempts[c.delivery]
        /\ attempts[c.delivery][c.epoch].completion # None
        /\ attempts[c.delivery][c.epoch].completion.outcome = c.outcome

\* A delivery that ended (acknowledged, dead-lettered or expired) is neither
\* attempted again nor does a late completion or a later reap change how and
\* when it ended.
EndIsFinal ==
    [][\A d \in Deliveries : row[d].status \in TerminalStatus =>
            row'[d] = row[d] /\ attempts'[d] = attempts[d]]_vars

\* docs/postgresql-provider.md: "`Never` and attempt 64 dead-letter", and the
\* store's tests: "attempt-limit dead letters remain fully audit-readable".
\* Every delivery can be read back, whichever statement reaped it.
DeadLettersAreReadable == \A d \in Enqueued : Readable(d)

\* Once the clock no longer goes back, every delivery ends while some dispatcher
\* polls, even when each dispatcher that claims it dies: by acknowledgement, at
\* its last attempt or at its deadline.
EveryDeliveryEnds ==
    <>[][~ClockRegresses]_vars =>
        \A d \in Deliveries : (delivery[d] # None) ~> (row[d].status \in TerminalStatus)
=============================================================================
