----------------------------- MODULE ToolLedger -----------------------------
(***************************************************************************)
(* One external tool invocation: its durable ledger, the executors of the  *)
(* workers that own the run one after the other, and the external system   *)
(* the tool changes.                                                       *)
(* crates/stateknot-runtime/src/invocation_executor.rs                     *)
(* crates/stateknot-runtime/src/provider_native_agent.rs                   *)
(* crates/stateknot-store-postgres/src/store.rs (the ledger)               *)
(*                                                                         *)
(* A worker may crash at every step, lose its lease while a call is in     *)
(* flight, and miss any acknowledgement.  A call that its worker gave up   *)
(* may still take effect.  The adapter is honest: it reports an effect     *)
(* only if it happened, and its absence only if it cannot happen any more. *)
(***************************************************************************)
EXTENDS Integers, FiniteSets, InvocationState

CONSTANTS Workers,    \* worker processes
          Attempts,   \* physical attempts of the invocation (AttemptId)
          None,       \* no attempt, no owner
          MaxEpoch    \* bound on takeovers

ASSUME NoneIsNoOne == None \notin Attempts /\ None \notin Workers

VARIABLES
    risk,      \* ToolRisk of the frozen descriptor
    epoch,     \* fencing epoch of the run
    owner,     \* the worker that holds the lease
    rev,       \* the invocation's current revision, or Absent
    number,    \* its revision number
    anchored,  \* whether its journal event still is the run's journal head
    claimed,   \* the attempts some start has claimed (started_attempt_id)
    exec,      \* per worker: what its executor is doing
    calls,     \* per attempt: provider calls made
    inflight,  \* attempts whose call may still take effect
    applied    \* attempts whose call took effect

vars == <<risk, epoch, owner, rev, number, anchored, claimed, exec, calls, inflight, applied>>
ledgerVars   == <<rev, number, anchored, claimed>>
externalVars == <<calls, inflight, applied>>
leaseVars    == <<risk, epoch, owner>>

-----------------------------------------------------------------------------
Absent == [status |-> "absent", attempt |-> None, error |-> NoError, at |-> 0]

\* The evidence an executor holds: a result, or an error.
Result == [kind |-> "result", error |-> NoError]
Failure(e) == [kind |-> "error", error |-> e]
Evidence == {Result} \cup {Failure(e) : e \in Error({0})}

\* ToolAttemptHandoff, ToolDispatchHandoff, ToolTerminalCommitHandoff and
\* ToolReconciliationHandoff: the fence, the revision and what comes next.
Idle == [phase |-> "idle", epoch |-> 0, number |-> 0, attempt |-> None, evidence |-> Result]

Exec == [phase    : {"idle", "start", "dispatch", "call", "terminal", "probe", "reconcile"},
         epoch    : 0..MaxEpoch,
         number   : Nat,
         attempt  : Attempts \cup {None},
         evidence : Evidence]

Init ==
    /\ risk \in {"read_only", "idempotent_write", "non_idempotent_write"}
    /\ epoch = 0 /\ owner = None
    /\ rev = Absent /\ number = 0 /\ anchored = FALSE /\ claimed = {}
    /\ exec = [w \in Workers |-> Idle]
    /\ calls = [a \in Attempts |-> 0]
    /\ inflight = {} /\ applied = {}

\* acquire_lease: a takeover fences every earlier owner.
TakeOver(w) ==
    /\ epoch < MaxEpoch
    /\ epoch' = epoch + 1 /\ owner' = w
    /\ UNCHANGED <<risk, ledgerVars, exec, externalVars>>

\* Any other event of the run: a node attempt's, a sibling's, a control-plane one.
OtherAppend ==
    /\ anchored
    /\ anchored' = FALSE
    /\ UNCHANGED <<leaseVars, rev, number, claimed, exec, externalVars>>

Crash(w) ==
    /\ exec[w] # Idle
    /\ exec' = [exec EXCEPT ![w] = Idle]
    /\ UNCHANGED <<leaseVars, ledgerVars, externalVars>>

-----------------------------------------------------------------------------
(* The ledger. *)

\* prepare_tool_invocation, by the owner.
Prepare(w) ==
    /\ owner = w
    /\ rev = Absent
    /\ rev' = Prepared(None, 0) /\ anchored' = TRUE
    /\ UNCHANGED <<leaseVars, number, claimed, exec, externalVars>>

\* advance_tool_invocation_inner: the exact revision and a live fence.
Authorize(w) == exec[w].number = number /\ exec[w].epoch = epoch /\ owner = w

\* A started attempt is unique in its run.
Advance(tr) ==
    /\ TransitionFits(risk, rev, tr, 0)
    /\ tr.kind = "start_attempt" => tr.attempt \notin claimed
    /\ rev' = advance(tr, 0)
    /\ number' = number + 1
    /\ anchored' = TRUE
    /\ claimed' = claimed \cup {tr.attempt}

-----------------------------------------------------------------------------
(* start_tool_attempt_inner. *)

\* The caller loads a startable revision under its lease.
LoadStartable(w, a) ==
    /\ owner = w /\ exec[w] = Idle
    /\ rev.status \in {"prepared", "failed"}
    /\ exec' = [exec EXCEPT ![w] = [phase |-> "start", epoch |-> epoch, number |-> number,
                                    attempt |-> a, evidence |-> Result]]
    /\ UNCHANGED <<leaseVars, ledgerVars, externalVars>>

\* The start's journal expectation is the revision's own event, not the run's head.
StartAccepted(w) == Authorize(w) /\ anchored

\* The commit is acknowledged, which alone authorises a dispatch, or its
\* acknowledgement is lost: the identical retry then is Idempotent, Recovered.
StartAttempt(w, acknowledged) ==
    /\ exec[w].phase = "start"
    /\ StartAccepted(w)
    /\ Advance([kind |-> "start_attempt", attempt |-> exec[w].attempt, error |-> NoError])
    /\ exec' = [exec EXCEPT ![w] = IF acknowledged
                                   THEN [@ EXCEPT !.phase = "dispatch", !.number = number + 1]
                                   ELSE Idle]
    /\ UNCHANGED <<leaseVars, externalVars>>

\* Mutant: a start that is found committed is taken as authority to dispatch.
RecoveredDispatches(w) ==
    /\ exec[w].phase = "start"
    /\ exec[w].number # number
    /\ exec' = [exec EXCEPT ![w] = IF rev.attempt = @.attempt
                                   THEN [@ EXCEPT !.phase = "dispatch", !.number = number]
                                   ELSE Idle]
    /\ UNCHANGED <<leaseVars, ledgerVars, externalVars>>

\* recover_tool_if_started: the revision moved, so the attempt is Recovered (it
\* is this one's) or refused (InvocationAdvanced); neither dispatches.
RecoverStart(w) ==
    /\ exec[w].phase = "start"
    /\ exec[w].number # number
    /\ exec' = [exec EXCEPT ![w] = Idle]
    /\ UNCHANGED <<leaseVars, ledgerVars, externalVars>>

-----------------------------------------------------------------------------
(* dispatch_started_tool_inner and dispatch_tool. *)

Holds(w, evidence) ==
    exec' = [exec EXCEPT ![w] = [@ EXCEPT !.phase = "terminal", !.evidence = evidence]]

\* Mutant: a stopped write is reported as not applied and safe to repeat.
StopIsFailure(r) ==
    [effect |-> IF r = "read_only" THEN "not_applicable" ELSE "not_applied",
     advice |-> "safe_after", delay |-> 0]

\* tool_stop_error: cancellation or deadline; a write's outcome is unknown.
tool_stop_error(r) ==
    IF r = "read_only" THEN NoError
    ELSE [effect |-> "unknown", advice |-> "reconcile_first", delay |-> 0]

\* tool_contract_error: a reply outside the descriptor's contract.
tool_contract_error(r, nominal_success) ==
    IF r = "read_only" THEN NoError
    ELSE IF nominal_success THEN [effect |-> "applied", advice |-> "never", delay |-> 0]
    ELSE [effect |-> "unknown", advice |-> "reconcile_first", delay |-> 0]

Call(w) ==
    /\ exec[w].phase = "dispatch"
    /\ exec' = [exec EXCEPT ![w].phase = "call"]
    /\ calls' = [calls EXCEPT ![exec[w].attempt] = @ + 1]
    /\ inflight' = inflight \cup {exec[w].attempt}
    /\ UNCHANGED <<leaseVars, ledgerVars, applied>>

\* Cancelled or timed out, before the call or during it.
Stop(w) ==
    /\ exec[w].phase \in {"dispatch", "call"}
    /\ Holds(w, Failure(tool_stop_error(risk)))
    /\ UNCHANGED <<leaseVars, ledgerVars, externalVars>>

\* The adapter returns a result of a finished call, in contract or not.
ReturnResult(w, valid) ==
    LET a == exec[w].attempt
    IN  /\ exec[w].phase = "call"
        /\ a \in applied \/ risk = "read_only"
        /\ Holds(w, IF valid THEN Result ELSE Failure(tool_contract_error(risk, TRUE)))
        /\ inflight' = inflight \ {a}
        /\ UNCHANGED <<leaseVars, ledgerVars, calls, applied>>

\* What an honest adapter may say of the effect of attempt a.
Honest(a, effect) ==
    /\ effect \in {"not_started", "not_applied"} => a \notin applied
    /\ effect = "applied" => a \in applied

\* The adapter returns an error; one that its contract forbids is replaced.
\* Saying that nothing was applied ends the call.
ReturnError(w, e) ==
    LET a == exec[w].attempt
    IN  /\ exec[w].phase = "call"
        /\ Honest(a, e.effect)
        /\ Holds(w, Failure(IF ErrorFits(risk, e) THEN e ELSE tool_contract_error(risk, FALSE)))
        /\ inflight' = IF e.effect = "unknown" THEN inflight ELSE inflight \ {a}
        /\ UNCHANGED <<leaseVars, ledgerVars, calls, applied>>

\* The external system: a call takes effect, or is lost.
TakeEffect(a) ==
    /\ a \in inflight /\ risk # "read_only" /\ a \notin applied
    /\ applied' = applied \cup {a}
    /\ UNCHANGED <<leaseVars, ledgerVars, exec, calls, inflight>>

LoseCall(a) ==
    /\ a \in inflight
    /\ inflight' = inflight \ {a}
    /\ UNCHANGED <<leaseVars, ledgerVars, exec, calls, applied>>

-----------------------------------------------------------------------------
(* commit_tool_terminal_inner, rebind_fence. *)

\* A retained handoff is bound to the worker's current fence.
RebindFence(w) ==
    /\ exec[w].phase \in {"terminal", "reconcile"}
    /\ owner = w /\ exec[w].epoch # epoch
    /\ exec' = [exec EXCEPT ![w].epoch = epoch]
    /\ UNCHANGED <<leaseVars, ledgerVars, externalVars>>

\* A lost acknowledgement changes nothing: the identical retry is Idempotent.
CommitTerminal(w) ==
    /\ exec[w].phase = "terminal"
    /\ Authorize(w)
    /\ Advance([kind |-> IF exec[w].evidence.kind = "result" THEN "record_result" ELSE "record_error",
                attempt |-> exec[w].attempt, error |-> exec[w].evidence.error])
    /\ exec' = [exec EXCEPT ![w] = Idle]
    /\ UNCHANGED <<leaseVars, externalVars>>

-----------------------------------------------------------------------------
(* reconcile_tool_inner, commit_tool_reconciliation_inner. *)

LoadUnknown(w) ==
    /\ owner = w /\ exec[w] = Idle
    /\ rev.status = "unknown"
    /\ exec' = [exec EXCEPT ![w] = [phase |-> "probe", epoch |-> epoch, number |-> number,
                                    attempt |-> rev.attempt, evidence |-> Result]]
    /\ UNCHANGED <<leaseVars, ledgerVars, externalVars>>

\* An authoritative observation of attempt a: Pending while its call may still
\* take effect, which leaves the handoff as it is.
Observes(a, effect) ==
    /\ Honest(a, effect)
    /\ effect # "applied" => a \notin inflight

ProbeResult(w) ==
    /\ exec[w].phase = "probe"
    /\ Observes(exec[w].attempt, "applied")
    /\ exec' = [exec EXCEPT ![w] = [@ EXCEPT !.phase = "reconcile", !.evidence = Result]]
    /\ UNCHANGED <<leaseVars, ledgerVars, externalVars>>

\* Evidence that leaves the effect unknown is refused (UnresolvedErrorEvidence).
ProbeError(w, e) ==
    /\ exec[w].phase = "probe"
    /\ e.effect # "unknown" /\ ErrorFits(risk, e)
    /\ Observes(exec[w].attempt, e.effect)
    /\ exec' = [exec EXCEPT ![w] = [@ EXCEPT !.phase = "reconcile", !.evidence = Failure(e)]]
    /\ UNCHANGED <<leaseVars, ledgerVars, externalVars>>

CommitReconciliation(w) ==
    /\ exec[w].phase = "reconcile"
    /\ Authorize(w)
    /\ Advance([kind |-> IF exec[w].evidence.kind = "result" THEN "reconcile_result" ELSE "reconcile_error",
                attempt |-> exec[w].attempt, error |-> exec[w].evidence.error])
    /\ exec' = [exec EXCEPT ![w] = Idle]
    /\ UNCHANGED <<leaseVars, externalVars>>

-----------------------------------------------------------------------------
Next ==
    \/ OtherAppend
    \/ \E w \in Workers :
         \/ TakeOver(w) \/ Crash(w) \/ Prepare(w)
         \/ \E a \in Attempts : LoadStartable(w, a)
         \/ \E acknowledged \in BOOLEAN : StartAttempt(w, acknowledged)
         \/ RecoverStart(w) \/ Call(w) \/ Stop(w)
         \/ \E valid \in BOOLEAN : ReturnResult(w, valid)
         \/ \E e \in Error({0}) : ReturnError(w, e) \/ ProbeError(w, e)
         \/ RebindFence(w) \/ CommitTerminal(w)
         \/ LoadUnknown(w) \/ ProbeResult(w) \/ CommitReconciliation(w)
    \/ \E a \in Attempts : TakeEffect(a) \/ LoseCall(a)

Spec == Init /\ [][Next]_vars

-----------------------------------------------------------------------------
(* Properties. *)

\* Every variable has its type.
TypeOK ==
    /\ epoch \in 0..MaxEpoch /\ owner \in Workers \cup {None}
    /\ rev.status \in InvocationStatus \cup {"absent"} /\ rev.attempt \in Attempts \cup {None}
    /\ rev.error \in Error({0})
    /\ number \in Nat /\ anchored \in BOOLEAN /\ claimed \subseteq Attempts
    /\ exec \in [Workers -> Exec]
    /\ calls \in [Attempts -> Nat]
    /\ inflight \subseteq Attempts /\ applied \subseteq Attempts

\* A non-idempotent write takes effect at most once, whatever crashes,
\* takeovers, lost acknowledgements, timeouts with a late effect, advised
\* retries and reconciliations happen around it.
EffectAtMostOnce == risk = "non_idempotent_write" => Cardinality(applied) <= 1

\* "An idempotently observed start ... never calls the external adapter": each
\* physical attempt calls the provider at most once, though its start may be
\* retried, recovered or repeated by another worker with the same plan.
DispatchedOnce == \A a \in Attempts : calls[a] <= 1

\* What the ledger says of the outside world is true and stays true: a committed
\* write took effect, a write that failed as not started or not applied did not
\* and no call of it is left that could, and a failed attempt recorded as applied
\* was applied.
LedgerIsTrue ==
    risk # "read_only" =>
        /\ rev.status = "committed" => rev.attempt \in applied
        /\ rev.status = "failed" =>
             IF rev.error.effect = "applied" THEN rev.attempt \in applied
             ELSE rev.attempt \notin applied \cup inflight

\* docs/provider-native-agent.md: "A higher fence may recover an unfinished
\* physical node attempt", and docs/postgresql-provider.md: "A `Prepared` record
\* may claim one physical attempt".  An owner that holds a prepared revision
\* which nobody has started can start it.
PreparedCanStart ==
    \A w \in Workers :
        (exec[w].phase = "start" /\ rev.status = "prepared" /\ Authorize(w)) => StartAccepted(w)
=============================================================================
