-------------------------- MODULE InvocationState ---------------------------
(***************************************************************************)
(* The pure state machine of one external tool or model invocation:        *)
(* crates/stateknot-core/src/tool_invocation.rs and model_invocation.rs.   *)
(*                                                                         *)
(* A model invocation moves like a read-only tool whose provider leaves no *)
(* external effect: it has the same states but "unknown", and its retry    *)
(* asks for the same advice and the same delay (validate_retry).           *)
(***************************************************************************)
EXTENDS Integers

Risk == {"model", "read_only", "idempotent_write", "non_idempotent_write"}

Effect == {"not_applicable", "not_started", "not_applied", "applied", "unknown"}

Advice == {"never", "safe_after", "reconcile_first"}

InvocationStatus == {"prepared", "executing", "committed", "failed", "unknown"}

NoError == [effect |-> "not_applicable", advice |-> "never", delay |-> 0]

\* validate_tool_error_shape and Failure: an unknown effect and the advice to
\* reconcile first imply each other.
Error(delays) ==
    {e \in [effect : Effect, advice : Advice, delay : delays] :
        /\ e.effect = "unknown" <=> e.advice = "reconcile_first"
        /\ e.advice # "safe_after" => e.delay = 0}

\* validate_error_binding
ErrorFits(risk, e) ==
    /\ (e.effect = "not_applicable") <=> (risk \in {"model", "read_only"})
    /\ ~(risk = "non_idempotent_write" /\ e.effect = "applied" /\ e.advice = "safe_after")

\* One revision: its state, the physical attempt and error it carries and the
\* recorded_at of the journal event that anchors it.
Prepared(none, t) == [status |-> "prepared", attempt |-> none, error |-> NoError, at |-> t]

validate_retry(risk, rev, t) ==
    /\ rev.error.advice = "safe_after"
    /\ \/ risk \in {"model", "read_only"} /\ rev.error.effect = "not_applicable"
       \/ risk = "idempotent_write"
            /\ rev.error.effect \in {"not_started", "not_applied", "applied"}
       \/ risk = "non_idempotent_write"
            /\ rev.error.effect \in {"not_started", "not_applied"}
    /\ t >= rev.at + rev.error.delay

\* A new physical attempt of the invocation.
StartFits(risk, rev, attempt, t) ==
    /\ attempt # rev.attempt
    /\ \/ rev.status = "prepared"
       \/ rev.status = "failed" /\ validate_retry(risk, rev, t)

\* validate_transition_shape and apply_transition: what may follow a revision
\* at the instant t.  Evidence names the attempt it is about.
TransitionFits(risk, rev, tr, t) ==
    \/ tr.kind = "start_attempt" /\ StartFits(risk, rev, tr.attempt, t)
    \/ /\ tr.attempt = rev.attempt
       /\ \/ tr.kind = "record_result" /\ rev.status = "executing"
          \/ tr.kind = "record_error" /\ rev.status = "executing" /\ ErrorFits(risk, tr.error)
          \/ tr.kind = "reconcile_result" /\ rev.status = "unknown"
          \/ tr.kind = "reconcile_error" /\ rev.status = "unknown" /\ ErrorFits(risk, tr.error)

\* Mutant: an unknown outcome is recorded as a failure.
UnknownIsFailure(e) == "failed"

state_from_error(e) == IF e.effect = "unknown" THEN "unknown" ELSE "failed"

\* Mutant: a started attempt leaves the invocation prepared.
AdvanceKeepsPrepared(tr, t) ==
    [status  |-> CASE tr.kind = "start_attempt" -> "prepared"
                   [] tr.kind \in {"record_result", "reconcile_result"} -> "committed"
                   [] OTHER -> state_from_error(tr.error),
     attempt |-> tr.attempt,
     error   |-> IF tr.kind \in {"record_error", "reconcile_error"} THEN tr.error ELSE NoError,
     at      |-> t]

\* ToolInvocation::advance: the next revision.
advance(tr, t) ==
    [status  |-> CASE tr.kind = "start_attempt" -> "executing"
                   [] tr.kind \in {"record_result", "reconcile_result"} -> "committed"
                   [] OTHER -> state_from_error(tr.error),
     attempt |-> tr.attempt,
     error   |-> IF tr.kind \in {"record_error", "reconcile_error"} THEN tr.error ELSE NoError,
     at      |-> t]
=============================================================================
