---------------------------- MODULE RunLifecycle ----------------------------
(***************************************************************************)
(* The pure lifecycle of one durable run: crates/stateknot-core/src/run.rs *)
(* A run's state is reduced to its status; the payloads a state carries    *)
(* (result, failure, cancellation request) are told apart by no property   *)
(* of this project.  The outstanding waits of a waiting run are modelled   *)
(* where they are used, in DurableWaits.                                   *)
(***************************************************************************)

\* RunStatus, run.rs.
RunStatus == {"pending", "active", "waiting", "cancellation_requested",
              "succeeded", "failed", "cancelled"}

\* RunStatus::is_terminal.
TerminalStatus == {"succeeded", "failed", "cancelled"}

\* lifecycle_is_scheduler_runnable, store.rs: a worker may own such a run.
RunnableStatus == {"pending", "active", "cancellation_requested"}

\* RunTransitionKind.
TransitionKind == {"start", "wait", "resolve_interrupt", "fire_timer",
                   "request_cancellation", "confirm_cancellation",
                   "succeed", "fail"}

\* The kinds only a durable-wait mutation may apply (prepare_projection).
WaitTransition == {"wait", "resolve_interrupt", "fire_timer"}

\* Mutant: a run whose cancellation was accepted may still succeed.
SucceedsAfterCancellation(status, kind) ==
    \/ status = "pending" /\ kind = "start"
    \/ status \in {"pending", "active", "waiting"} /\ kind \in {"request_cancellation", "fail"}
    \/ status # "pending" /\ kind = "succeed"

\* The closed transition graph.
transition_allowed(status, kind) ==
    \/ status = "pending" /\ kind = "start"
    \/ status \in {"pending", "active", "waiting"} /\ kind \in {"request_cancellation", "fail"}
    \/ status = "active" /\ kind \in {"wait", "succeed"}
    \/ status = "waiting" /\ kind \in {"resolve_interrupt", "fire_timer"}
    \/ status = "cancellation_requested" /\ kind = "confirm_cancellation"

\* The status an allowed transition leads to.  Removing a wait leads back to
\* "active" only when no other wait is outstanding, which DurableWaits decides.
apply_transition(kind) ==
    CASE kind = "start"                -> "active"
      [] kind = "wait"                 -> "waiting"
      [] kind = "resolve_interrupt"    -> "active"
      [] kind = "fire_timer"           -> "active"
      [] kind = "request_cancellation" -> "cancellation_requested"
      [] kind = "confirm_cancellation" -> "cancelled"
      [] kind = "succeed"              -> "succeeded"
      [] kind = "fail"                 -> "failed"
=============================================================================
