------------------------------ MODULE ChildRuns ------------------------------
(***************************************************************************)
(* A tree of durable runs: admission of owned children, their budget       *)
(* accounts, joins, cancellation delivery, failure closes and settlement.  *)
(*                                                                         *)
(*   crates/stateknot-store-postgres/src/child_runs.rs,                    *)
(*   child_cancellation.rs, child_joins.rs, failure_closes.rs,             *)
(*   agent_deadlines.rs, migrations 0020 to 0024, and the account of       *)
(*   crates/stateknot-core/src/child_run_budget.rs.                        *)
(*                                                                         *)
(* A parent and its children are rows of their own: a child commits its    *)
(* terminal state without the parent's lock, and a parent learns of it     *)
(* only through a settlement.  One action is one committed transaction,    *)
(* except for the failure-close request, whose reads of the children take  *)
(* no child lock and are therefore a step of their own.                    *)
(*                                                                         *)
(* Abstracted: journals, revisions and fences (RunStore), waits            *)
(* (DurableWaits), the ledger of an invocation (Superstep, ToolLedger).    *)
(* A superstep has one activation; the budget is one resource, of which a  *)
(* call declares at most one unit and reports what it used when it ends,   *)
(* perhaps more; a lease is held or not; time is left out.                 *)
(***************************************************************************)
EXTENDS Integers, FiniteSets, Sequences, FiniteSetsExt, RunLifecycle

CONSTANTS Runs, Root,     \* identities of runs, and the run admitted by a client
          Slots,          \* child slots a graph declares
          RootBudget,     \* the budget of the root
          ChildBudgets,   \* the budgets a child may be admitted with
          MaxChildren,    \* maximum_children_per_run
          MaxActive,      \* maximum_active_descendants
          MaxDepth,       \* maximum_descendant_depth
          MaxSteps,       \* bound: checkpoints of one run
          Usages,         \* what a call may turn out to have used
          Unpriceable,    \* runs whose calls may come back without a price
          Quarantinable,  \* runs an operator may quarantine
          None

ASSUME ChildRunsAssumption ==
    /\ Root \in Runs /\ None \notin Runs
    /\ RootBudget \in Nat /\ ChildBudgets \subseteq Nat
    /\ {MaxChildren, MaxActive, MaxDepth, MaxSteps} \subseteq Nat
    /\ Usages \subseteq Nat
    /\ Unpriceable \subseteq Runs /\ Quarantinable \subseteq Runs

VARIABLES status,       \* lifecycle_status of each run, "absent" before admission
          leased,       \* the runs a worker owns with a live lease
          quarantined,  \* the quarantined runs
          step,         \* the superstep of each run's current checkpoint
          node,         \* its activation: "idle", "started", "done" (a pending result)
          inflight,     \* the runs with an unsettled tool or model invocation
          observed,     \* the account a run's executor preflighted a call with, or None
          spent,        \* what a run's own calls have used
          excess,       \* how much of it was more than the calls declared
          unpriced,     \* the runs with an unpriced cost event of their own
          total,        \* terminal_usage of each run, or None
          budget,       \* the admitted budget
          path,         \* child_run_ownership.ancestors, <<>> for a root
          key,          \* the ChildRunKey: the parent's superstep and the slot
          settlement,   \* the usage of each settled child, or None
          cancel,       \* child_run_cancellations: "none", "queued" or the outcome
          join,         \* the current activation's join
          binding,      \* the terminals a published join is bound to
          close,        \* run_failure_closes: "none", "requested", "completed"
          reading       \* an open failure-close request, or None

rowVars == <<leased, step, node, inflight, observed>>
usageVars == <<spent, excess, unpriced>>
treeVars == <<budget, path, key>>
joinVars == <<join, binding>>
closeVars == <<close, reading>>
vars == <<status, quarantined, rowVars, usageVars, total, treeVars, settlement,
          cancel, joinVars, closeVars>>

JoinState == {"none", "registered", "ready", "consumed"}
CancelState == {"none", "queued", "requested", "already_requested", "terminal"}

Owned(c) == path[c] # <<>>
ParentOf(c) == path[c][Len(path[c])]
Children(r) == {c \in Runs : Owned(c) /\ ParentOf(c) = r}
Unsettled(r) == {c \in Children(r) : settlement[c] = None}
Ancestors(r) == {path[r][i] : i \in DOMAIN path[r]} \cup {r}
Descendants(r) == {c \in Runs : \E i \in DOMAIN path[c] : path[c][i] = r}
Absent == {r \in Runs : status[r] = "absent"}
Terminal(r) == status[r] \in TerminalStatus

\* Mutant: a join takes the children of earlier activations, too.
JoinsEveryChild(r) == Children(r)

\* The children of the current activation: verify_members.
Members(r) == {c \in Children(r) : key[c].step = step[r]}

\* The rows have their columns' types; a leased run is one a worker may run, and
\* quarantine takes the lease away.
TypeOK ==
    /\ status \in [Runs -> RunStatus \cup {"absent"}]
    /\ leased \subseteq {r \in Runs : status[r] \in RunnableStatus}
    /\ quarantined \subseteq Runs \ leased
    /\ inflight \subseteq Runs /\ unpriced \subseteq Runs
    /\ step \in [Runs -> 0..MaxSteps]
    /\ node \in [Runs -> {"idle", "started", "done"}]
    /\ observed \in [Runs -> SUBSET Runs \cup {None}]
    /\ {spent, excess, budget} \subseteq [Runs -> Nat]
    /\ total \in [Runs -> Nat \cup {None}] /\ settlement \in [Runs -> Nat \cup {None}]
    /\ path \in [Runs -> Seq(Runs)]
    /\ key \in [Runs -> [step : 0..MaxSteps, slot : Slots] \cup {None}]
    /\ cancel \in [Runs -> CancelState]
    /\ join \in [Runs -> JoinState]
    /\ close \in [Runs -> {"none", "requested", "completed"}]
    /\ \A r \in Runs : DOMAIN binding[r] \subseteq Runs
    /\ reading \in [run : Runs, child : Runs \cup {None}, pending : BOOLEAN] \cup {None}

Init ==
    /\ status = [r \in Runs |-> IF r = Root THEN "pending" ELSE "absent"]
    /\ leased = {} /\ quarantined = {} /\ inflight = {} /\ unpriced = {}
    /\ step = [r \in Runs |-> 0]
    /\ node = [r \in Runs |-> "idle"]
    /\ observed = [r \in Runs |-> None]
    /\ spent = [r \in Runs |-> 0] /\ excess = [r \in Runs |-> 0]
    /\ total = [r \in Runs |-> None] /\ settlement = [r \in Runs |-> None]
    /\ budget = [r \in Runs |-> IF r = Root THEN RootBudget ELSE 0]
    /\ path = [r \in Runs |-> <<>>]
    /\ key = [r \in Runs |-> None]
    /\ cancel = [r \in Runs |-> "none"]
    /\ join = [r \in Runs |-> "none"]
    /\ binding = [r \in Runs |-> << >>]
    /\ close = [r \in Runs |-> "none"]
    /\ reading = None

------------------------------------------------------------------------------
(* The budget account of a parent, child_run_budget.rs.                     *)

delegated_usage(r) == MapThenSumSet(LAMBDA c : settlement[c], Children(r) \ Unsettled(r))

accounted_usage(r, own) == own + delegated_usage(r)

outstanding(r) == MapThenSumSet(LAMBDA c : budget[c], Unsettled(r))

\* Mutant: a reservation is forgotten as soon as it is made.
ForgetsReservations(r, own, more) ==
    r \notin unpriced /\ budget[r] >= accounted_usage(r, own) + more

\* check_capacity: whether the account has room for more.  An overrun leaves
\* none, and usage without a price is refused whatever the amounts are.
check_capacity(r, own, more) ==
    r \notin unpriced /\ budget[r] >= accounted_usage(r, own) + outstanding(r) + more

------------------------------------------------------------------------------
(* Rows and locks.                                                          *)

\* No open failure-close request holds the row of r.
Free(r) == IF reading = None THEN TRUE ELSE reading.run # r

\* A mutation of r by anyone: the row is there, free and not quarantined.
Writable(r) == status[r] # "absent" /\ r \notin quarantined /\ Free(r)

\* authorize_parent_append with a live worker fence (fresh).
WorkerOf(r) == Writable(r) /\ r \in leased /\ status[r] = "active"

\* Mutant: a worker may take a parent that is still waiting for its children.
ClaimsBeforeSettlement(r) == TRUE

\* The gates migrations 0021, 0022 and 0024 put on a new lease.
lease_guards(r) ==
    /\ close[r] = "none"
    /\ status[r] = "active" => join[r] # "registered"
    /\ status[r] = "cancellation_requested" => Unsettled(r) = {}

AcquireLease(r) ==
    /\ Writable(r) /\ r \notin leased /\ status[r] \in RunnableStatus
    /\ lease_guards(r)
    /\ leased' = leased \cup {r}
    /\ UNCHANGED <<status, quarantined, step, node, inflight, observed, usageVars, total, treeVars,
                   settlement, cancel, joinVars, closeVars>>

\* An attempt belongs to the fence that started it and ends with it, and so does
\* a preflight for one of its calls.
Released(r) ==
    /\ leased' = leased \ {r}
    /\ observed' = [observed EXCEPT ![r] = None]
    /\ node' = [node EXCEPT ![r] = IF @ = "started" THEN "idle" ELSE @]

\* A lease expires, whatever transaction is open, or is released.
LoseLease(r) ==
    /\ r \in leased
    /\ Released(r)
    /\ UNCHANGED <<status, quarantined, step, inflight, usageVars, total, treeVars,
                   settlement, cancel, joinVars, closeVars>>

\* An operator quarantines a run: the lease goes, nothing else changes.
QuarantineRun(r) ==
    /\ r \in Quarantinable /\ Writable(r)
    /\ quarantined' = quarantined \cup {r}
    /\ Released(r)
    /\ UNCHANGED <<status, step, inflight, usageVars, total, treeVars,
                   settlement, cancel, joinVars, closeVars>>

------------------------------------------------------------------------------
(* A worker executes a run.                                                 *)

StartRun(r) ==
    /\ Writable(r) /\ r \in leased /\ status[r] = "pending"
    /\ status' = [status EXCEPT ![r] = "active"]
    /\ UNCHANGED <<quarantined, rowVars, usageVars, total, treeVars, settlement,
                   cancel, joinVars, closeVars>>

StartNode(r) ==
    /\ WorkerOf(r) /\ node[r] = "idle"
    /\ node' = [node EXCEPT ![r] = "started"]
    /\ UNCHANGED <<status, quarantined, leased, step, inflight, observed, usageVars, total, treeVars,
                   settlement, cancel, joinVars, closeVars>>

\* What a call declares that it may use (ModelRequest::limits).
CallLimit == 1

\* prepare_model_context, prepare_tool_context: before a call the executor reads
\* the account, without a lock, and compares what is left with what the call
\* declares.  The settlements of an account are final and a new direct usage is
\* observed in it with a new child only, so an account whose children are all
\* settled is known by its children.
PrepareContext(r) ==
    /\ WorkerOf(r) /\ node[r] = "started" /\ r \notin inflight
    /\ Unsettled(r) = {} /\ check_capacity(r, spent[r], CallLimit)
    /\ observed' = [observed EXCEPT ![r] = Children(r)]
    /\ UNCHANGED <<status, quarantined, leased, step, node, inflight, usageVars, total,
                   treeVars, settlement, cancel, joinVars, closeVars>>

\* Mutant: what the preflight saw is taken to be still so.
TrustsPreflight(r) == observed[r] # None

\* Mutant: the account may be another than the one observed.
AnySettledAccount(r) == Unsettled(r) = {} /\ observed[r] # None

\* The budget fence of a start, under the run's lock: every child is settled and
\* the account is the one observed.  The capacity is not compared again.
authorize_invocation_budget(r) == Unsettled(r) = {} /\ observed[r] = Children(r)

StartCall(r) ==
    /\ WorkerOf(r) /\ node[r] = "started" /\ r \notin inflight
    /\ authorize_invocation_budget(r)
    /\ inflight' = inflight \cup {r}
    /\ observed' = [observed EXCEPT ![r] = None]
    /\ UNCHANGED <<status, quarantined, leased, step, node, usageVars, total, treeVars,
                   settlement, cancel, joinVars, closeVars>>

\* The outcome of a call and its usage are recorded, perhaps by a later owner of
\* the run.  What was used beyond the declared limit is kept.
SettleCall(r, used) ==
    /\ Writable(r) /\ r \in leased \cap inflight
    /\ status[r] \in RunnableStatus /\ Unsettled(r) = {}
    /\ inflight' = inflight \ {r}
    /\ spent' = [spent EXCEPT ![r] = @ + used]
    /\ excess' = [excess EXCEPT ![r] = @ + Max({used - CallLimit, 0})]
    /\ unpriced' \in {unpriced, unpriced \cup ({r} \cap Unpriceable)}
    /\ UNCHANGED <<status, quarantined, leased, step, node, observed, total, treeVars,
                   settlement, cancel, joinVars, closeVars>>

\* Mutant: the limits of the parent's graph only, not of every ancestor's.
LimitsOfParentOnly(r) ==
    /\ \A a \in Ancestors(r) : status[a] = "active" /\ a \notin quarantined
    /\ Cardinality({c \in Descendants(r) : settlement[c] = None}) < MaxActive

\* Every ancestor is active, and within its graph's depth and width limits.
check_topology(r) ==
    \A a \in Ancestors(r) :
        /\ status[a] = "active" /\ a \notin quarantined
        /\ Cardinality(Ancestors(r) \ Ancestors(a)) + 1 <= MaxDepth
        /\ Cardinality({c \in Descendants(a) : settlement[c] = None}) < MaxActive

\* Mutant: a join does not seal the membership of its activation.
JoinStaysOpen(r, slot) == \A c \in Members(r) : key[c].slot # slot

\* guard_child_join_spawn, and one child per key.
fresh_key(r, slot) == join[r] = "none" /\ \A c \in Members(r) : key[c].slot # slot

\* admit_child_run: every ancestor's row is locked.
AdmitChildRun(r, c, slot, amount) ==
    /\ WorkerOf(r) /\ node[r] = "started" /\ r \notin inflight
    /\ \A a \in Ancestors(r) : Free(a)
    /\ c \in Absent
    /\ check_topology(r)
    /\ fresh_key(r, slot) /\ close[r] = "none"
    /\ Cardinality(Children(r)) < MaxChildren
    /\ amount <= budget[r] /\ check_capacity(r, spent[r], amount)
    /\ status' = [status EXCEPT ![c] = "pending"]
    /\ budget' = [budget EXCEPT ![c] = amount]
    /\ path' = [path EXCEPT ![c] = Append(path[r], r)]
    /\ key' = [key EXCEPT ![c] = [step |-> step[r], slot |-> slot]]
    /\ UNCHANGED <<quarantined, rowVars, usageVars, total, settlement, cancel, joinVars,
                   closeVars>>

\* A node's result: it consumes the activation's join, when there is one.
CommitResult(r) ==
    /\ WorkerOf(r) /\ node[r] = "started" /\ r \notin inflight
    /\ join[r] \in {"none", "ready"}
    /\ join[r] = "ready" => Members(r) \cap quarantined = {} /\ \A c \in Members(r) : Free(c)
    /\ node' = [node EXCEPT ![r] = "done"]
    /\ observed' = [observed EXCEPT ![r] = None]
    /\ join' = [join EXCEPT ![r] = IF @ = "ready" THEN "consumed" ELSE @]
    /\ UNCHANGED <<status, quarantined, leased, step, inflight, usageVars, total, treeVars,
                   settlement, cancel, binding, closeVars>>

\* guard_child_run_mutation and guard_child_join_run on a new checkpoint.
checkpoint_guards(r) == Unsettled(r) = {} /\ join[r] \in {"none", "consumed"}

\* Mutant: a run that begins to wait keeps its lease.
WaitsWithLease(r, new) ==
    /\ WorkerOf(r) /\ node[r] = "done" /\ r \notin inflight /\ step[r] < MaxSteps
    /\ checkpoint_guards(r)
    /\ status' = [status EXCEPT ![r] = new]
    /\ step' = [step EXCEPT ![r] = @ + 1]
    /\ node' = [node EXCEPT ![r] = "idle"]
    /\ join' = [join EXCEPT ![r] = "none"]
    /\ binding' = [binding EXCEPT ![r] = << >>]
    /\ UNCHANGED <<leased, quarantined, inflight, observed, usageVars, total, treeVars,
                   settlement, cancel, closeVars>>

\* A barrier: the next superstep begins, running or waiting for an input.
AdvanceCheckpoint(r, new) ==
    /\ WorkerOf(r) /\ node[r] = "done" /\ r \notin inflight /\ step[r] < MaxSteps
    /\ checkpoint_guards(r)
    /\ status' = [status EXCEPT ![r] = new]
    /\ step' = [step EXCEPT ![r] = @ + 1]
    /\ node' = [node EXCEPT ![r] = "idle"]
    /\ leased' = IF new = "waiting" THEN leased \ {r} ELSE leased
    /\ join' = [join EXCEPT ![r] = "none"]
    /\ binding' = [binding EXCEPT ![r] = << >>]
    /\ UNCHANGED <<quarantined, inflight, observed, usageVars, total, treeVars, settlement,
                   cancel, closeVars>>

\* The last wait of a run is resolved.
Resume(r) ==
    /\ Writable(r) /\ status[r] = "waiting"
    /\ status' = [status EXCEPT ![r] = "active"]
    /\ UNCHANGED <<quarantined, rowVars, usageVars, total, treeVars, settlement, cancel,
                   joinVars, closeVars>>

\* Mutant: a parent may end before its children are settled.
EndsWithLiveChildren(r, new) ==
    /\ status' = [status EXCEPT ![r] = new]
    /\ total' = [total EXCEPT ![r] = accounted_usage(r, spent[r])]
    /\ Released(r)

\* A terminal transition: validate_terminal_accounting, then the row.
validate_terminal_accounting(r, new) ==
    /\ Unsettled(r) = {}
    /\ status' = [status EXCEPT ![r] = new]
    /\ total' = [total EXCEPT ![r] = accounted_usage(r, spent[r])]
    /\ Released(r)

Succeed(r) ==
    /\ WorkerOf(r) /\ node[r] = "done" /\ r \notin inflight
    /\ join[r] \in {"none", "consumed"}
    /\ validate_terminal_accounting(r, "succeeded")
    /\ UNCHANGED <<quarantined, step, inflight, usageVars, treeVars, settlement, cancel,
                   joinVars, closeVars>>

\* A direct failure, of a run that has not asked for a failure close.
Fail(r) ==
    /\ Writable(r) /\ transition_allowed(status[r], "fail")
    /\ r \notin inflight /\ close[r] = "none"
    /\ validate_terminal_accounting(r, "failed")
    /\ UNCHANGED <<quarantined, step, inflight, usageVars, treeVars, settlement, cancel,
                   joinVars, closeVars>>

------------------------------------------------------------------------------
(* Cancellation, by a caller or by a deadline, and its delivery.            *)

\* Mutant: witnesses only while an attempt or a result of the parent is open.
OnlyDuringAttempt(r) ==
    [c \in Runs |-> IF c \in Unsettled(r) /\ node[r] # "idle" THEN "queued" ELSE cancel[c]]

\* capture_child_run_cancellation, capture_failure_close_children.
capture_children(r) ==
    [c \in Runs |-> IF c \in Unsettled(r) THEN "queued" ELSE cancel[c]]

\* Mutant: a run that is closing may still be cancelled.
CancelsClosingRun(r) ==
    /\ Writable(r) /\ transition_allowed(status[r], "request_cancellation")
    /\ status' = [status EXCEPT ![r] = "cancellation_requested"]
    /\ cancel' = capture_children(r)
    /\ UNCHANGED <<quarantined, rowVars, usageVars, total, treeVars, settlement, joinVars,
                   closeVars>>

\* A caller's request, or request_agent_deadline_cancellation.
RequestCancellation(r) ==
    /\ Writable(r) /\ transition_allowed(status[r], "request_cancellation")
    /\ close[r] = "none"
    /\ status' = [status EXCEPT ![r] = "cancellation_requested"]
    /\ cancel' = capture_children(r)
    /\ UNCHANGED <<quarantined, rowVars, usageVars, total, treeVars, settlement, joinVars,
                   closeVars>>

\* Mutant: only the parent's quarantine is looked at.
ChecksParentQuarantine(c) == Owned(c) /\ Writable(ParentOf(c)) /\ Free(c)

\* The reconciler locks a parent and one child; neither may be quarantined.
Pair(c) == Owned(c) /\ Writable(ParentOf(c)) /\ Writable(c)

\* deliver_child_cancellation: the outcome depends on the child's lifecycle.
ReceiptWithoutRequest(c, outcome) ==
    /\ cancel[c] = "queued" /\ Pair(c)
    /\ cancel' = [cancel EXCEPT ![c] = outcome]
    /\ UNCHANGED <<status, quarantined, rowVars, usageVars, total, treeVars, settlement,
                   joinVars, closeVars>>

DeliverToTerminal(c) ==
    Terminal(c) /\ ReceiptWithoutRequest(c, "terminal")

DeliverAlreadyRequested(c) ==
    status[c] = "cancellation_requested" /\ ReceiptWithoutRequest(c, "already_requested")

\* Mutant: the child's cancellation does not reach its own children.
DeliversToOneLevel(c) ==
    /\ cancel[c] = "queued" /\ Pair(c)
    /\ transition_allowed(status[c], "request_cancellation") /\ close[c] = "none"
    /\ status' = [status EXCEPT ![c] = "cancellation_requested"]
    /\ cancel' = [cancel EXCEPT ![c] = "requested"]
    /\ UNCHANGED <<quarantined, rowVars, usageVars, total, treeVars, settlement, joinVars,
                   closeVars>>

DeliverRequest(c) ==
    /\ cancel[c] = "queued" /\ Pair(c)
    /\ transition_allowed(status[c], "request_cancellation") /\ close[c] = "none"
    /\ status' = [status EXCEPT ![c] = "cancellation_requested"]
    /\ cancel' = [capture_children(c) EXCEPT ![c] = "requested"]
    /\ UNCHANGED <<quarantined, rowVars, usageVars, total, treeVars, settlement, joinVars,
                   closeVars>>

DeliverChildCancellation(c) ==
    DeliverToTerminal(c) \/ DeliverAlreadyRequested(c) \/ DeliverRequest(c)

ConfirmCancellation(r) ==
    /\ Writable(r) /\ r \in leased /\ status[r] = "cancellation_requested"
    /\ r \notin inflight
    /\ validate_terminal_accounting(r, "cancelled")
    /\ UNCHANGED <<quarantined, step, inflight, usageVars, treeVars, settlement, cancel,
                   joinVars, closeVars>>

------------------------------------------------------------------------------
(* Settlement and joins.                                                    *)

\* terminal_evidence and the settlement of the account: a terminal child with a
\* known price, and a parent that has not ended.
settlement_available(c) ==
    Terminal(c) /\ c \notin unpriced /\ settlement[c] = None /\ ~Terminal(ParentOf(c))

\* Mutant: the child's own calls are settled, not those of its subtree.
SettlesOwnCalls(c) == spent[c]

terminal_usage(c) == total[c]

SettleChildRun(c) ==
    /\ Pair(c)
    /\ settlement_available(c)
    /\ settlement' = [settlement EXCEPT ![c] = terminal_usage(c)]
    /\ UNCHANGED <<status, quarantined, rowVars, usageVars, total, treeVars, cancel,
                   joinVars, closeVars>>

\* register_child_join: the complete set of the activation's children, and
\* the worker gives up the run.
RegisterChildJoin(r) ==
    /\ WorkerOf(r) /\ node[r] = "started" /\ r \notin inflight
    /\ join[r] = "none"
    /\ Members(r) # {} /\ Members(r) \cap quarantined = {} /\ \A c \in Members(r) : Free(c)
    /\ join' = [join EXCEPT ![r] = "registered"]
    /\ Released(r)
    /\ UNCHANGED <<status, quarantined, step, inflight, usageVars, total, treeVars,
                   settlement, cancel, binding, closeVars>>

verify_members(r) == \A c \in Members(r) : settlement[c] # None

\* publish_child_join, by the control plane.
PublishChildJoin(r) ==
    /\ Writable(r) /\ status[r] = "active" /\ close[r] = "none"
    /\ join[r] = "registered"
    /\ verify_members(r) /\ Members(r) \cap quarantined = {} /\ \A c \in Members(r) : Free(c)
    /\ join' = [join EXCEPT ![r] = "ready"]
    /\ binding' = [binding EXCEPT ![r] =
                      [c \in Members(r) |-> [status |-> status[c], usage |-> settlement[c]]]]
    /\ UNCHANGED <<status, quarantined, rowVars, usageVars, total, treeVars, settlement,
                   cancel, closeVars>>

------------------------------------------------------------------------------
(* Failure closes.                                                          *)

\* terminal_pending_at of an ownership row.
terminal_pending(c) == Terminal(c) /\ settlement[c] = None

\* request_run_failure_close locks the parent and reads its children without
\* locking them.  One child's ownership row is read here ...
RequestRunFailureClose(r, c) ==
    /\ reading = None
    /\ WorkerOf(r) /\ node[r] # "started" /\ r \notin inflight \cup unpriced
    /\ close[r] = "none"
    /\ c = None <=> Children(r) = {}
    /\ reading' = [run |-> r, child |-> c, pending |-> c # None /\ terminal_pending(c)]
    /\ UNCHANGED <<status, quarantined, rowVars, usageVars, total, treeVars, settlement,
                   cancel, joinVars, close>>

\* ... and its lifecycle and terminal are read there, by load_record_inner.
EvidenceAgrees ==
    reading.pending = (reading.child # None /\ terminal_pending(reading.child))

close_run(r) ==
    /\ close' = [close EXCEPT ![r] = "requested"]
    /\ Released(r)
    /\ cancel' = capture_children(r)

CommitRunFailureClose ==
    /\ reading # None /\ EvidenceAgrees /\ reading.run \in leased
    /\ close_run(reading.run)
    /\ reading' = None
    /\ UNCHANGED <<status, quarantined, step, inflight, usageVars, total, treeVars,
                   settlement, joinVars>>

\* The request fails: its lease has expired, or the evidence read is torn and
\* reported as corrupt.
RejectRunFailureClose ==
    /\ reading # None /\ (~EvidenceAgrees \/ reading.run \notin leased)
    /\ reading' = None
    /\ UNCHANGED <<status, quarantined, rowVars, usageVars, total, treeVars, settlement,
                   cancel, joinVars, close>>

\* complete_run_failure_close reads the children without their locks too, but a
\* settled child has ended, and none is settled without the lock this holds: a
\* child that ends meanwhile only changes the error of a completion it prevents.
CompleteRunFailureClose(r) ==
    /\ Writable(r) /\ close[r] = "requested"
    /\ validate_terminal_accounting(r, "failed")
    /\ close' = [close EXCEPT ![r] = "completed"]
    /\ UNCHANGED <<quarantined, step, inflight, usageVars, treeVars, settlement, cancel,
                   joinVars, reading>>

------------------------------------------------------------------------------
\* Lease changes and the work of a run's own worker.
Works(r) ==
    \/ AcquireLease(r) \/ LoseLease(r) \/ StartRun(r) \/ StartNode(r)
    \/ PrepareContext(r) \/ StartCall(r) \/ (\E used \in Usages : SettleCall(r, used))
    \/ CommitResult(r)
    \/ \E new \in {"active", "waiting"} : AdvanceCheckpoint(r, new)
    \/ Succeed(r) \/ Fail(r) \/ ConfirmCancellation(r)
    \/ \E c \in Absent, slot \in Slots, amount \in ChildBudgets :
            AdmitChildRun(r, c, slot, amount)
    \/ RegisterChildJoin(r)
    \/ \E c \in Children(r) \cup {None} : RequestRunFailureClose(r, c)

\* The control plane: callers, deadlines, operators and the reconcilers.
Controls(r) ==
    \/ Resume(r) \/ RequestCancellation(r) \/ QuarantineRun(r)
    \/ DeliverChildCancellation(r) \/ SettleChildRun(r)
    \/ PublishChildJoin(r) \/ CompleteRunFailureClose(r)

Next ==
    \/ \E r \in Runs : Works(r) \/ Controls(r)
    \/ CommitRunFailureClose \/ RejectRunFailureClose

Spec == Init /\ [][Next]_vars

\* What the reconcilers and the workers of a cancelled run do to end it.  A run
\* takes each of these steps a bounded number of times.
Drains(r) ==
    \/ DeliverChildCancellation(r) \/ SettleChildRun(r) \/ CompleteRunFailureClose(r)
    \/ (\E used \in Usages : SettleCall(r, used)) \/ ConfirmCancellation(r)

\* A transaction ends and a runnable run is claimed.  The reconcilers repeat
\* their passes and queue for the row locks, and some worker of a cancelled run
\* keeps its lease for long enough: strong fairness.
Fairness ==
    /\ WF_vars(CommitRunFailureClose \/ RejectRunFailureClose)
    /\ \A r \in Runs : WF_vars(AcquireLease(r))
    /\ SF_vars(\E r \in Runs : Drains(r))

FairSpec == Spec /\ Fairness

------------------------------------------------------------------------------
(* Properties.                                                              *)

Subtree(r) == Descendants(r) \cup {r}

\* What a run and its descendants used, ...
SubtreeSpent(r) == MapThenSumSet(LAMBDA d : spent[d], Subtree(r))

\* ... of which the calls had declared this much.
SubtreeDeclared(r) == MapThenSumSet(LAMBDA d : spent[d] - excess[d], Subtree(r))

\* A tree ends from the leaves: a run that has ended owns no descendant that
\* has not ended or is not settled (guard_child_run_mutation, SKC02).
TreeEndsFromLeaves ==
    \A r \in Runs : Terminal(r) =>
        \A d \in Descendants(r) : Terminal(d) /\ settlement[d] # None

\* The usage a run ends with counts every call of its subtree exactly once,
\* through however many levels of settlement (validate_terminal_accounting).
UsageCountedOnce ==
    \A r \in Runs : Terminal(r) => total[r] = SubtreeSpent(r)

\* A subtree uses more than its root was admitted with only by what single calls
\* of it used beyond their declared limits: reservations, settlements and the
\* calls of a run share its budget without a gap, although a call's capacity is
\* compared before the transaction that starts it, and an overrun that was kept
\* is never spent again (ChildRunBudgetAccount::reserve and settle,
\* prepare_model_context, authorize_invocation_budget).
OnlyOverrunsExceedBudget ==
    \A r \in Runs : SubtreeDeclared(r) <= budget[r]

\* The limit of every ancestor on active descendants holds, not only the
\* parent's (check_topology).
DescendantLimitsHold ==
    \A r \in Runs : Cardinality({d \in Descendants(r) : settlement[d] = None}) <= MaxActive

\* No child is missed by a stop: each unsettled child of a run that is being
\* cancelled or closed has a witness, and a receipt says what became of the
\* child (capture_child_run_cancellation, deliver_child_cancellation).
StopReachesChildren ==
    /\ \A r \in Runs : status[r] = "cancellation_requested" \/ close[r] = "requested" =>
          \A c \in Unsettled(r) : cancel[c] # "none"
    /\ \A c \in Runs :
          /\ cancel[c] \in {"requested", "already_requested"} =>
                status[c] \in {"cancellation_requested", "cancelled"}
          /\ cancel[c] = "terminal" => Terminal(c)

\* A published join is bound to exactly the children of its activation, each
\* settled with the usage it ended with, until the result consumes it
\* (publish_child_join, guard_child_join_spawn).
JoinBindsFinalChildren ==
    \A r \in Runs : join[r] \in {"ready", "consumed"} =>
        /\ DOMAIN binding[r] = {c \in Children(r) : key[c].step = step[r]}
        /\ \A c \in DOMAIN binding[r] :
              /\ binding[r][c] = [status |-> status[c], usage |-> total[c]]
              /\ settlement[c] = total[c]

\* A parent makes no call while a child of it may be spending, and has no worker
\* while it waits for its children or its failure close (the lease gates SKC06,
\* guard_child_direct_invocation, ensure_no_unsettled_tool_invocations).
ParentRestsBesideChildren ==
    /\ \A r \in inflight : Unsettled(r) = {}
    /\ \A r \in leased :
        /\ ~(status[r] = "active" /\ join[r] = "registered")
        /\ close[r] = "none"

\* A failure close is the run's last decision: no later step gives it a
\* child, a call, a checkpoint or another end (guard_run_failure_close).  A
\* quarantined run is frozen, also for the reconcilers and its relatives: no
\* step changes its lifecycle, its work or the settlements of its children
\* (authorize_parent_append, settle_child_run, deliver_child_cancellation).
DecisionsStand ==
    [][/\ \A r \in Runs : close[r] # "none" =>
              /\ status'[r] \in {status[r], "failed"}
              /\ step'[r] = step[r] /\ spent'[r] = spent[r]
              /\ Children(r)' = Children(r)
       /\ \A r \in quarantined :
              /\ status'[r] = status[r] /\ step'[r] = step[r] /\ node'[r] = node[r]
              /\ spent'[r] = spent[r] /\ join'[r] = join[r] /\ close'[r] = close[r]
              /\ settlement'[r] = settlement[r]
              /\ \A c \in Children(r) :
                    settlement'[c] = settlement[c] /\ cancel'[c] = cancel[c]]_vars

\* Intact evidence is never reported as corrupt: a mutation reads a child's
\* ownership row and its terminal as of one moment (load_record_inner).
EvidenceNeverTorn == reading # None => EvidenceAgrees

\* A tree that is told to stop drains: every cancelled or closed run ends,
\* although its children end, fail and are cancelled in any order.
StoppedTreesEnd ==
    \A r \in Runs :
        (status[r] = "cancellation_requested" \/ close[r] = "requested") ~> Terminal(r)
==============================================================================
