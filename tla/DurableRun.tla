----------------------------- MODULE DurableRun -----------------------------
(***************************************************************************)
(* What the store promises the callers of one run, without clock, lease    *)
(* expiry, retries or lost answers: a totally ordered history in which     *)
(* every event occurs once, a lifecycle that is advanced by exactly the    *)
(* transitions in that history, one owner at a time with ever growing      *)
(* epochs, and acknowledgements only for events of the history.            *)
(* RunStore implements it.                                                 *)
(***************************************************************************)
EXTENDS Naturals, Sequences, RunLifecycle

CONSTANT ControlPlane   \* the source of events no worker owns

VARIABLES history,      \* the committed event intents, in order
          state,        \* the lifecycle status, or "absent"
          transitions,  \* how many transitions the history applied
          term,         \* the epoch of the latest owner
          owner,        \* the fence that may write, or ControlPlane
          known         \* the intents callers know to be committed

dvars == <<history, state, transitions, term, owner, known>>

DInit ==
    /\ history = <<>> /\ state = "absent" /\ transitions = 0
    /\ term = 0 /\ owner = ControlPlane /\ known = {}

Admit ==
    /\ state = "absent"
    /\ state' = "pending"
    /\ UNCHANGED <<history, transitions, term, owner, known>>

\* A new owner has a larger epoch than every owner before it.
TakeOver ==
    /\ state \in RunnableStatus
    /\ term' > term
    /\ owner'.epoch = term'
    /\ UNCHANGED <<history, state, transitions, known>>

Yield ==
    /\ owner' = ControlPlane
    /\ UNCHANGED <<history, state, transitions, term, known>>

\* One new event, written by the owner or the control plane.  A transition
\* names the number of transitions before it and follows the closed graph.
Record(intent) ==
    /\ \A i \in DOMAIN history : history[i].id # intent.id
    /\ intent.source \in {owner, ControlPlane}
    /\ history' = Append(history, intent)
    /\ \/ /\ intent.projection.kind = "none"
          /\ UNCHANGED <<state, transitions, owner>>
       \/ /\ intent.projection.kind # "none"
          /\ intent.projection.revision = transitions
          /\ transition_allowed(state, intent.projection.kind)
          /\ state' = apply_transition(intent.projection.kind)
          /\ transitions' = transitions + 1
          /\ owner' = IF state' \in RunnableStatus THEN owner ELSE ControlPlane
    /\ known' \in {known, known \cup {intent}}
    /\ UNCHANGED term

Learn(intent) ==
    /\ \E i \in DOMAIN history : history[i] = intent
    /\ known' = known \cup {intent}
    /\ UNCHANGED <<history, state, transitions, term, owner>>

DNext ==
    \/ Admit \/ TakeOver \/ Yield
    \/ history' # history /\ Record(history'[Len(history')])
    \/ \E i \in DOMAIN history : Learn(history[i])

DSpec == DInit /\ [][DNext]_dvars
=============================================================================
