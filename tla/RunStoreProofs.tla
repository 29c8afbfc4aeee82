--------------------------- MODULE RunStoreProofs ---------------------------
(***************************************************************************)
(* Proofs about RunStore for every number of events, attempts and epochs   *)
(* and for every clock.                                                    *)
(***************************************************************************)
EXTENDS RunStore, SequenceTheorems, TLAPS

\* What one successful append does, with its request spelled out.
Commits(intent) ==
    /\ intent \in Intent
    /\ ~EventIn(intent.id)
    /\ NotQuarantined
    /\ intent.source \in granted \cup {ControlPlane}
    /\ Authorized(intent.source)
    /\ CommitEvent(intent, Len(journal))

\* Journal time of the next event is a clock reading.
LEMMA RecordedAtType ==
    ASSUME TypeOK PROVE RecordedAt \in Time
<1>1. CASE journal = <<>>
  BY <1>1 DEF RecordedAt, TypeOK
<1>2. CASE journal # <<>>
  <2>1. journal[Len(journal)] \in Event
    BY <1>2 DEF TypeOK
  <2> QED
    BY <1>2, <2>1 DEF RecordedAt, TypeOK, Event, Max2
<1> QED BY <1>1, <1>2

\* Every append is the retry of a committed event or commits a new one.
LEMMA AppendCases ==
    ASSUME TypeOK, AppendByAnyone
    PROVE  \/ \E intent \in Intent : AppendRetry(intent)
           \/ \E intent \in Intent : Commits(intent)
<1>1. PICK id \in EventIds, source \in granted \cup {ControlPlane}, payload \in Payloads :
          AppendEvent(id, source, payload)
  BY DEF AppendByAnyone
<1> DEFINE Request(p) == [id |-> id, source |-> source, payload |-> payload, projection |-> p]
<1>2. \A p \in RequestedProjection : Request(p) \in Intent
  <2>1. RequestedProjection \subseteq Projection
    BY DEF RequestedProjection, Projection, TypeOK
  <2>2. source \in Source
    BY DEF TypeOK, Source
  <2> QED
    BY <2>1, <2>2 DEF Intent
<1>3. CASE EventIn(id)
  <2>1. PICK p \in RequestedProjection : AppendRetry(Request(p))
    BY <1>1, <1>3 DEF AppendEvent
  <2> QED
    BY <1>2, <2>1
<1>4. CASE ~EventIn(id)
  <2>1. PICK expected \in 0..Len(journal), p \in RequestedProjection :
            CurrentHead(expected) /\ CommitEvent(Request(p), expected)
    BY <1>1, <1>4 DEF AppendEvent
  <2>2. NotQuarantined /\ Authorized(source)
    BY <1>1, <1>4 DEF AppendEvent
  <2>3. expected = Len(journal)
    BY <2>1 DEF CurrentHead
  <2>4. Commits(Request(p))
    BY <1>2, <1>4, <2>1, <2>2, <2>3 DEF Commits
  <2> QED
    BY <1>2, <2>4
<1> QED BY <1>3, <1>4

\* The journal after an accepted append.
LEMMA CommitAppends ==
    ASSUME TypeOK, NEW intent \in Intent, Commits(intent)
    PROVE  /\ journal' \in Seq(Event)
           /\ Len(journal') = Len(journal) + 1
           /\ \A i \in 1..Len(journal) : journal'[i] = journal[i]
           /\ journal'[Len(journal) + 1] =
                  [intent |-> intent, sequence |-> Len(journal) + 1, recorded_at |-> RecordedAt]
           /\ journal'[Len(journal) + 1].intent = intent
<1> DEFINE e == [intent |-> intent, sequence |-> Len(journal) + 1, recorded_at |-> RecordedAt]
<1>1. journal \in Seq(Event) /\ Len(journal) \in Nat
  BY DEF TypeOK
<1>2. e \in Event
  BY <1>1, RecordedAtType DEF Event
<1>3. journal' = Append(journal, e)
  BY DEF Commits, CommitEvent, insert_event
<1> QED
  BY <1>1, <1>2, <1>3, AppendProperties

-----------------------------------------------------------------------------
(* Type correctness. *)

\* An accepted append writes a well-typed event and row.
LEMMA CommitType ==
    ASSUME TypeOK, NEW intent \in Intent, Commits(intent)
    PROVE  TypeOK'
<1> DEFINE p == intent.projection
<1>1. RecordedAt \in Time
  BY RecordedAtType
<1>5. journal' \in Seq(Event)
  BY CommitAppends
<1>6. acked' \subseteq Intent
  BY DEF Commits, CommitEvent, TypeOK
<1>7. CASE IsTransition(p)
  <2>1. p \in [kind : TransitionKind, revision : Nat, at : Time]
    BY <1>7 DEF Intent, Projection, NoProjection, IsTransition
  <2>2. apply_transition(p.kind) \in RunStatus
    BY <2>1 DEF TransitionKind, apply_transition, RunStatus
  <2>3. /\ status' = apply_transition(p.kind)
        /\ revision' = revision + 1
        /\ changed_at' = p.at
        /\ ready_at' \in {RecordedAt, NoTime}
        /\ not_before' = NoTime
        /\ \/ UNCHANGED leaseVars
           \/ ClearLease
        /\ UNCHANGED admitted_at
    BY <1>7 DEF Commits, CommitEvent, update_run_head, NextRevision, LeaseAfter
  <2>4. /\ lease_attempt' \in Attempts \cup {None}
        /\ lease_renewed' \in Time \cup {NoTime}
        /\ lease_expires' \in Nat \cup {NoTime}
    BY <2>3 DEF TypeOK, ClearLease, leaseVars
  <2> QED
    BY <1>1, <1>5, <1>6, <2>1, <2>2, <2>3, <2>4 DEF TypeOK, Commits, CommitEvent
<1>8. CASE ~IsTransition(p)
  BY <1>5, <1>6, <1>8
     DEF TypeOK, Commits, CommitEvent, update_run_head, lifecycleVars, leaseVars, schedulerVars
<1> QED BY <1>7, <1>8

\* Every step of the store and of its clock preserves the type invariant.
LEMMA TypeStep ==
    ASSUME TypeOK, [Next]_vars
    PROVE  TypeOK'
<1> USE BoundsAreNatural, LeaseDurationIsPositive
<1>1. CASE AdmitRun
  BY <1>1 DEF AdmitRun, TypeOK, RunStatus, leaseVars
<1>2. ASSUME NEW attempt \in Attempts, GrantLease(attempt) PROVE TypeOK'
  <2>1. NextEpoch \in 1..MaxEpoch
    BY <1>2 DEF GrantLease, EpochLeft, NextEpoch, TypeOK
  <2>2. granted' \subseteq Fence
    BY <1>2, <2>1 DEF GrantLease, TypeOK, Fence
  <2>3. lease_expires' \in Nat
    BY <1>2 DEF GrantLease, TypeOK, Time
  <2> QED
    BY <1>2, <2>1, <2>2, <2>3 DEF GrantLease, TypeOK, lifecycleVars
<1>3. ASSUME NEW attempt \in Attempts, ClaimLease(attempt) \/ SupersedeLease(attempt)
      PROVE  TypeOK'
  BY <1>2, <1>3 DEF ClaimLease, SupersedeLease
<1>4. ASSUME NEW fence \in granted, ReleaseLease(fence) PROVE TypeOK'
  BY <1>4 DEF ReleaseLease, ClearLease, TypeOK, lifecycleVars
<1>5. ASSUME NEW fence \in granted, NEW desired \in 0..MaxTime + MaxHorizon,
             RenewLease(fence, desired)
      PROVE  TypeOK'
  BY <1>5 DEF RenewLease, TypeOK, lifecycleVars, schedulerVars
<1>6. ASSUME NEW fence \in granted, NEW expected \in 0..Len(journal), NEW until \in Time,
             ScheduleDelayedRetryWakeup(fence, expected, until)
      PROVE  TypeOK'
  BY <1>6 DEF ScheduleDelayedRetryWakeup, ClearLease, TypeOK, lifecycleVars
<1>7. CASE AppendByAnyone
  <2>1. ASSUME NEW intent \in Intent, AppendRetry(intent) PROVE TypeOK'
    BY <2>1 DEF AppendRetry, TypeOK, lifecycleVars, leaseVars, schedulerVars
  <2> QED
    BY <1>7, <2>1, AppendCases, CommitType
<1>8. CASE QuarantineByAnyone
  <2>1. PICK id \in QuarantineIds, fence \in granted \cup {None}, expected \in 0..Len(journal) :
            QuarantineRun([id |-> id, fence |-> fence, expected |-> expected])
    BY <1>8 DEF QuarantineByAnyone
  <2>2. [id |-> id, fence |-> fence, expected |-> expected] \in QuarantineRequest
    BY DEF QuarantineRequest, TypeOK
  <2> QED
    BY <2>1, <2>2 DEF QuarantineRun, ClearLease, TypeOK, lifecycleVars, schedulerVars
<1>9. CASE ClockAdvances \/ ClockRegresses
  BY <1>9 DEF ClockAdvances, ClockRegresses, TypeOK, lifecycleVars, leaseVars, schedulerVars
<1>10. CASE UNCHANGED vars
  BY <1>10 DEF vars, TypeOK, lifecycleVars, leaseVars, schedulerVars
<1> QED
  BY <1>1, <1>3, <1>4, <1>5, <1>6, <1>7, <1>8, <1>9, <1>10 DEF Next, StoreStep, LeaseStep

\* The row, the journal and the histories keep their types for ever.
THEOREM TypeCorrect == Spec => []TypeOK
<1>1. Init => TypeOK
  BY BoundsAreNatural DEF Init, TypeOK, RunStatus
<1> QED
  BY <1>1, TypeStep, PTL DEF Spec

-----------------------------------------------------------------------------
(* Fencing. *)

\* A step that neither grants a fence nor appends keeps the fencing invariant.
LEMMA FencingFrame ==
    ASSUME FencingInv, TypeOK', UNCHANGED <<granted, journal, epoch>>,
           Held' => lease_attempt' = lease_attempt
    PROVE  FencingInv'
<1>1. FencesOfRecord'
  BY DEF FencingInv, FencesOfRecord, Held, CurrentFence
<1>2. EpochNamesOneHolder' /\ FencedJournal'
  BY DEF FencingInv, EpochNamesOneHolder, FencedJournal
<1> QED BY <1>1, <1>2 DEF FencingInv

\* A grant: the new epoch is larger than every granted one.
LEMMA FencingGrant ==
    ASSUME FencingInv, TypeOK', NEW attempt \in Attempts, GrantLease(attempt)
    PROVE  FencingInv'
<1> DEFINE f == [attempt |-> attempt, epoch |-> epoch + 1]
<1>1. /\ granted' = granted \cup {f} /\ epoch' = epoch + 1
      /\ lease_attempt' = attempt /\ journal' = journal
  BY DEF GrantLease, NextEpoch
<1>2. epoch \in Nat /\ granted \subseteq Fence /\ \A g \in granted : g.epoch \in Nat
  BY DEF FencingInv, TypeOK, Fence
<1>3. \A g \in granted : g.epoch < f.epoch
  BY <1>2 DEF FencingInv, FencesOfRecord
<1>4. FencesOfRecord'
  <2>1. \A g \in granted' : g.epoch <= epoch'
    BY <1>1, <1>2, <1>3
  <2>2. CurrentFence' \in granted'
    BY <1>1 DEF CurrentFence
  <2> QED
    BY <1>1, <2>1, <2>2 DEF FencesOfRecord, FencingInv
<1>5. EpochNamesOneHolder'
  BY <1>1, <1>2, <1>3 DEF EpochNamesOneHolder, FencingInv
<1>6. FencedJournal'
  BY <1>1 DEF FencedJournal, FencingInv
<1> QED BY <1>4, <1>5, <1>6 DEF FencingInv

\* An append: its worker, if it has one, holds the newest epoch.
LEMMA FencingCommit ==
    ASSUME FencingInv, TypeOK', NEW intent \in Intent, Commits(intent)
    PROVE  FencingInv'
<1> DEFINE n == Len(journal) + 1
           src == intent.source
<1>1. /\ journal' \in Seq(Event) /\ Len(journal') = n
      /\ \A i \in 1..Len(journal) : journal'[i] = journal[i]
      /\ journal'[n].intent = intent
  BY CommitAppends DEF FencingInv
<1>2. /\ granted' = granted /\ epoch' = epoch
      /\ Held' => lease_attempt' = lease_attempt
  BY DEF Commits, CommitEvent, update_run_head, LeaseAfter, ClearLease, leaseVars, Held
<1>3. DOMAIN journal = 1..Len(journal) /\ DOMAIN journal' = 1..n
  BY <1>1 DEF FencingInv, TypeOK
<1>4. src \in granted \cup {ControlPlane}
  BY DEF Commits
<1>5. FencesOfRecord'
  <2>1. Held' => CurrentFence' \in granted'
    BY <1>2 DEF FencingInv, FencesOfRecord, Held, CurrentFence
  <2>2. \A i \in DOMAIN journal' : journal'[i].intent.source \in granted' \cup {ControlPlane}
    BY <1>1, <1>2, <1>3, <1>4 DEF FencingInv, FencesOfRecord
  <2> QED BY <1>2, <2>1, <2>2 DEF FencingInv, FencesOfRecord
<1>6. FencedJournal'
  <2>1. SUFFICES ASSUME NEW i \in 1..n, NEW j \in 1..n, i <= j,
                        journal'[i].intent.source # ControlPlane,
                        journal'[j].intent.source # ControlPlane
                 PROVE  \/ journal'[i].intent.source.epoch < journal'[j].intent.source.epoch
                        \/ journal'[i].intent.source = journal'[j].intent.source
    BY <1>3 DEF FencedJournal
  <2>2. CASE j # n
    BY <1>1, <1>3, <2>1, <2>2 DEF FencingInv, FencedJournal, TypeOK
  <2>3. CASE j = n
    <3>1. src \in granted /\ src = CurrentFence
      BY <1>1, <1>4, <2>1, <2>3 DEF Commits, Authorized, authorize_worker
    <3>2. CASE i = n
      BY <2>3, <3>2
    <3>3. CASE i # n
      <4> DEFINE f == journal[i].intent.source
      <4>1. f \in granted /\ f = journal'[i].intent.source
        BY <1>1, <1>3, <2>1, <3>3 DEF FencingInv, FencesOfRecord, TypeOK
      <4>2. f.epoch <= epoch /\ f.epoch \in Nat /\ epoch \in Nat
        BY <4>1 DEF FencingInv, FencesOfRecord, TypeOK, Fence
      <4>3. src.epoch = epoch
        BY <3>1 DEF CurrentFence
      <4>4. f.epoch = epoch => f = src
        BY <3>1, <4>1, <4>3 DEF FencingInv, EpochNamesOneHolder
      <4> QED BY <1>1, <2>3, <4>1, <4>2, <4>3, <4>4
    <3> QED BY <3>2, <3>3
  <2> QED BY <2>2, <2>3
<1> QED
  BY <1>2, <1>5, <1>6 DEF FencingInv, EpochNamesOneHolder

\* Every step preserves the fencing invariant.
LEMMA FencingStep ==
    ASSUME FencingInv, [Next]_vars
    PROVE  FencingInv'
<1>0. TypeOK'
  BY TypeStep DEF FencingInv
<1>1. CASE AdmitRun
  BY <1>0, <1>1, FencingFrame DEF AdmitRun, leaseVars
<1>2. ASSUME NEW attempt \in Attempts, ClaimLease(attempt) \/ SupersedeLease(attempt)
      PROVE  FencingInv'
  BY <1>0, <1>2, FencingGrant DEF ClaimLease, SupersedeLease
<1>3. ASSUME NEW fence \in granted, ReleaseLease(fence) PROVE FencingInv'
  BY <1>0, <1>3, FencingFrame DEF ReleaseLease, ClearLease, Held
<1>4. ASSUME NEW fence \in granted, NEW desired \in 0..MaxTime + MaxHorizon,
             RenewLease(fence, desired)
      PROVE  FencingInv'
  BY <1>0, <1>4, FencingFrame DEF RenewLease
<1>5. ASSUME NEW fence \in granted, NEW expected \in 0..Len(journal), NEW until \in Time,
             ScheduleDelayedRetryWakeup(fence, expected, until)
      PROVE  FencingInv'
  BY <1>0, <1>5, FencingFrame DEF ScheduleDelayedRetryWakeup, ClearLease, Held
<1>6. CASE AppendByAnyone
  <2>1. ASSUME NEW intent \in Intent, AppendRetry(intent) PROVE FencingInv'
    BY <1>0, <2>1, FencingFrame DEF AppendRetry, leaseVars
  <2>2. TypeOK
    BY DEF FencingInv
  <2> QED
    BY <1>0, <1>6, <2>1, <2>2, AppendCases, FencingCommit
<1>7. CASE QuarantineByAnyone
  BY <1>0, <1>7, FencingFrame DEF QuarantineByAnyone, QuarantineRun, ClearLease, Held
<1>8. CASE ClockAdvances \/ ClockRegresses
  BY <1>0, <1>8, FencingFrame DEF ClockAdvances, ClockRegresses, leaseVars
<1>9. CASE UNCHANGED vars
  BY <1>0, <1>9, FencingFrame DEF vars, leaseVars
<1> QED
  BY <1>1, <1>2, <1>3, <1>4, <1>5, <1>6, <1>7, <1>8, <1>9 DEF Next, StoreStep, LeaseStep

\* Fencing (authorize_worker, acquire_lease): worker epochs in the journal
\* never decrease and an epoch has one holder, for any number of workers.
THEOREM JournalIsFenced == Spec => []FencingInv
<1>1. Init => FencingInv
  <2> SUFFICES ASSUME Init PROVE FencingInv
    OBVIOUS
  <2>1. TypeOK
    BY BoundsAreNatural DEF Init, TypeOK, RunStatus
  <2>2. DOMAIN journal = {} /\ granted = {} /\ ~Held
    BY DEF Init, Held
  <2> QED
    BY <2>1, <2>2 DEF FencingInv, FencesOfRecord, EpochNamesOneHolder, FencedJournal
<1> QED
  BY <1>1, FencingStep, PTL DEF Spec

\* A worker displaced by a later grant neither appends nor quarantines,
\* however late its request arrives (authorize_worker,
\* authorize_quarantine_fence).
THEOREM DisplacedWorkerIsHarmless == Spec => DisplacedWorkerHasNoEffect
<1> DEFINE A == /\ journal' # journal =>
                      LET source == journal'[Len(journal')].intent.source
                      IN  source # ControlPlane => \A f \in granted : f.epoch <= source.epoch
                /\ quarantine' # quarantine /\ quarantine'.fence # None =>
                      \A f \in granted : f.epoch <= quarantine'.fence.epoch
<1>1. ASSUME FencingInv, [Next]_vars PROVE [A]_vars
  <2>0. TypeOK /\ \A f \in granted : f.epoch <= epoch
    BY <1>1 DEF FencingInv, FencesOfRecord
  <2>1. ASSUME NEW intent \in Intent, Commits(intent) PROVE A
    <3>1. journal'[Len(journal')].intent = intent
      BY <2>0, <2>1, CommitAppends
    <3>2. intent.source # ControlPlane => intent.source.epoch = epoch
      BY <2>1 DEF Commits, Authorized, authorize_worker, CurrentFence
    <3>3. quarantine' = quarantine
      BY <2>1 DEF Commits, CommitEvent
    <3> QED BY <2>0, <3>1, <3>2, <3>3
  <2>2. ASSUME NEW intent \in Intent, AppendRetry(intent) PROVE A
    BY <2>2 DEF AppendRetry
  <2>3. CASE QuarantineByAnyone
    <3>1. PICK id \in QuarantineIds, fence \in granted \cup {None}, expected \in 0..Len(journal) :
              QuarantineRun([id |-> id, fence |-> fence, expected |-> expected])
      BY <2>3 DEF QuarantineByAnyone
    <3>2. quarantine'.fence = fence /\ journal' = journal
      BY <3>1 DEF QuarantineRun
    <3>3. fence # None => fence.epoch = epoch
      BY <3>1 DEF QuarantineRun, authorize_quarantine_fence, authorize_worker, CurrentFence
    <3> QED BY <2>0, <3>2, <3>3
  <2>4. CASE AppendByAnyone
    BY <2>0, <2>1, <2>2, <2>4, AppendCases
  <2>5. CASE AdmitRun \/ LeaseStep \/ ClockAdvances \/ ClockRegresses
    BY <2>5 DEF AdmitRun, LeaseStep, ClaimLease, SupersedeLease, GrantLease, RenewLease,
                ReleaseLease, ScheduleDelayedRetryWakeup, ClockAdvances, ClockRegresses
  <2> QED
    BY <1>1, <2>3, <2>4, <2>5 DEF Next, StoreStep
<1> QED
  BY <1>1, JournalIsFenced, PTL DEF Spec, DisplacedWorkerHasNoEffect

-----------------------------------------------------------------------------
(* The journal. *)

\* A step that leaves journal and row alone keeps the journal invariant.
LEMMA JournalFrame ==
    ASSUME JournalInv, TypeOK', UNCHANGED <<status, journal, revision, changed_at, acked>>
    PROVE  JournalInv'
BY DEF JournalInv, JournalIsChain, JournalTimeMonotone, RevisionConsumedOnce,
       ChangeDatedByJournal, AckedIsCommitted

\* No event of the journal is dated after the next one.
LEMMA RecordedAtIsLatest ==
    ASSUME TypeOK, JournalTimeMonotone
    PROVE  \A i \in 1..Len(journal) : journal[i].recorded_at <= RecordedAt
<1> SUFFICES ASSUME NEW i \in 1..Len(journal) PROVE journal[i].recorded_at <= RecordedAt
  OBVIOUS
<1>1. journal \in Seq(Event) /\ journal # <<>> /\ DOMAIN journal = 1..Len(journal) /\ Len(journal) \in Nat
  BY DEF TypeOK
<1>2. journal[i] \in Event /\ journal[Len(journal)] \in Event
  BY <1>1
<1>3. journal[i].recorded_at <= journal[Len(journal)].recorded_at
  BY <1>1 DEF JournalTimeMonotone
<1>4. journal[i].recorded_at \in Int /\ journal[Len(journal)].recorded_at \in Int /\ now \in Int
  BY <1>2, BoundsAreNatural DEF Event, Time, TypeOK
<1> QED
  BY <1>1, <1>3, <1>4 DEF RecordedAt, Max2

\* An accepted append extends the chain, keeps journal time monotone and
\* consumes exactly the lifecycle revision its caller observed.
LEMMA JournalCommit ==
    ASSUME JournalInv, TypeOK', NEW intent \in Intent, Commits(intent)
    PROVE  JournalInv'
<1> DEFINE n == Len(journal) + 1
           p == intent.projection
           P(i) == journal[i].intent.projection
<1>1. /\ journal' \in Seq(Event) /\ Len(journal') = n
      /\ \A i \in 1..Len(journal) : journal'[i] = journal[i]
      /\ journal'[n].intent = intent
      /\ journal'[n].sequence = n /\ journal'[n].recorded_at = RecordedAt
  <2>1. TypeOK
    BY DEF JournalInv
  <2>2. journal'[n] = [intent |-> intent, sequence |-> n, recorded_at |-> RecordedAt]
    BY <2>1, CommitAppends
  <2>3. journal'[n].intent = intent /\ journal'[n].sequence = n /\ journal'[n].recorded_at = RecordedAt
    BY <2>2
  <2> QED BY <2>1, <2>3, CommitAppends
<1>2. Len(journal) \in Nat /\ DOMAIN journal = 1..Len(journal) /\ DOMAIN journal' = 1..n
  BY <1>1 DEF JournalInv, TypeOK
<1>3. TypeOK /\ JournalIsChain /\ JournalTimeMonotone /\ RevisionConsumedOnce
      /\ ChangeDatedByJournal /\ AckedIsCommitted
  BY DEF JournalInv
<1>4. RecordedAt \in Time /\ \A i \in 1..Len(journal) : journal[i].recorded_at <= RecordedAt
  BY <1>3, RecordedAtType, RecordedAtIsLatest
<1>5. JournalIsChain'
  <2>1. \A i \in 1..Len(journal) : journal[i].intent.id # intent.id
    BY <1>2 DEF Commits, EventIn
  <2> QED
    BY <1>1, <1>2, <1>3, <2>1 DEF JournalIsChain
<1>6. JournalTimeMonotone'
  <2>1. RecordedAt \in Int
    BY <1>4, BoundsAreNatural DEF Time
  <2> QED
    BY <1>1, <1>2, <1>3, <1>4, <2>1 DEF JournalTimeMonotone
<1>7. AckedIsCommitted'
  BY <1>1, <1>2, <1>3 DEF AckedIsCommitted, Commits, CommitEvent
<1>10. status' # "absent"
  <2>1. IsTransition(p) => p.kind \in TransitionKind
    BY DEF Intent, Projection, NoProjection, IsTransition
  <2>2. p.kind \in TransitionKind => apply_transition(p.kind) # "absent"
    BY DEF TransitionKind, apply_transition
  <2> QED
    BY <2>1, <2>2 DEF Commits, CommitEvent, update_run_head, lifecycleVars, NotQuarantined
<1>8. CASE ~IsTransition(p)
  <2>1. UNCHANGED <<revision, changed_at>>
    BY <1>8 DEF Commits, CommitEvent, update_run_head, lifecycleVars
  <2>2. RevisionConsumedOnce'
    BY <1>1, <1>2, <1>3, <1>8, <2>1 DEF RevisionConsumedOnce
  <2>3. ChangeDatedByJournal'
    BY <1>1, <1>2, <1>3, <1>8, <2>1 DEF ChangeDatedByJournal
  <2> QED BY <1>5, <1>6, <1>7, <1>10, <2>2, <2>3 DEF JournalInv
<1>9. CASE IsTransition(p)
  <2>1. /\ p.revision = revision /\ revision' = revision + 1 /\ changed_at' = p.at
        /\ p.at >= changed_at /\ p.at <= RecordedAt
    BY <1>9 DEF Commits, CommitEvent, prepare_projection, ObservedRevision, DatedByCommit,
                update_run_head, NextRevision
  <2>2. /\ p \in [kind : TransitionKind, revision : Nat, at : Time]
        /\ \A i \in 1..Len(journal) :
               IsTransition(P(i)) => P(i) \in [kind : TransitionKind, revision : Nat, at : Time]
    <3>1. \A i \in 1..Len(journal) : journal[i] \in Event
      BY <1>2, <1>3 DEF TypeOK
    <3>2. \A i \in 1..Len(journal) : P(i) \in Projection
      BY <3>1 DEF Event, Intent
    <3> QED
      BY <1>9, <3>2 DEF Intent, Projection, NoProjection, IsTransition
  <2>3. revision \in Nat /\ changed_at \in Int
    BY <1>3, BoundsAreNatural DEF TypeOK, Time, NoTime
  <2>4. RevisionConsumedOnce'
    <3>1. ASSUME NEW r \in 0..revision' - 1
          PROVE  \E i \in DOMAIN journal' : /\ IsTransition(journal'[i].intent.projection)
                                            /\ journal'[i].intent.projection.revision = r
      <4>1. CASE r = revision
        BY <1>1, <1>2, <1>9, <2>1, <4>1
      <4>2. CASE r # revision
        <5>1. r \in 0..revision - 1
          BY <2>1, <2>3, <4>2
        <5>2. PICK i \in DOMAIN journal : IsTransition(P(i)) /\ P(i).revision = r
          BY <1>3, <5>1 DEF RevisionConsumedOnce
        <5> QED BY <1>1, <1>2, <5>2
      <4> QED BY <4>1, <4>2
    <3>2. \A i \in 1..Len(journal) : IsTransition(P(i)) => P(i).revision < revision
      BY <1>2, <1>3 DEF RevisionConsumedOnce
    <3>3. ASSUME NEW i \in 1..n, NEW j \in 1..n,
                 IsTransition(journal'[i].intent.projection),
                 IsTransition(journal'[j].intent.projection)
          PROVE  /\ journal'[i].intent.projection.revision < revision'
                 /\ journal'[i].intent.projection.revision = journal'[j].intent.projection.revision
                        => i = j
      <4>1. CASE i = n /\ j = n
        BY <1>1, <2>1, <2>2, <2>3, <4>1
      <4>2. CASE i = n /\ j # n
        BY <1>1, <1>2, <2>1, <2>2, <2>3, <3>2, <3>3, <4>2
      <4>3. CASE i # n /\ j = n
        BY <1>1, <1>2, <2>1, <2>2, <2>3, <3>2, <3>3, <4>3
      <4>4. CASE i # n /\ j # n
        <5>1. /\ i \in DOMAIN journal /\ j \in DOMAIN journal
              /\ journal'[i] = journal[i] /\ journal'[j] = journal[j]
          BY <1>1, <1>2, <4>4
        <5>2. P(i).revision < revision /\ (P(i).revision = P(j).revision => i = j)
          BY <1>3, <3>3, <5>1 DEF RevisionConsumedOnce
        <5> QED BY <1>2, <2>1, <2>2, <2>3, <3>3, <5>1, <5>2
      <4> QED BY <4>1, <4>2, <4>3, <4>4
    <3> QED BY <1>2, <3>1, <3>3 DEF RevisionConsumedOnce
  <2>5. ChangeDatedByJournal'
    <3>0. /\ p.at \in Int /\ RecordedAt \in Int
          /\ \A i \in 1..Len(journal) : IsTransition(P(i)) => P(i).at \in Int
      BY <1>4, <2>2, BoundsAreNatural DEF Time
    <3>1. \A i \in 1..Len(journal) : IsTransition(P(i)) =>
              P(i).at <= journal[i].recorded_at /\ P(i).at <= p.at
      BY <1>2, <1>3, <2>1, <2>3, <3>0 DEF ChangeDatedByJournal
    <3>2. \A i \in DOMAIN journal' : IsTransition(journal'[i].intent.projection) =>
              /\ journal'[i].intent.projection.at <= journal'[i].recorded_at
              /\ journal'[i].intent.projection.at <= changed_at'
      BY <1>1, <1>2, <2>1, <3>0, <3>1
    <3>3. ASSUME NEW i \in 1..n, NEW j \in 1..n, i <= j,
                 IsTransition(journal'[i].intent.projection),
                 IsTransition(journal'[j].intent.projection)
          PROVE  journal'[i].intent.projection.at <= journal'[j].intent.projection.at
      <4>1. CASE j = n
        BY <1>1, <2>1, <3>0, <3>2, <1>2, <3>3, <4>1
      <4>2. CASE j # n
        BY <1>1, <1>2, <1>3, <3>3, <4>2 DEF ChangeDatedByJournal
      <4> QED BY <4>1, <4>2
    <3> QED BY <1>2, <3>2, <3>3 DEF ChangeDatedByJournal
  <2> QED BY <1>5, <1>6, <1>7, <1>10, <2>4, <2>5 DEF JournalInv
<1> QED BY <1>8, <1>9

\* Every step preserves the journal invariant.
LEMMA JournalStep ==
    ASSUME JournalInv, [Next]_vars
    PROVE  JournalInv'
<1>0. TypeOK /\ TypeOK'
  BY TypeStep DEF JournalInv
<1>1. CASE AdmitRun
  <2>1. UNCHANGED <<revision, journal, acked>> /\ status' = "pending" /\ DOMAIN journal = {}
    BY <1>1 DEF AdmitRun, JournalInv
  <2> QED
    BY <1>0, <2>1 DEF JournalInv, JournalIsChain, JournalTimeMonotone, RevisionConsumedOnce,
                      ChangeDatedByJournal, AckedIsCommitted
<1>2. CASE LeaseStep
  BY <1>0, <1>2, JournalFrame
     DEF LeaseStep, ClaimLease, SupersedeLease, GrantLease, RenewLease, ReleaseLease,
         ScheduleDelayedRetryWakeup, lifecycleVars
<1>3. CASE AppendByAnyone
  <2>1. ASSUME NEW intent \in Intent, AppendRetry(intent) PROVE JournalInv'
    <3>1. UNCHANGED <<status, journal, revision, changed_at>>
      BY <2>1 DEF AppendRetry, lifecycleVars
    <3>2. \E i \in DOMAIN journal : journal[i].intent = intent
      BY <2>1 DEF AppendRetry, matches_intent
    <3>3. AckedIsCommitted'
      BY <2>1, <3>1, <3>2 DEF AppendRetry, AckedIsCommitted, JournalInv
    <3> QED
      BY <1>0, <3>1, <3>3
         DEF JournalInv, JournalIsChain, JournalTimeMonotone, RevisionConsumedOnce,
             ChangeDatedByJournal
  <2> QED
    BY <1>0, <1>3, <2>1, AppendCases, JournalCommit
<1>4. CASE QuarantineByAnyone
  BY <1>0, <1>4, JournalFrame DEF QuarantineByAnyone, QuarantineRun, lifecycleVars
<1>5. CASE ClockAdvances \/ ClockRegresses
  BY <1>0, <1>5, JournalFrame DEF ClockAdvances, ClockRegresses, lifecycleVars
<1>6. CASE UNCHANGED vars
  BY <1>0, <1>6, JournalFrame DEF vars, lifecycleVars
<1> QED
  BY <1>1, <1>2, <1>3, <1>4, <1>5, <1>6 DEF Next, StoreStep

\* append under retries, stale heads and several writers: one chain without
\* duplicates, in monotone time, each lifecycle revision consumed once, and no
\* acknowledgement, at once or to a retry, of what is not in the journal.
THEOREM JournalIsExact == Spec => []JournalInv
<1>1. Init => JournalInv
  <2> SUFFICES ASSUME Init PROVE JournalInv
    OBVIOUS
  <2>1. TypeOK
    BY BoundsAreNatural DEF Init, TypeOK, RunStatus
  <2>2. journal = <<>> /\ DOMAIN journal = {} /\ acked = {} /\ revision = 0
    BY DEF Init
  <2>3. 0..revision - 1 = {}
    BY <2>2
  <2> QED
    BY <2>1, <2>2, <2>3
       DEF JournalInv, JournalIsChain, JournalTimeMonotone, RevisionConsumedOnce,
           ChangeDatedByJournal, AckedIsCommitted
<1> QED
  BY <1>1, JournalStep, PTL DEF Spec
=============================================================================
