\* Successive supersteps of a parent with one active child at a
\* time, an operator who may quarantine any run, and a root whose calls may have
\* no known price.
SPECIFICATION Spec
CHECK_DEADLOCK FALSE
SYMMETRY Symmetry
CONSTANTS
    Runs = {r0, r1, r2}
    r0 = r0
    r1 = r1
    r2 = r2
    Root = r0
    Slots = {s1, s2}
    s2 = s2
    s1 = s1
    RootBudget = 1
    ChildBudgets = {1}
    MaxChildren = 2
    MaxActive = 1
    MaxDepth = 2
    MaxSteps = 1
    Usages = {1}
    Unpriceable = {r0}
    Quarantinable = {r0, r1, r2}
    None = None
INVARIANTS
    TypeOK
    DescendantLimitsHold
    ParentRestsBesideChildren
    JoinBindsFinalChildren
PROPERTIES
    DecisionsStand
