\* Three generations or two siblings, every way to end.
SPECIFICATION Spec
CHECK_DEADLOCK FALSE
SYMMETRY Symmetry
CONSTANTS
    Runs = {r0, r1, r2}
    r0 = r0
    r1 = r1
    r2 = r2
    Root = r0
    Slots = {s1, s2}
    s1 = s1
    s2 = s2
    RootBudget = 2
    ChildBudgets = {1}
    MaxChildren = 2
    MaxActive = 2
    MaxDepth = 2
    MaxSteps = 0
    Usages = {1, 2}
    Unpriceable = {}
    Quarantinable = {}
    None = None
INVARIANTS
    TreeEndsFromLeaves
    UsageCountedOnce
    OnlyOverrunsExceedBudget
    StopReachesChildren
