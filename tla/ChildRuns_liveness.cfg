\* A stopped tree of three generations drains.
SPECIFICATION FairSpec
CHECK_DEADLOCK FALSE
CONSTANTS
    Runs = {r0, r1, r2}
    r0 = r0
    r1 = r1
    r2 = r2
    Root = r0
    Slots = {s1}
    s1 = s1
    RootBudget = 1
    ChildBudgets = {0}
    MaxChildren = 1
    MaxActive = 2
    MaxDepth = 2
    MaxSteps = 0
    Usages = {1}
    Unpriceable = {}
    Quarantinable = {}
    None = None
PROPERTIES
    StoppedTreesEnd
