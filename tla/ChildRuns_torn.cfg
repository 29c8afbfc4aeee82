\* A failure close reads its children while one of them ends.
SPECIFICATION Spec
CHECK_DEADLOCK FALSE
SYMMETRY Symmetry
CONSTANTS
    Runs = {r0, r1}
    r0 = r0
    r1 = r1
    
    Root = r0
    Slots = {s1}
    s1 = s1
    RootBudget = 2
    ChildBudgets = {1}
    MaxChildren = 2
    MaxActive = 2
    MaxDepth = 2
    MaxSteps = 0
    Usages = {1}
    Unpriceable = {}
    Quarantinable = {}
    None = None
INVARIANTS
    EvidenceNeverTorn
