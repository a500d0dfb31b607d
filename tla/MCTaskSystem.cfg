CONSTANTS
    Callers = {c1, c2}
    Setters = {}
    Workers = {w1, w2}
    Groups = {g1, g2}
    Launches = {l1, l2}
    MaxTasks = 2
    Budgets = {}
    NULL = NULL
SPECIFICATION Spec
SYMMETRY SymmetryCallers
INVARIANTS
    TypeOK
    RunsOnce
    SyncAfterAllTasks
    NoUseAfterFree
    CountersExact
    StaleItemsSpent
PROPERTIES
    ImplementsForkJoin
