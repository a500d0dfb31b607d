CONSTANTS
    Callers = {c1, c2}
    Setters = {c1}
    Workers = {w1, w2}
    Groups = {g1}
    Launches = {l1}
    MaxTasks = 2
    Budgets = {1, 2, 3}
    NULL = NULL
SPECIFICATION FairSpec
INVARIANTS
    NoLostWakeup
    BudgetHonoured
PROPERTIES
    KernelEnds
    BudgetReturns
    QueueDrains
