SPECIFICATION Spec
CONSTANTS
    ARENA_ALIGNMENT = 2
    Roots <- MCRoots
    LastStep = 2
    Sizes <- MCSizes
INVARIANTS TypeOK NoLiveOverlap ArenaHoldsGroups ArenaNeverWorse
CHECK_DEADLOCK FALSE
