SPECIFICATION Spec
CONSTANTS
    Sizes <- OneSize
    Ranks <- Matrices
    Ops <- Products
    MaxTensors = 4
    MaxOutputs = 1
    ARENA_ALIGNMENT = 1
    Devices <- OnlyCPU
    MaxFailures = 0
    MaxRuns = 1
    MaxWrites = 0
    MaxBinds = 1
INVARIANTS OutputsReadable
CHECK_DEADLOCK FALSE
