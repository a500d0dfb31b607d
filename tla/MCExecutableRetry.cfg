SPECIFICATION Spec
CONSTANTS
    Sizes <- OneSize
    Ranks <- Matrices
    Ops <- Products
    MaxTensors = 4
    MaxOutputs = 2
    ARENA_ALIGNMENT = 1
    Devices <- OnlyCPU
    MaxFailures = 1
    MaxRuns = 1
    MaxWrites = 0
    MaxBinds = 0
INVARIANTS KernelsSeeTheirOperands
CHECK_DEADLOCK FALSE
