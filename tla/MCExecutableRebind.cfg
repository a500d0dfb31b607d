SPECIFICATION Spec
CONSTANTS
    Sizes <- EmptyOrTwo
    Ranks <- Matrices
    Ops <- StructureOps
    MaxTensors = 5
    MaxOutputs = 1
    ARENA_ALIGNMENT = 4
    Devices <- OnlyCPU
    MaxFailures = 1
    MaxRuns = 2
    MaxWrites = 1
    MaxBinds = 1
INVARIANTS KernelsSeeTheirOperands OutputsReadable InputsKept
CONSTRAINT Focus
CHECK_DEADLOCK FALSE
