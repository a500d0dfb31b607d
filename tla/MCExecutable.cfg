SPECIFICATION Spec
CONSTANTS
    Sizes <- OneSize
    Ranks <- MatricesAndBatches
    Ops <- AllOps
    MaxTensors = 4
    MaxOutputs = 1
    ARENA_ALIGNMENT = 1
    Devices <- AllDevices
    MaxFailures = 0
    MaxRuns = 1
    MaxWrites = 0
    MaxBinds = 0
INVARIANTS TypeOK KernelsSeeTheirOperands OutputsReadable ScheduleIsComplete OperandsAllocated
CHECK_DEADLOCK FALSE
