SPECIFICATION Spec
CONSTANTS
    prefill = prefill
    decode = decode
    t1 = t1
    t2 = t2
    Threads <- TwoThreads
    Executables <- TwoExecutables
    Code <- TheCode
    Buffers <- TheBuffers
    NoContext = NoContext
    Versions = 2
SYMMETRY SymmetryThreads
INVARIANTS
    NoTwoStreamsConflict
    ContextsOutliveTheirUsers
    DeviceActsInOrder
