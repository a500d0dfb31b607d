\* Products of operands whose ranks differ.
SPECIFICATION Spec
CONSTANTS
    THREADS = 4
    WARP = 2
    WARPS = 2
    TransposeSerial = 8
    TransposeTasks = 3
    EmbeddingSerial = 2
    EmbeddingTasks = 2
    CUDA_RANK = 4
    AddSerial = 3
    RsqrtSerial = 2
    ElementTasks = 2
    RowSerial = 1
    RotarySerial = 2
    RowTasks = 2
    KC = 3
    NC = 4
    MC = 4
    PANEL = 2
    ROWS = 2
    SMALL_M = 2
    BLOCK_N = 12
    LANES = 2
    UNROLL = 2
    N_STEP = 2
    TileTasks = 2
    BLOCK = 2
    CHUNK = 4
    INT4_BLOCK = 4
    ITEMS = 2
    Calls <- RankCalls
    Weights <- NoMatrices
    Vocabulary <- TheVocabulary
    Merges <- TheMerges
    AddedTokens <- TheAddedTokens
    SIZE_MAX = 63
    LENGTH_BYTES = 2
    MaxHeaderBytes = 8
    Files <- NoFiles
    Texts <- NoTexts
    Length = 4
    Bytes = {10, 32, 33, 39, 97, 115, 195, 169}
INVARIANT KernelsComputeTheOperator
