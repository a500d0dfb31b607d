CONSTANTS
    a = a
    b = b
    eos = eos
    Layers = 2
    Heads = 2
    KVHeads = 1
    Tokens = {a, b, eos}
    Bos = eos
    Eos = eos
    FirstToken = a
    Encodings <- MCEncodings
    DecodeText <- MCDecodeText
    Fallback <- MCFallback
    MaxPrompt = 2
    MaxLength = 3
    MaxNew = 3
    MaxCalls = 3
    MaxFailures = 1
SPECIFICATION Spec
INVARIANTS
    TypeOK
    CacheIsThatOfOnePass
    RowsSeeTheirPrefix
    GenerationAndSessionAgree
    StreamIsTheAnswer
PROPERTIES
    IsAConversation
    GenerateReturns
CHECK_DEADLOCK FALSE
