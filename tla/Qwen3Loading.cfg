SPECIFICATION Spec
CONSTANTS
    None = None
    DType = "BFloat16"
    VocabSize = 5
    HiddenSize = 4
    IntermediateSize = 3
    HiddenLayers = 1
    AttentionHeads = 2
    KeyValueHeads = 1
    HeadDim = 2
    Parameters <- MCParameters
    Embedding <- MCEmbedding
    ShapeOf <- MCShapeOf
    DTypeOf <- MCDTypeOf
    Order <- MCOrder
    NameOf <- MCNameOf
    Files <- MCFiles
    Addresses = {a1, a2, a3, a4}
    Assigned = {"Float32"}
    Prompts = {2, 4}
    MaxPositions = 4
    MaxNewTokens = 1
    MaxLoads = 2
SYMMETRY Symmetry
INVARIANTS
    TypeOK
    StrictLoadIsComplete
    AbsentParametersAreKept
    ExceptionLeavesAPrefix
    ProjectionFollowsStorage
