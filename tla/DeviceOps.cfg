\* Every operation on every device, after views and moves.
SPECIFICATION Spec
CONSTANTS
    Devices = {"cpu", "cuda", "cublas", "cutlass", "metal"}
    StartShapes <- Tensors
    IndexShapes <- TokenIds
    MaxViews = 2
    CpuThreads = 3
    ItemsPerThread = 2
    Refused = Refused
    Undefined = Undefined
    NotTaken = NotTaken
    Infinity = Infinity
    MinusInfinity = MinusInfinity
    NaN = NaN
    Plus <- PlusMod
    Times <- TimesMod
    Over <- OverMod
    Negative <- NegativeMod
    Less <- LessMod
    Exp <- ExpMod
    Sqrt <- SqrtMod
    Raised <- RaisedMod
    Cosine <- CosineMod
    Sine <- SineMod
    Angle <- AngleOf
    Epsilon = 1
    SqrtTwoOverPi = 5
    CubicCoefficient = 7
    OneHalf = 145
INVARIANTS TypeOK ThreadedAgrees
PROPERTIES ArithmeticExact ProductsExact MovementExact AttentionExact NetworksExact RefusalsAgree
CHECK_DEADLOCK FALSE
