\* Attention on the CPU whose query heads share two key heads.
SPECIFICATION Spec
CONSTANTS
    Devices = {"cpu"}
    StartShapes <- GroupedQueries
    IndexShapes <- NoTokenIds
    MaxViews = 0
    CpuThreads = 3
    ItemsPerThread = 2
    Refused = Refused
    Undefined = Undefined
    NotTaken = NotTaken
    Infinity = Infinity
    MinusInfinity = MinusInfinity
    NaN = NaN
    Plus <- PlusMod
    Times <- TimesMod
    Over <- OverMod
    Negative <- NegativeMod
    Less <- LessMod
    Exp <- ExpMod
    Sqrt <- SqrtMod
    Raised <- RaisedMod
    Cosine <- CosineMod
    Sine <- SineMod
    Angle <- AngleOf
    Epsilon = 1
    SqrtTwoOverPi = 5
    CubicCoefficient = 7
    OneHalf = 145
PROPERTY GroupedAttentionOnTheCpu
CHECK_DEADLOCK FALSE
