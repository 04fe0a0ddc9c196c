SPECIFICATION Spec
CONSTANTS
    Threads = {t1, t2}
    Buffers = {b1, b2}
    NoBuffer = NoBuffer
    MaxEncodings = 2
    MayFail = FALSE
SYMMETRY Symmetry
INVARIANT ObservedWorkIsFinished
