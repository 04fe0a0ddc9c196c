\* Two threads share a device with three blocks of memory.
SPECIFICATION Spec
CONSTANTS
    Threads = {t1, t2}
    Names = {x}
    Undefined = Undefined
    Nothing = Nothing
    Contexts = {c1, c2}
    Storages = {s1, s2, s3, s4}
    Addresses = {a1, a2, a3}
    None = None
    MaxQueue = 2
    Uploads = {2}
    MayFail = TRUE
SYMMETRY Symmetry
INVARIANTS TypeOK NoUseAfterFree NoLeak
PROPERTY ImplementsEager
