\* Two threads share the context; the execution of any buffer may fail.
SPECIFICATION FairSpec
CONSTANTS
    Threads = {t1, t2}
    Buffers = {b1, b2}
    NoBuffer = NoBuffer
    MaxEncodings = 2
    MayFail = TRUE
INVARIANTS TypeOK Custody SynchronizedUpToOthers EncodingBound
PROPERTIES AcceptedWorkIsRecorded SynchronizeTerminates SynchronizedWorkRuns
