\* Every layout of up to two axes over integers from -6 to 5.
SPECIFICATION Spec
CONSTANTS
    MaxInt = 5
    Capacity = 4
    MaxRank = 2
INVARIANTS TypeOK AcceptedFits RejectionIsJustified
PROPERTY NoOverflow
CHECK_DEADLOCK FALSE
