\* slice() on every kind of view, against what its documentation promises.
SPECIFICATION Spec
CONSTANTS
    Slots = {x}
    Undefined = Undefined
    Omitted = Omitted
    Inputs <- ArgumentInputs
    MaxCalls = 4
    MaxStorages = 3
VIEW State
PROPERTY SlicesAreClamped
CHECK_DEADLOCK FALSE
