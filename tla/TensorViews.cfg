\* Every kind of argument to the view functions, in chains of three calls.
SPECIFICATION Spec
CONSTANTS
    Slots = {x}
    Undefined = Undefined
    Omitted = Omitted
    Inputs <- ArgumentInputs
    MaxCalls = 4
    MaxStorages = 3
VIEW State
INVARIANTS TypeOK ContiguousMeansConsecutive
 
CHECK_DEADLOCK FALSE
