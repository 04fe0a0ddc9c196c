-------------------------- MODULE LayoutValidation --------------------------
(***************************************************************************)
(* validate_layout(), the constructor's check of a tensor's layout, with   *)
(* the width of its integers: one step per axis of the loop that tracks    *)
(* the lowest and the highest storage element the layout reaches. Beside   *)
(* the loop, addresses collects what it is to vouch for: the elements that *)
(* the axes read so far really reach.                                      *)
(***************************************************************************)
EXTENDS Integers, Sequences

CONSTANTS
    MaxInt,    \* the greatest std::int64_t
    Capacity,  \* elements in the storage: nbytes / element size
    MaxRank    \* axes of a layout (a bound)

ASSUME MaxIntAssumption == MaxInt \in Nat
ASSUME CapacityAssumption == Capacity \in Nat
ASSUME MaxRankAssumption == MaxRank \in Nat

MinInt == -MaxInt - 1
Int64 == MinInt..MaxInt

VARIABLES
    shape, strides, offset,   \* the arguments
    axis,        \* the next axis to read
    empty,       \* has an axis without elements been read?
    minimum,     \* minimum_offset
    maximum,     \* maximum_offset
    addresses,   \* storage elements reached along the axes before this one
    verdict      \* "open" until the function returns or throws

arguments == <<shape, strides, offset>>
vars == <<shape, strides, offset, axis, empty, minimum, maximum, addresses, verdict>>

Layouts == UNION {[1..rank -> Int64] : rank \in 0..MaxRank}

Init ==
    /\ shape \in Layouts
    /\ strides \in Layouts
    /\ offset \in Int64
    /\ axis = 1
    /\ empty = FALSE
    /\ minimum = offset
    /\ maximum = offset
    /\ addresses = {offset}
    /\ verdict = IF Len(shape) # Len(strides) \/ offset < 0 THEN "rejected" ELSE "open"

Reject ==
    /\ verdict' = "rejected"
    /\ UNCHANGED <<arguments, axis, empty, minimum, maximum, addresses>>

\* The elements of the axis at hand, from each of those reached so far.
Extend ==
    /\ axis' = axis + 1
    /\ addresses' = {a + c * strides[axis] : a \in addresses, c \in 0..shape[axis] - 1}
    /\ UNCHANGED <<arguments, verdict>>

Reading == verdict = "open" /\ axis <= Len(shape)
Extent == shape[axis] - 1

RejectNegative == Reading /\ shape[axis] < 0 /\ Reject

ReadEmpty ==
    /\ Reading
    /\ shape[axis] = 0
    /\ empty' = TRUE
    /\ Extend
    /\ UNCHANGED <<minimum, maximum>>

\* Mutant: the bound forgets what is already reached.
Overflows_FromZero == Extent # 0 /\ strides[axis] > MaxInt \div Extent

\* Mutant: the room above is compared with the stride alone.
Overflows_ForgetsExtent == Extent # 0 /\ strides[axis] > MaxInt - maximum

\* maximum + Extent * strides[axis] would exceed MaxInt.
Overflows == Extent # 0 /\ strides[axis] > (MaxInt - maximum) \div Extent

\* Mutant: the distance is compared with >= where the code has >.
Underflows_AtZero ==
    strides[axis] = MinInt \/ (Extent # 0 /\ -strides[axis] >= minimum \div Extent)

\* minimum + Extent * strides[axis] would fall below zero.
Underflows ==
    strides[axis] = MinInt \/ (Extent # 0 /\ -strides[axis] > minimum \div Extent)

ReadForward ==
    /\ Reading
    /\ shape[axis] > 0
    /\ strides[axis] >= 0
    /\ IF Overflows THEN Reject
       ELSE /\ maximum' = maximum + Extent * strides[axis]
            /\ Extend
            /\ UNCHANGED <<empty, minimum>>

\* Mutant: a backward axis moves the upper end instead of the lower one.
ReadBackward_MovesMaximum ==
    /\ Reading
    /\ shape[axis] > 0
    /\ strides[axis] < 0
    /\ IF Underflows THEN Reject
       ELSE /\ maximum' = maximum + Extent * strides[axis]
            /\ Extend
            /\ UNCHANGED <<empty, minimum>>

ReadBackward ==
    /\ Reading
    /\ shape[axis] > 0
    /\ strides[axis] < 0
    /\ IF Underflows THEN Reject
       ELSE /\ minimum' = minimum + Extent * strides[axis]
            /\ Extend
            /\ UNCHANGED <<empty, maximum>>

\* After the loop.
Decide ==
    /\ verdict = "open"
    /\ axis > Len(shape)
    /\ verdict' = IF empty THEN "accepted"
                  ELSE IF minimum < 0 \/ maximum + 1 > Capacity THEN "rejected"
                  ELSE "accepted"
    /\ UNCHANGED <<arguments, axis, empty, minimum, maximum, addresses>>

Next == RejectNegative \/ ReadEmpty \/ ReadForward \/ ReadBackward \/ Decide

Spec == Init /\ [][Next]_vars

-----------------------------------------------------------------------------
(* Types; in particular the running bounds never leave std::int64_t.         *)
TypeOK ==
    /\ shape \in Seq(Int64)
    /\ strides \in Seq(Int64)
    /\ offset \in Int64
    /\ axis \in 1..Len(shape) + 1
    /\ empty \in BOOLEAN
    /\ minimum \in Int64
    /\ maximum \in Int64
    /\ addresses \in SUBSET Int
    /\ verdict \in {"open", "accepted", "rejected"}

(* Every element of an accepted layout lies in its storage, whatever the     *)
(* signs and magnitudes of the strides (tensor_design.md, "Bounds and        *)
(* invariants": "every reachable element fits within storage").              *)
AcceptedFits == verdict = "accepted" => addresses \subseteq 0..Capacity - 1

(* The guards in front of the two additions are enough: the products that    *)
(* are added do not leave the range of std::int64_t either, on any path.     *)
NoOverflow == [][{minimum' - minimum, maximum' - maximum} \subseteq Int64]_vars

\* The addresses of all elements of the layout.
Elements ==
    LET from[k \in 0..Len(shape)] ==
            IF k = 0 THEN {offset}
            ELSE {a + c * strides[k] : a \in from[k - 1], c \in 0..shape[k] - 1}
    IN  from[Len(shape)]

(* The check is not stricter than it must be: a layout with elements, of     *)
(* legal rank, dimensions and offset, is rejected only if an element of it   *)
(* lies outside of the storage. A stride of MinInt, which has no negation,   *)
(* is the exception: it is refused even where an axis of one element never   *)
(* takes it.                                                                 *)
RejectionIsJustified ==
    /\ verdict = "rejected"
    /\ Len(shape) = Len(strides)
    /\ offset >= 0
    /\ \A k \in 1..Len(shape) : shape[k] > 0 /\ strides[k] # MinInt
    => ~(Elements \subseteq 0..Capacity - 1)
=============================================================================
