----------------------------- MODULE EagerDevice -----------------------------
(***************************************************************************)
(* What the asynchronous CUDA backend promises its callers: a device that  *)
(* computes at once. Every Tensor variable of every host thread holds its  *)
(* value, an operation either replaces the value of its result or throws,  *)
(* an observation returns the value as it is, and only an index that is out*)
(* of range is called one.                                                 *)
(***************************************************************************)
EXTENDS Naturals

CONSTANTS
    Threads,     \* host threads
    Names,       \* Tensor variables of each thread
    Undefined,   \* a variable without a tensor
    Nothing      \* no observation

Values == 0..2

\* A kernel's arithmetic, reduced to something that tells its operands apart.
Combine(a, b) == (2 * a + b + 1) % 3

\* A tensor of row numbers with a row that no table has.
OutOfRange == 2

\* What a thread sees of std::out_of_range; other exceptions tell it nothing.
Refused == 4

VARIABLES
    tensor,   \* tensor[t][x]
    seen      \* what thread t sees: the value it copied to the host, or Refused

vars == <<tensor, seen>>

Put(t, d, value) == tensor' = [tensor EXCEPT ![t][d] = value] /\ UNCHANGED seen

Init ==
    /\ tensor = [t \in Threads |-> [x \in Names |-> Undefined]]
    /\ seen = [t \in Threads |-> Nothing]

Upload(t, d) == \E v \in Values : Put(t, d, v)

Clone(t, x, d) == tensor[t][x] # Undefined /\ Put(t, d, tensor[t][x])

Broadcast(t, x, y, d) ==
    /\ Undefined \notin {tensor[t][x], tensor[t][y]}
    /\ Put(t, d, Combine(tensor[t][x], tensor[t][y]))

Gather(t, x, y, d) == tensor[t][y] # OutOfRange /\ Broadcast(t, x, y, d)

\* gather_rows() of such a row.
Refuse(t, y) ==
    /\ tensor[t][y] = OutOfRange
    /\ seen' = [seen EXCEPT ![t] = Refused]
    /\ UNCHANGED tensor

Drop(t, d) == Put(t, d, Undefined)

HandOver(t, x, u, d) == tensor[t][x] # Undefined /\ Put(u, d, tensor[t][x])

Observe(t, x) ==
    /\ tensor[t][x] # Undefined
    /\ seen' = [seen EXCEPT ![t] = tensor[t][x]]
    /\ UNCHANGED tensor

\* The caller goes on.
Continue(t) == seen' = [seen EXCEPT ![t] = Nothing] /\ UNCHANGED tensor

Next ==
    \E t \in Threads, x, y, d \in Names :
        \/ Upload(t, d)
        \/ Clone(t, x, d)
        \/ Broadcast(t, x, y, d)
        \/ Gather(t, x, y, d)
        \/ Refuse(t, y)
        \/ Drop(t, d)
        \/ \E u \in Threads : HandOver(t, x, u, d)
        \/ Observe(t, x)
        \/ Continue(t)

Spec == Init /\ [][Next]_vars
=============================================================================
