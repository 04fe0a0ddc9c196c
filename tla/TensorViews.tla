----------------------------- MODULE TensorViews -----------------------------
(***************************************************************************)
(* Tensors as the library keeps them on the CPU: a shape, strides and an   *)
(* offset over a storage that other tensors may share. View functions only *)
(* compute metadata and the constructor validates it. One dtype and one    *)
(* device; sizes are far from overflow (see LayoutValidation for that).    *)
(***************************************************************************)
EXTENDS RowMajor

CONSTANTS
    Slots, Undefined, Omitted, Inputs,   \* as in TensorValues
    MaxCalls,      \* calls in one behaviour (a bound)
    MaxStorages    \* storages allocated in one behaviour (a bound)

ASSUME MaxCallsAssumption == MaxCalls \in Nat
ASSUME MaxStoragesAssumption == MaxStorages \in Nat

\* What the parameters of the functions admit: from_vector() takes dimensions
\* of the vector it is given, every other argument is any number.
Component ==
    [kind : {"int"}, at : Int]
    \cup [kind : {"slice"}, start : Int \cup {Omitted}, stop : Int \cup {Omitted}, step : Int]
    \cup [kind : {"none", "ellipsis"}]
ASSUME InputsAssumption ==
    /\ \A v \in Inputs.vectors : v.shape \in Seq(Nat) /\ v.size \in Nat
    /\ \A shape \in Inputs.shapes \cup Inputs.permutations : shape \in Seq(Int)
    /\ \A x \in Inputs.subscripts : x \in Seq(Component)
    /\ Inputs.slices \subseteq Int \X Int \X Int
    /\ Inputs.dims \cup Inputs.indices \cup Inputs.counts \subseteq Int
\* Tensor() and std::nullopt are no tensors and no numbers.
ASSUME UndefinedAssumption ==
    /\ Undefined \notin [shape : Seq(Nat), strides : Seq(Int), offset : Int, storage : Nat]
    /\ Undefined \notin [shape : Seq(Nat), data : Seq(Int)]
ASSUME OmittedAssumption == Omitted \notin Int

VARIABLES
    slot,     \* slot[s] is Undefined or [shape, strides, offset, storage]
    memory,   \* memory[i]: the elements of storage i, Freed without tensors
    threw,    \* did the last call throw?
    call,     \* the last call, for comparison with TensorValues
    calls     \* how many there were

vars == <<slot, memory, threw, call, calls>>

Freed == <<>>
Counted == calls < MaxCalls /\ calls' = calls + 1

Throw == Counted /\ threw' = TRUE /\ UNCHANGED <<slot, memory>>

\* A storage lives as long as a tensor refers to it (shared_ptr).
Collected(tensors, storages) ==
    [i \in DOMAIN storages |->
        IF \E s \in Slots : tensors[s] # Undefined /\ tensors[s].storage = i
        THEN storages[i] ELSE Freed]
Return(d, t, storages) ==
    /\ Counted
    /\ slot' = [slot EXCEPT ![d] = t]
    /\ memory' = Collected(slot', storages)
    /\ threw' = FALSE

\* How far the given axes reach from the first element.
Reach(t, axes) ==
    Total([i \in 1..Rank(t) |->
        IF i \in axes /\ t.shape[i] > 0 THEN (t.shape[i] - 1) * t.strides[i] ELSE 0])
Backward(t) == {i \in 1..Rank(t) : t.strides[i] < 0}
Forward(t) == {i \in 1..Rank(t) : t.strides[i] >= 0}

\* validate_layout(): negative strides must not reach below the storage, even
\* in a tensor without elements; positive ones must not reach beyond it.
ValidLayout(t) ==
    /\ Len(t.strides) = Rank(t)
    /\ t.offset >= 0
    /\ t.offset + Reach(t, Backward(t)) >= 0
    /\ \/ \E i \in 1..Rank(t) : t.shape[i] = 0
       \/ t.offset + Reach(t, Forward(t)) < Len(memory[t.storage])

\* A Tensor constructed over the storage of another.
Construct(d, t) == IF ValidLayout(t) THEN Return(d, t, memory) ELSE Throw

\* A Tensor with a new storage: make_contiguous_strides() counts empty
\* dimensions as one.
Fresh(d, shape, data) ==
    /\ Len(memory) < MaxStorages
    /\ Return(d,
              [shape |-> shape, offset |-> 0, storage |-> Len(memory) + 1,
               strides |-> ContiguousStrides([i \in 1..Len(shape) |-> Max({shape[i], 1})])],
              Append(memory, data))

\* normalize_dim(), to TLA+'s axes from 1.
NormalizedDim(dim, count) == IF dim < 0 THEN dim + count ELSE dim
ValidDim(dim, count) == NormalizedDim(dim, count) \in 0..count - 1
AxisOf(dim, t) == NormalizedDim(dim, Rank(t)) + 1

-----------------------------------------------------------------------------
(* Views                                                                     *)

Select(s, d, dim, index) ==
    LET t == slot[s]
        axis == AxisOf(dim, t)
        i == NormalizedDim(index, t.shape[axis])
    IN  IF ValidDim(dim, Rank(t)) /\ i \in 0..t.shape[axis] - 1
        THEN Construct(d, [t EXCEPT !.shape = RemoveAt(@, axis), !.strides = RemoveAt(@, axis),
                                    !.offset = @ + i * t.strides[axis]])
        ELSE Throw

Clamp(x, low, high) == IF x < low THEN low ELSE IF x > high THEN high ELSE x

\* Mutant: the length rounds down instead of up.
SlicedView_RoundsDown(t, axis, start, stop, step) ==
    LET size == t.shape[axis]
        first == Clamp(NormalizedDim(start, size), 0, size)
        end == Clamp(NormalizedDim(stop, size), 0, size)
        length == IF end <= first THEN 0 ELSE (end - first) \div step
    IN  [t EXCEPT !.shape[axis] = length, !.strides[axis] = @ * step,
                  !.offset = @ + first * t.strides[axis]]

\* slice(): the offset moves to the clamped start even when nothing is taken.
SlicedView(t, axis, start, stop, step) ==
    LET size == t.shape[axis]
        first == Clamp(NormalizedDim(start, size), 0, size)
        end == Clamp(NormalizedDim(stop, size), 0, size)
        length == IF end <= first THEN 0 ELSE 1 + (end - first - 1) \div step
    IN  [t EXCEPT !.shape[axis] = length, !.strides[axis] = @ * step,
                  !.offset = @ + first * t.strides[axis]]

Slice(s, d, dim, start, stop, step) ==
    LET t == slot[s]
    IN  IF step > 0 /\ ValidDim(dim, Rank(t))
        THEN Construct(d, SlicedView(t, AxisOf(dim, t), start, stop, step))
        ELSE Throw

\* normalize_slice(): defaults depend on the direction; a given bound counts
\* from the end when negative, an omitted one does not.
NormalizedSlice(slice, size) ==
    LET given(bound, default) == IF bound = Omitted THEN default ELSE NormalizedDim(bound, size)
        low == IF slice.step > 0 THEN 0 ELSE -1
        high == IF slice.step > 0 THEN size ELSE size - 1
        start == Clamp(given(slice.start, IF slice.step > 0 THEN 0 ELSE size - 1), low, high)
        stop == Clamp(given(slice.stop, IF slice.step > 0 THEN size ELSE -1), low, high)
    IN  [start |-> start,
         length |-> IF slice.step > 0
                    THEN IF stop <= start THEN 0 ELSE 1 + (stop - start - 1) \div slice.step
                    ELSE IF start <= stop THEN 0 ELSE 1 + (start - stop - 1) \div (-slice.step)]

\* index(): components consume axes from left to right; v is the view so far.
Keep(v, size, stride) ==
    [v EXCEPT !.shape = Append(@, size), !.strides = Append(@, stride)]
KeepAll(v, t, count) ==
    [v EXCEPT !.shape = @ \o SubSeq(t.shape, v.axis, v.axis + count - 1),
              !.strides = @ \o SubSeq(t.strides, v.axis, v.axis + count - 1), !.axis = @ + count]
AtInteger(v, t, at) ==
    LET i == NormalizedDim(at, t.shape[v.axis])
    IN  [v EXCEPT !.ok = i \in 0..t.shape[v.axis] - 1,
                  !.offset = @ + i * t.strides[v.axis], !.axis = @ + 1]
\* Mutant: the step replaces the stride instead of multiplying it.
AtSlice_StepForStride(v, t, slice) ==
    IF slice.step = 0 THEN [v EXCEPT !.ok = FALSE]
    ELSE LET n == NormalizedSlice(slice, t.shape[v.axis])
             kept == Keep(v, n.length, slice.step)
         IN  [kept EXCEPT !.axis = @ + 1,
                          !.offset = IF n.length # 0 THEN @ + n.start * t.strides[v.axis] ELSE @]
AtSlice(v, t, slice) ==
    IF slice.step = 0 THEN [v EXCEPT !.ok = FALSE]
    ELSE LET n == NormalizedSlice(slice, t.shape[v.axis])
             kept == Keep(v, n.length, t.strides[v.axis] * slice.step)
         IN  [kept EXCEPT !.axis = @ + 1,
                          !.offset = IF n.length # 0 THEN @ + n.start * t.strides[v.axis] ELSE @]
AtComponent(v, t, component, unconsumed) ==
    IF ~v.ok THEN v
    ELSE CASE component.kind = "int" -> AtInteger(v, t, component.at)
           [] component.kind = "slice" -> AtSlice(v, t, component)
           [] component.kind = "none" -> Keep(v, 1, 0)
           [] component.kind = "ellipsis" -> KeepAll(v, t, unconsumed)

\* The axes are read from the first one; an ellipsis stands for the unconsumed.
Beginning(t) ==
    [shape |-> <<>>, strides |-> <<>>, offset |-> t.offset, axis |-> 1, ok |-> TRUE]
Reading(t, subscript, unconsumed) ==
    Folded(LAMBDA v, component : AtComponent(v, t, component, unconsumed), Beginning(t), subscript)

Index(s, d, subscript) ==
    LET t == slot[s]
        consuming == Cardinality({k \in DOMAIN subscript : subscript[k].kind \in {"int", "slice"}})
        ellipses == Cardinality({k \in DOMAIN subscript : subscript[k].kind = "ellipsis"})
        read == Reading(t, subscript, Rank(t) - consuming)
        view == KeepAll(read, t, Rank(t) + 1 - read.axis)
    IN  IF ellipses <= 1 /\ consuming <= Rank(t) /\ read.ok
        THEN Construct(d, [t EXCEPT !.shape = view.shape, !.strides = view.strides,
                                    !.offset = view.offset])
        ELSE Throw

Permuted(t, axes) ==
    [t EXCEPT !.shape = [i \in 1..Rank(t) |-> t.shape[axes[i]]],
              !.strides = [i \in 1..Rank(t) |-> t.strides[axes[i]]]]

Permute(s, d, dims) ==
    LET t == slot[s]
        axes == [i \in 1..Len(dims) |-> AxisOf(dims[i], t)]
    IN  IF /\ Len(dims) = Rank(t)
           /\ \A i \in 1..Rank(t) : ValidDim(dims[i], Rank(t))
           /\ IsInjective(axes)
        THEN Construct(d, Permuted(t, axes))
        ELSE Throw

Transpose(s, d, dim0, dim1) ==
    LET t == slot[s]
        i == AxisOf(dim0, t)
        j == AxisOf(dim1, t)
    IN  IF ValidDim(dim0, Rank(t)) /\ ValidDim(dim1, Rank(t))
        THEN Construct(d, Permuted(t, [[k \in 1..Rank(t) |-> k] EXCEPT ![i] = j, ![j] = i]))
        ELSE Throw

-----------------------------------------------------------------------------
(* Views that may have to copy                                               *)

\* materialize_contiguous_cpu()
Materialized(t) ==
    [n \in 1..Numel(t.shape) |-> memory[t.storage][Address(t, n - 1) + 1]]

\* contiguous() of t, given another shape with as many elements.
Reshaped(d, t, shape) ==
    IF IsContiguous(t)
    THEN Construct(d, [t EXCEPT !.shape = shape, !.strides = ContiguousStrides(shape)])
    ELSE Fresh(d, shape, Materialized(t))

\* resolved_shape(): the -1 becomes numel / known when known divides numel.
Known(shape) == Numel([i \in DOMAIN shape |-> IF shape[i] = -1 THEN 1 ELSE shape[i]])
Resolvable(t, shape) ==
    LET inferred == {i \in DOMAIN shape : shape[i] = -1}
    IN  /\ \A i \in DOMAIN shape : shape[i] >= -1
        /\ \/ inferred = {} /\ Known(shape) = Numel(t.shape)
           \/ /\ Cardinality(inferred) = 1
              /\ Known(shape) # 0
              /\ Numel(t.shape) % Known(shape) = 0
ResolvedShape(t, shape) ==
    [i \in DOMAIN shape |-> IF shape[i] = -1 THEN Numel(t.shape) \div Known(shape) ELSE shape[i]]

Reshape(s, d, shape) ==
    IF Resolvable(slot[s], shape) THEN Reshaped(d, slot[s], ResolvedShape(slot[s], shape)) ELSE Throw

View(s, d, shape) == Reshape(s, d, shape)

Flatten(s, d, first, last) ==
    LET t == slot[s]
        i == AxisOf(first, t)
        j == AxisOf(last, t)
    IN  IF ValidDim(first, Rank(t)) /\ ValidDim(last, Rank(t)) /\ i <= j
        THEN Reshaped(d, t, SubSeq(t.shape, 1, i - 1) \o <<Numel(SubSeq(t.shape, i, j))>>
                                \o SubSeq(t.shape, j + 1, Rank(t)))
        ELSE Throw

\* unsqueeze() may also insert behind the last axis.
Unsqueeze(s, d, dim) ==
    LET t == slot[s]
    IN  IF ValidDim(dim, Rank(t) + 1)
        THEN Reshaped(d, t, InsertAt(t.shape, NormalizedDim(dim, Rank(t) + 1) + 1, 1))
        ELSE Throw

SqueezeAll(s, d) == Reshaped(d, slot[s], Squeezed(slot[s].shape))

Squeeze(s, d, dim) ==
    LET t == slot[s]
        axis == AxisOf(dim, t)
    IN  IF ~ValidDim(dim, Rank(t)) THEN Throw
        ELSE IF t.shape[axis] = 1 THEN Reshaped(d, t, RemoveAt(t.shape, axis))
        ELSE Return(d, t, memory)

Contiguous(s, d) ==
    IF IsContiguous(slot[s]) THEN Return(d, slot[s], memory)
    ELSE Fresh(d, slot[s].shape, Materialized(slot[s]))

\* Tensor::copy() clones the whole storage under the same layout.
Copy(s, d) ==
    /\ Len(memory) < MaxStorages
    /\ Return(d, [slot[s] EXCEPT !.storage = Len(memory) + 1],
              Append(memory, memory[slot[s].storage]))

\* split() slices every piece; the caller keeps the k-th.
Split(s, d, size, dim, k) ==
    LET t == slot[s]
        axis == AxisOf(dim, t)
        pieces == (t.shape[axis] + size - 1) \div size
        piece(j) == SlicedView(t, axis, (j - 1) * size,
                               (j - 1) * size + Min({size, t.shape[axis] - (j - 1) * size}), 1)
    IN  IF /\ size > 0 /\ ValidDim(dim, Rank(t))
           /\ \A j \in 1..pieces : ValidLayout(piece(j))
        THEN Return(d, IF k <= pieces THEN piece(k) ELSE slot[d], memory)
        ELSE Throw

Chunk(s, d, chunks, dim, k) ==
    LET t == slot[s]
    IN  IF chunks > 0 /\ ValidDim(dim, Rank(t))
        THEN Split(s, d, Max({(t.shape[AxisOf(dim, t)] + chunks - 1) \div chunks, 1}), dim, k)
        ELSE Throw

\* A vector of the numbers 1 to size, which must be as many as the shape holds.
FromVector(d, shape, size) ==
    IF Numel(shape) = size THEN Fresh(d, shape, [n \in 1..size |-> n]) ELSE Throw

-----------------------------------------------------------------------------
Init ==
    /\ slot = [s \in Slots |-> Undefined]
    /\ memory = <<>>
    /\ threw = FALSE
    /\ call = <<>>
    /\ calls = 0

\* ENSURE_TENSOR_DEFINED
CallOnUndefined(s) == slot[s] = Undefined /\ Throw

OneOperand(s, d) ==
    \/ \E dim \in Inputs.dims, i \in Inputs.indices :
        Select(s, d, dim, i) /\ call' = <<"select", s, d, dim, i>>
    \/ \E dim \in Inputs.dims, b \in Inputs.slices :
        Slice(s, d, dim, b[1], b[2], b[3]) /\ call' = <<"slice", s, d, dim, b>>
    \/ \E x \in Inputs.subscripts : Index(s, d, x) /\ call' = <<"index", s, d, x>>
    \/ \E x \in Inputs.shapes :
        \/ Reshape(s, d, x) /\ call' = <<"reshape", s, d, x>>
        \/ View(s, d, x) /\ call' = <<"view", s, d, x>>
    \/ \E i, j \in Inputs.dims : Flatten(s, d, i, j) /\ call' = <<"flatten", s, d, i, j>>
    \/ \E dim \in Inputs.dims : Unsqueeze(s, d, dim) /\ call' = <<"unsqueeze", s, d, dim>>
    \/ SqueezeAll(s, d) /\ call' = <<"squeezeAll", s, d>>
    \/ \E dim \in Inputs.dims : Squeeze(s, d, dim) /\ call' = <<"squeeze", s, d, dim>>
    \/ \E p \in Inputs.permutations : Permute(s, d, p) /\ call' = <<"permute", s, d, p>>
    \/ \E i, j \in Inputs.dims : Transpose(s, d, i, j) /\ call' = <<"transpose", s, d, i, j>>
    \/ Contiguous(s, d) /\ call' = <<"contiguous", s, d>>
    \/ Copy(s, d) /\ call' = <<"copy", s, d>>
    \/ \E n \in Inputs.counts, dim \in Inputs.dims, k \in 1..2 :
        \/ Split(s, d, n, dim, k) /\ call' = <<"split", s, d, n, dim, k>>
        \/ Chunk(s, d, n, dim, k) /\ call' = <<"chunk", s, d, n, dim, k>>

Next ==
    \/ \E d \in Slots, v \in Inputs.vectors :
        FromVector(d, v.shape, v.size) /\ call' = <<"from_vector", d, v>>
    \/ \E s \in Slots : CallOnUndefined(s) /\ call' = <<"undefined", s>>
    \/ \E s, d \in Slots : slot[s] # Undefined /\ OneOperand(s, d)

Spec == Init /\ [][Next]_vars

-----------------------------------------------------------------------------
Defined == {s \in Slots : slot[s] # Undefined}
Addresses(t) == {Address(t, n) : n \in 0..Numel(t.shape) - 1}

(* Types; and whatever chain of views led to a tensor, each of its elements  *)
(* lies in its storage and no two share a place: so kernels that read numel()*)
(* elements from the start of the storage stay inside too (validate_layout,  *)
(* tensor_design.md "Bounds and invariants").                                *)
TypeOK ==
    /\ \A s \in Defined :
        /\ slot[s].shape \in Seq(Nat)
        /\ slot[s].strides \in Seq(Int)
        /\ Len(slot[s].strides) = Rank(slot[s])
        /\ slot[s].offset \in Nat
        /\ slot[s].storage \in DOMAIN memory
        /\ Addresses(slot[s]) \subseteq 0..Len(memory[slot[s].storage]) - 1
        /\ Cardinality(Addresses(slot[s])) = Numel(slot[s].shape)
    /\ memory \in Seq(Seq(Int))
    /\ threw \in BOOLEAN
    /\ calls \in 0..MaxCalls

(* is_contiguous() holds exactly of the tensors whose elements follow one    *)
(* another in the storage, which is what reshape(), transfers and packed     *)
(* kernels take it to mean.                                                  *)
ContiguousMeansConsecutive ==
    \A s \in Defined :
        IsContiguous(slot[s]) <=>
            \A n \in 0..Numel(slot[s].shape) - 1 : Address(slot[s], n) = slot[s].offset + n

(* The values a caller sees through shape, strides and offset are those of   *)
(* the arrays of TensorValues, and a call throws exactly when it is refused  *)
(* there, with one exception: slice() may also refuse to take nothing from   *)
(* behind the last element of an axis that runs backward, because it moves   *)
(* the offset there, which may be before the storage (SlicesAreClamped).     *)
Denoted(t) == [shape |-> t.shape, data |-> Materialized(t)]
Values == INSTANCE TensorValues WITH
    array <- [s \in Slots |-> IF slot[s] = Undefined THEN Undefined ELSE Denoted(slot[s])]
StartsBehind(t, dim, start) ==
    LET axis == AxisOf(dim, t)
    IN  /\ ValidDim(dim, Rank(t))
        /\ t.strides[axis] < 0 /\ t.shape[axis] > 0
        /\ NormalizedDim(start, t.shape[axis]) >= t.shape[axis]
EmptySliceRefused ==
    \E s, d \in Slots, dim \in Inputs.dims, b \in Inputs.slices :
        /\ call' = <<"slice", s, d, dim, b>>
        /\ slot[s] # Undefined /\ b[3] > 0 /\ StartsBehind(slot[s], dim, b[1])
        /\ Values!Refuse
ImplementsValues == Values!Init /\ [][Values!Next \/ EmptySliceRefused]_(Values!vars)

(* slice() clamps its bounds "in the same manner as an ordinary Python       *)
(* positive-step slice" (shape_operations.h): it refuses what TensorValues   *)
(* refuses and nothing else.                                                 *)
SlicesAreClamped ==
    [][\A s, d \in Slots, dim \in Inputs.dims, b \in Inputs.slices :
        call' = <<"slice", s, d, dim, b>> /\ slot[s] # Undefined
            => Values!Slice(s, d, dim, b[1], b[2], b[3])]_vars
=============================================================================
