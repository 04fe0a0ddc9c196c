---------------------------- MODULE TensorValues ----------------------------
(***************************************************************************)
(* What the tensor library promises: every slot (a Tensor variable of the  *)
(* caller) holds an array, a shape and its values in row-major order, and  *)
(* each call either yields the array NumPy would or is refused. There are  *)
(* no strides, offsets or storages here, so nothing is said of which       *)
(* tensors share memory: view() is as good as reshape().                   *)
(***************************************************************************)
EXTENDS RowMajor

CONSTANTS
    Slots,       \* the caller's Tensor variables
    Undefined,   \* Tensor(): no shape, no storage
    Omitted,     \* std::nullopt as a slice bound
    Inputs       \* [name |-> set]: the arguments callers pass (a bound)

VARIABLES
    array,   \* array[s] is Undefined or [shape, data]
    threw,   \* did the last call throw?
    call     \* the last call

vars == <<array, threw, call>>

Result(d, a) == array' = [array EXCEPT ![d] = a] /\ threw' = FALSE
Refuse == threw' = TRUE /\ UNCHANGED array

Array(shape, Value(_)) ==
    [shape |-> shape, data |-> [n \in 1..Numel(shape) |-> Value(Unravel(n - 1, shape))]]
At(a, c) == a.data[Ravel(c, a.shape) + 1]

\* Dimensions and indices count from the end when negative.
InRange(i, n) == i \in -n..n - 1
Wrapped(i, n) == IF i < 0 THEN i + n ELSE i
Axis(dim, rank) == Wrapped(dim, rank) + 1

-----------------------------------------------------------------------------
(* Views                                                                     *)

\* One index along an axis, the given ones of an axis, and an axis added.
Pick(a, axis, i) ==
    Array(RemoveAt(a.shape, axis), LAMBDA c : At(a, InsertAt(c, axis, i)))
Take(a, axis, positions) ==
    Array([a.shape EXCEPT ![axis] = Len(positions)],
          LAMBDA c : At(a, [c EXCEPT ![axis] = positions[@ + 1]]))
WithAxis(a, axis) ==
    Array(InsertAt(a.shape, axis, 1), LAMBDA c : At(a, RemoveAt(c, axis)))

Select(s, d, dim, index) ==
    LET a == array[s]
        axis == Axis(dim, Len(a.shape))
    IN  IF InRange(dim, Len(a.shape)) /\ InRange(index, a.shape[axis])
        THEN Result(d, Pick(a, axis, Wrapped(index, a.shape[axis])))
        ELSE Refuse

\* Python's start:stop:step over n elements: the positions, in order.
Positions(slice, n) ==
    LET from == IF slice.start = Omitted THEN (IF slice.step > 0 THEN 0 ELSE n - 1)
                ELSE Wrapped(slice.start, n)
        to == IF slice.stop = Omitted THEN (IF slice.step > 0 THEN n ELSE -1)
              ELSE Wrapped(slice.stop, n)
        first == IF slice.step > 0 THEN Max({0, from}) ELSE Min({n - 1, from})
        before(i) == IF slice.step > 0 THEN i < to ELSE i > to
        at(k) == first + k * slice.step
        taken == {k \in 0..n - 1 : at(k) \in 0..n - 1 /\ before(at(k))}
    IN  [k \in 1..Cardinality(taken) |-> at(k - 1)]

\* slice() takes positive steps only.
Slice(s, d, dim, start, stop, step) ==
    LET a == array[s]
        axis == Axis(dim, Len(a.shape))
        taken == Take(a, axis, Positions([start |-> start, stop |-> stop, step |-> step],
                                         a.shape[axis]))
    IN  IF InRange(dim, Len(a.shape)) /\ step > 0
        THEN Result(d, taken)
        ELSE Refuse

\* A subscript is a sequence of integers, slices, None and Ellipsis. It is read
\* from the left; reading.axis is the one that the next component is about.
Consumed(subscript) == Cardinality({k \in DOMAIN subscript : subscript[k].kind \in {"int", "slice"}})
Ellipses(subscript) == Cardinality({k \in DOMAIN subscript : subscript[k].kind = "ellipsis"})
AtInteger(reading, i) ==
    LET n == reading.array.shape[reading.axis]
    IN  IF InRange(i, n)
        THEN [reading EXCEPT !.array = Pick(@, reading.axis, Wrapped(i, n))]
        ELSE [reading EXCEPT !.legal = FALSE]
AtSlice(reading, slice) ==
    IF slice.step = 0 THEN [reading EXCEPT !.legal = FALSE]
    ELSE [reading EXCEPT !.array = Take(@, reading.axis, Positions(slice, @.shape[reading.axis])),
                         !.axis = @ + 1]
AtComponent(reading, component, rest) ==
    IF ~reading.legal THEN reading
    ELSE CASE component.kind = "int" -> AtInteger(reading, component.at)
           [] component.kind = "slice" -> AtSlice(reading, component)
           [] component.kind = "none" ->
                [reading EXCEPT !.array = WithAxis(@, reading.axis), !.axis = @ + 1]
           [] component.kind = "ellipsis" -> [reading EXCEPT !.axis = @ + rest]
Read(a, subscript, rest) ==
    Folded(LAMBDA reading, component : AtComponent(reading, component, rest),
           [array |-> a, axis |-> 1, legal |-> TRUE], subscript)

Index(s, d, subscript) ==
    LET a == array[s]
        rank == Len(a.shape)
        read == Read(a, subscript, rank - Consumed(subscript))
    IN  IF Ellipses(subscript) <= 1 /\ Consumed(subscript) <= rank /\ read.legal
        THEN Result(d, read.array)
        ELSE Refuse

\* Changing the shape keeps the values and their row-major order. One dimension
\* may be -1: the only size that preserves the number of elements.
Filled(shape, k) == [i \in 1..Len(shape) |-> IF shape[i] = -1 THEN k ELSE shape[i]]
Resolutions(shape, n) ==
    IF \E i \in DOMAIN shape : shape[i] < -1 THEN {}
    ELSE {Filled(shape, k) : k \in {k \in 0..n + 1 : Numel(Filled(shape, k)) = n}}
Reshape(s, d, shape) ==
    LET a == array[s]
        fits == Resolutions(shape, Numel(a.shape))
    IN  IF (\E f \in fits : fits = {f}) /\ Cardinality({i \in DOMAIN shape : shape[i] = -1}) <= 1
        THEN Result(d, [a EXCEPT !.shape = CHOOSE f \in fits : TRUE])
        ELSE Refuse

Flatten(s, d, first, last) ==
    LET a == array[s]
        rank == Len(a.shape)
        i == Axis(first, rank)
        j == Axis(last, rank)
    IN  IF InRange(first, rank) /\ InRange(last, rank) /\ i <= j
        THEN Result(d, [a EXCEPT !.shape = SubSeq(@, 1, i - 1) \o <<Numel(SubSeq(@, i, j))>>
                                             \o SubSeq(@, j + 1, rank)])
        ELSE Refuse

Unsqueeze(s, d, dim) ==
    LET a == array[s]
    IN  IF InRange(dim, Len(a.shape) + 1)
        THEN Result(d, [a EXCEPT !.shape = InsertAt(@, Axis(dim, Len(@) + 1), 1)])
        ELSE Refuse

SqueezeAll(s, d) ==
    Result(d, [array[s] EXCEPT !.shape = Squeezed(@)])

Squeeze(s, d, dim) ==
    LET a == array[s]
        axis == Axis(dim, Len(a.shape))
    IN  IF ~InRange(dim, Len(a.shape)) THEN Refuse
        ELSE IF a.shape[axis] = 1 THEN Result(d, [a EXCEPT !.shape = RemoveAt(@, axis)])
        ELSE Result(d, a)

\* The axes in another order: the i-th is the p[i]-th of a.
Permuted(a, p) ==
    LET axes == 1..Len(a.shape)
    IN  Array([i \in axes |-> a.shape[p[i]]],
              LAMBDA c : At(a, [k \in axes |-> c[Inverse(p, axes, axes)[k]]]))

Permute(s, d, dims) ==
    LET a == array[s]
        rank == Len(a.shape)
        p == [i \in 1..rank |-> Axis(dims[i], rank)]
    IN  IF Len(dims) = rank /\ (\A i \in 1..rank : InRange(dims[i], rank)) /\ IsInjective(p)
        THEN Result(d, Permuted(a, p))
        ELSE Refuse

Transpose(s, d, dim0, dim1) ==
    LET a == array[s]
        rank == Len(a.shape)
        i == Axis(dim0, rank)
        j == Axis(dim1, rank)
    IN  IF InRange(dim0, rank) /\ InRange(dim1, rank)
        THEN Result(d, Permuted(a, [[k \in 1..rank |-> k] EXCEPT ![i] = j, ![j] = i]))
        ELSE Refuse

\* contiguous(), copy() and assignment all yield the same values.
Same(s, d) == Result(d, array[s])

\* count positions from the first one.
Run(first, count) == [i \in 1..count |-> first + i - 1]

\* The k-th tensor of split() and of chunk(); the caller keeps what it had when
\* there are fewer.
Piece(s, d, size, axis, k) ==
    LET a == array[s]
        n == a.shape[axis]
    IN  IF (k - 1) * size < n
        THEN Result(d, Take(a, axis, Run((k - 1) * size, Min({size, n - (k - 1) * size}))))
        ELSE Result(d, array[d])

Split(s, d, size, dim, k) ==
    LET rank == Len(array[s].shape)
    IN  IF size > 0 /\ InRange(dim, rank) THEN Piece(s, d, size, Axis(dim, rank), k) ELSE Refuse

\* Chunks of n elements are as large as makes them no more than asked for.
ChunkSize(n, chunks) == Max({1, (n + chunks - 1) \div chunks})
Chunk(s, d, chunks, dim, k) ==
    LET rank == Len(array[s].shape)
        axis == Axis(dim, rank)
    IN  IF chunks > 0 /\ InRange(dim, rank)
        THEN Piece(s, d, ChunkSize(array[s].shape[axis], chunks), axis, k)
        ELSE Refuse

\* The numbers 1 to size in the given shape, which must have a place for each.
FromVector(d, shape, size) ==
    IF Numel(shape) = size THEN Result(d, Array(shape, LAMBDA c : Ravel(c, shape) + 1))
    ELSE Refuse

-----------------------------------------------------------------------------
Init ==
    /\ array = [s \in Slots |-> Undefined]
    /\ threw = FALSE
    /\ call = <<>>

\* Every call but from_vector() throws on an undefined tensor.
CallOnUndefined(s) == array[s] = Undefined /\ Refuse

OneOperand(s, d) ==
    \/ \E dim \in Inputs.dims, i \in Inputs.indices :
        call' = <<"select", s, d, dim, i>> /\ Select(s, d, dim, i)
    \/ \E dim \in Inputs.dims, b \in Inputs.slices :
        call' = <<"slice", s, d, dim, b>> /\ Slice(s, d, dim, b[1], b[2], b[3])
    \/ \E x \in Inputs.subscripts : call' = <<"index", s, d, x>> /\ Index(s, d, x)
    \/ \E f \in {"reshape", "view"}, x \in Inputs.shapes :
        call' = <<f, s, d, x>> /\ Reshape(s, d, x)
    \/ \E i, j \in Inputs.dims : call' = <<"flatten", s, d, i, j>> /\ Flatten(s, d, i, j)
    \/ \E dim \in Inputs.dims : call' = <<"unsqueeze", s, d, dim>> /\ Unsqueeze(s, d, dim)
    \/ call' = <<"squeezeAll", s, d>> /\ SqueezeAll(s, d)
    \/ \E dim \in Inputs.dims : call' = <<"squeeze", s, d, dim>> /\ Squeeze(s, d, dim)
    \/ \E p \in Inputs.permutations : call' = <<"permute", s, d, p>> /\ Permute(s, d, p)
    \/ \E i, j \in Inputs.dims : call' = <<"transpose", s, d, i, j>> /\ Transpose(s, d, i, j)
    \/ \E f \in {"contiguous", "copy"} : call' = <<f, s, d>> /\ Same(s, d)
    \/ \E n \in Inputs.counts, dim \in Inputs.dims, k \in 1..2 :
        \/ call' = <<"split", s, d, n, dim, k>> /\ Split(s, d, n, dim, k)
        \/ call' = <<"chunk", s, d, n, dim, k>> /\ Chunk(s, d, n, dim, k)
Next ==
    \/ \E d \in Slots, v \in Inputs.vectors :
        call' = <<"from_vector", d, v>> /\ FromVector(d, v.shape, v.size)
    \/ \E s \in Slots : call' = <<"undefined", s>> /\ CallOnUndefined(s)
    \/ \E s, d \in Slots : OneOperand(s, d) /\ array[s] # Undefined

Spec == Init /\ [][Next]_vars
=============================================================================
