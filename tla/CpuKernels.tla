----------------------------- MODULE CpuKernels -----------------------------
(***************************************************************************)
(* What operations compute on the CPU. Most kernels take their operands'   *)
(* storages for row-major arrays that begin at the first byte. A loop that *)
(* is split over threads fills the items of its chunks, whatever the order *)
(* in which they run: ParallelFor has the interleavings.                   *)
(***************************************************************************)
EXTENDS DeviceTensors

CONSTANTS
    CpuThreads,     \* threads of the multi-threaded device
    ItemsPerThread  \* elements worth a thread of their own (65,536 in the code)

ASSUME ThreadsAssumption == CpuThreads \in Nat \ {0} /\ ItemsPerThread \in Nat \ {0}

SameFloat32(a, b) == IsFloat32(a) /\ IsFloat32(b) /\ b.shape = a.shape

\* add_out() and sub_out() of the sequential device.
SequentialAdd(a, b) ==
    Ensure(SameFloat32(a, b),
           Like(a, a.shape, [i \in 1..Numel(a.shape) |-> Plus(Load(Start(a), i - 1), Load(Start(b), i - 1))]))
SequentialSub(a, b) ==
    Ensure(SameFloat32(a, b),
           Like(a, a.shape, [i \in 1..Numel(a.shape) |-> Minus(Load(Start(a), i - 1), Load(Start(b), i - 1))]))

-----------------------------------------------------------------------------
(* Loops of the multi-threaded device                                        *)

Quotient(n, d) == (n + d - 1) \div d
Workers(items, minimum) == Min({CpuThreads, Quotient(items, minimum)})

\* Mutant: the division is not rounded up.
ChunkSize_RoundedDown(items, workers) == items \div workers

ChunkSize(items, workers) == Quotient(items, workers)

\* parallel_for(): what each worker visits, numbered from zero.
Chunks(items, minimum) ==
    LET workers == Workers(items, minimum)
        size == ChunkSize(items, workers)
    IN  IF workers <= 1 THEN {0..items - 1}
        ELSE {w * size..Min({items, (w + 1) * size}) - 1 : w \in 0..workers - 1}

\* An array whose items, of some width each, are filled by the workers. What
\* none of them visits stays as empty() left it.
Filled(items, minimum, width, Value(_, _)) ==
    LET visited == UNION Chunks(items, minimum)
        at(item, place) == IF item \in visited THEN Value(item, place) ELSE NaN
    IN  [p \in 1..items * width |-> at((p - 1) \div width, (p - 1) % width)]

\* add_out() and sub_out() of the multi-threaded device.
ThreadedAdd(a, b) ==
    Ensure(SameFloat32(a, b),
           Like(a, a.shape, Filled(Numel(a.shape), ItemsPerThread, 1,
                                   LAMBDA i, place : Plus(Load(Start(a), i), Load(Start(b), i)))))
ThreadedSub(a, b) ==
    Ensure(SameFloat32(a, b),
           Like(a, a.shape, Filled(Numel(a.shape), ItemsPerThread, 1,
                                   LAMBDA i, place : Minus(Load(Start(a), i), Load(Start(b), i)))))

-----------------------------------------------------------------------------
(* Matrix products                                                           *)

\* Operands that are not contiguous are packed first.
ProductBehind(pa, pb, m, k, n) ==
    [p \in 1..m * n |-> Product(pa, pb, k, n, (p - 1) \div n, (p - 1) % n)]
MatrixProduct(a, b) ==
    ProductBehind(First(Contiguous(a)), First(Contiguous(b)), a.shape[1], a.shape[2], b.shape[2])
SequentialMatmul(a, b) ==
    Ensure(IsFloat32(a) /\ IsFloat32(b) /\ Is2dProduct(a, b),
           Like(a, <<a.shape[1], b.shape[2]>>, MatrixProduct(a, b)))

\* Threads share out the rows.
ThreadedMatmul(a, b) ==
    LET pa == First(Contiguous(a))
        pb == First(Contiguous(b))
        k == a.shape[2]
        n == b.shape[2]
    IN  Ensure(IsFloat32(a) /\ IsFloat32(b) /\ Is2dProduct(a, b),
               Like(a, <<a.shape[1], n>>,
                    Filled(a.shape[1], 1, n, LAMBDA row, column : Product(pa, pb, k, n, row, column))))

SequentialBatchedMatmul(a, b) ==
    Ensure(IsFloat32(a) /\ IsFloat32(b) /\ IsBatchedProduct(a, b),
           Like(a, BatchedShape(a, b), BatchedProduct(a, b, Start(a), Start(b))))

\* Threads share out the rows of all matrices. output.numel() / (m * n) traps
\* when matrices are empty.
ThreadedBatchedMatmul(a, b) ==
    LET shape == BatchedShape(a, b)
        m == Rows(a)
        k == Columns(a)
        n == Columns(b)
        matrix(t, item) == BatchIndex(item \div m, BatchOf(shape), BatchOf(t.shape))
        value(item, column) ==
            Product(Advanced(Start(a), matrix(a, item) * m * k), Advanced(Start(b), matrix(b, item) * k * n),
                    k, n, item % m, column)
    IN  Ensure(IsFloat32(a) /\ IsFloat32(b) /\ IsBatchedProduct(a, b) /\ m * n # 0,
               Like(a, shape, Filled((Numel(shape) \div (m * n)) * m, 1, n, value)))

-----------------------------------------------------------------------------
(* Kernels of the operations themselves                                      *)

BroadcastBinary(operation, l, r) ==
    LET shape == BroadcastShape(l.shape, r.shape)
        at(t, n) == Load(Start(t), BroadcastIndex(n, shape, t.shape, ContiguousStrides(t.shape)))
    IN  Ensure(/\ IsFloat32(l) /\ IsFloat32(r) /\ r.device = l.device
               /\ Broadcastable(l.shape, r.shape),
               FromVector([n \in 1..Numel(shape) |-> Apply(operation, at(l, n - 1), at(r, n - 1))],
                          shape, "f32", l.device))

CpuUnary(operation, t, operand) ==
    Ensure(IsFloat32(t),
           FromVector([n \in 1..Numel(t.shape) |-> ApplyUnary(operation, Load(Start(t), n - 1), operand)],
                      t.shape, "f32", t.device))

CpuMaskedFill(t, mask, value) ==
    LET masked(n) == Load(Start(mask), BroadcastIndex(n, t.shape, mask.shape, ContiguousStrides(mask.shape)))
    IN  FromVector([n \in 1..Numel(t.shape) |-> IF masked(n - 1) # 0 THEN value ELSE Load(Start(t), n - 1)],
                   t.shape, "f32", t.device)

\* The output element that the n-th input element contributes to.
OutputIndex(n, shape, axes, keepdim) ==
    LET c == Unravel(n, shape)
        kept == KeptAxes(shape, axes)
        strides == ContiguousStrides(ReducedShape(shape, axes, keepdim))
    IN  Total([i \in 1..Len(kept) |-> c[kept[i]] * strides[IF keepdim THEN kept[i] ELSE i]])

CpuReduce(t, axes, keepdim, operation) ==
    LET shape == ReducedShape(t.shape, axes, keepdim)
        all == [n \in 1..Numel(t.shape) |-> n - 1]
        group(n) == SelectSeq(all, LAMBDA i : OutputIndex(i, t.shape, axes, keepdim) = n)
        values(places) == [i \in 1..Len(places) |-> Load(Start(t), places[i])]
    IN  FromVector([n \in 1..Numel(shape) |-> Summary(operation, values(group(n - 1)))],
                   shape, "f32", t.device)

CpuArgmax(t, axis, keepdim) ==
    LET shape == ReducedShape(t.shape, {axis}, keepdim)
        size == t.shape[axis]
        inner == Inner(t.shape, axis)
        base(n) == (n \div inner) * size * inner + (n % inner)
    IN  Ensure(size # 0,
               FromVector([n \in 1..Numel(shape) |->
                              ArgMax(Strided(First(Contiguous(t)), base(n - 1), inner, size))],
                          shape, "i64", t.device))

\* Rows are looked up and copied one by one; a bad index stops half way, in a
\* tensor that nobody will see.
CpuGatherRows(table, indices) ==
    LET width == table.shape[2]
        row(n) == Load(Start(indices), n)
    IN  Ensure(\A n \in 0..Numel(indices.shape) - 1 : row(n) \in 0..table.shape[1] - 1,
               Like(table, Append(indices.shape, width),
                    [p \in 1..Numel(indices.shape) * width |->
                        Load(Start(table), row((p - 1) \div width) * width + ((p - 1) % width))]))

JoinedShape(tensors, axis) ==
    [tensors[1].shape EXCEPT ![axis] = Total([i \in 1..Len(tensors) |-> tensors[i].shape[axis]])]

\* Blocks of the operands in turn, each from the start of its storage.
CpuConcat(tensors, axis) ==
    LET outer == Outer(tensors[1].shape, axis)
        block(t, n) ==
            LET size == t.shape[axis] * Inner(t.shape, axis)
            IN  Strided(Start(Contiguous(t)), n * size, 1, size)
        blocks == [p \in 1..outer * Len(tensors) |->
                      block(tensors[((p - 1) % Len(tensors)) + 1], (p - 1) \div Len(tensors))]
    IN  Like(tensors[1], JoinedShape(tensors, axis), FlattenSeq(blocks))

\* cast(): packs, then reads from the start of the storage.
CpuCast(t, dtype) ==
    LET cpu == To(Contiguous(t), "cpu")
    IN  FromVector(Strided(Start(cpu), 0, 1, Numel(t.shape)), t.shape, dtype, t.device)
=============================================================================
