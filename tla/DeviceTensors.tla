---------------------------- MODULE DeviceTensors ----------------------------
(***************************************************************************)
(* Tensors on devices as kernels meet them: a shape, strides and an offset *)
(* over the storage they read. Operations are functions from tensors to a  *)
(* new tensor or to Refused, an exception.                                 *)
(***************************************************************************)
EXTENDS Floats

CONSTANTS
    Refused,    \* the call throws
    Undefined,  \* Tensor(), an optional argument left out
    NotTaken    \* std::nullopt: an optimised path declines

\* "cuda" stands for the reference backend; the backend is fixed by an
\* environment variable and is not part of a tensor in the code.
CudaBackends == {"cuda", "cublas", "cutlass"}
IsCuda(t) == t.device \in CudaBackends
FloatTypes == {"f32", "f16", "bf16"}

Defined(t) == t \notin {Refused, Undefined}
IsFloat32(t) == Defined(t) /\ t.dtype = "f32"
Ensure(condition, result) == IF condition THEN result ELSE Refused

\* empty() and a kernel that fills it.
New(shape, dtype, device, data) ==
    LET literal == <<>> \o shape
    IN  [shape |-> literal, strides |-> ContiguousStrides(literal), offset |-> 0,
         dtype |-> dtype, device |-> device, data |-> <<>> \o data]
Like(t, shape, data) == New(shape, t.dtype, t.device, data)

\* Pointers into a storage: kernels get its start, or the first element.
Start(t) == [data |-> t.data, at |-> 0]
First(t) == [data |-> t.data, at |-> t.offset]
\* Outside of the storage, NaN stands for what may be there: it spreads.
Load(p, i) == IF p.at + i + 1 \in DOMAIN p.data THEN p.data[p.at + i + 1] ELSE NaN
Advanced(p, n) == [p EXCEPT !.at = @ + n]

\* What a caller sees through the layout.
Elements(t) == [n \in 1..Numel(t.shape) |-> Load(Start(t), Address(t, n - 1))]

\* contiguous(): a tensor whose elements follow one another is returned as it is.
Contiguous(t) == IF IsContiguous(t) THEN t ELSE Like(t, t.shape, Elements(t))

\* Elements n, n + stride, ... behind a pointer.
Strided(p, n, stride, count) == [i \in 1..count |-> Load(p, n + (i - 1) * stride)]

\* A constructor over the same storage.
Flat(t, offset) == [t EXCEPT !.shape = <<Numel(t.shape)>>, !.strides = <<1>>, !.offset = offset]

-----------------------------------------------------------------------------
(* Transfers                                                                 *)

\* Mutant: the bytes are read from the start of the storage.
CopyToHost_FromStart(t) ==
    New(t.shape, t.dtype, "cpu", [n \in 1..Numel(t.shape) |-> Load(Start(t), n - 1)])

CopyToHost(t) == New(t.shape, t.dtype, "cpu", [n \in 1..Numel(t.shape) |-> Load(First(t), n - 1)])

CopyToCpu(t) ==
    CASE ~IsContiguous(t) -> Refused
      [] t.device = "cpu" -> t
      [] OTHER -> CopyToHost(t)

Upload(cpu, device) ==
    IF cpu = Refused \/ device = "cpu" THEN cpu
    ELSE New(cpu.shape, cpu.dtype, device, [n \in 1..Numel(cpu.shape) |-> Load(First(cpu), n - 1)])
To(t, device) ==
    CASE ~Defined(t) -> Refused
      [] t.device = device -> t
      [] OTHER -> Upload(CopyToCpu(t), device)

FromVector(values, shape, dtype, device) ==
    Ensure(Len(values) = Numel(shape),
           To(New(shape, dtype, "cpu", [i \in 1..Len(values) |->
                  IF dtype \in FloatTypes THEN Rounded(values[i], dtype) ELSE values[i]]), device))

-----------------------------------------------------------------------------
(* Broadcasting                                                              *)

\* Dimension i from the right, 1 beyond the first.
FromRight(shape, i) == IF i <= Len(shape) THEN shape[Len(shape) + 1 - i] ELSE 1
Broadcastable(l, r) ==
    \A i \in 1..Max({Len(l), Len(r)}) :
        FromRight(l, i) = FromRight(r, i) \/ FromRight(l, i) = 1 \/ FromRight(r, i) = 1
BroadcastShape(l, r) ==
    LET rank == Max({Len(l), Len(r)})
    IN  [i \in 1..rank |-> Max({FromRight(l, rank + 1 - i), FromRight(r, rank + 1 - i)})]

\* The place of an operand's element for the n-th of the output: axes of one
\* element do not move it.
BroadcastIndex(n, output, shape, strides) ==
    Dot([i \in 1..Len(shape) |->
            IF shape[i] = 1 THEN 0 ELSE Unravel(n, output)[i + Len(output) - Len(shape)]], strides)

\* Mutant: the batch is taken for the operand's own.
BatchIndex_Unmapped(n, output, shape) == n % Numel(shape)

\* The matrix of an operand for the n-th matrix of the output.
BatchIndex(n, output, shape) == BroadcastIndex(n, output, shape, ContiguousStrides(shape))

-----------------------------------------------------------------------------
(* Reductions                                                                *)

KeptAxes(shape, axes) == SelectSeq([i \in 1..Len(shape) |-> i], LAMBDA i : i \notin axes)
ReducedShape(shape, axes, keepdim) ==
    IF keepdim THEN [i \in 1..Len(shape) |-> IF i \in axes THEN 1 ELSE shape[i]]
    ELSE LET kept == KeptAxes(shape, axes) IN [i \in 1..Len(kept) |-> shape[kept[i]]]

\* Dimensions around an axis: what lies outside of it and within one step of it.
Outer(shape, axis) == Numel(SubSeq(shape, 1, axis - 1))
Inner(shape, axis) == Numel(SubSeq(shape, axis + 1, Len(shape)))

-----------------------------------------------------------------------------
(* Matrix products                                                           *)

BatchOf(shape) == SubSeq(shape, 1, Len(shape) - 2)
Rows(t) == t.shape[Rank(t) - 1]
Columns(t) == t.shape[Rank(t)]

\* Row-major m x k and k x n matrices behind two pointers.
Product(a, b, k, n, row, column) ==
    SumOf([i \in 1..k |-> Times(Load(a, row * k + i - 1), Load(b, (i - 1) * n + column))])

Is2dProduct(a, b) == Rank(a) = 2 /\ Rank(b) = 2 /\ a.shape[2] = b.shape[1]
IsBatchedProduct(a, b) ==
    /\ Rank(a) >= 2 /\ Rank(b) >= 2 /\ ~(Rank(a) = 2 /\ Rank(b) = 2)
    /\ Columns(a) = Rows(b)
    /\ Broadcastable(BatchOf(a.shape), BatchOf(b.shape))
BatchedShape(a, b) == BroadcastShape(BatchOf(a.shape), BatchOf(b.shape)) \o <<Rows(a), Columns(b)>>

\* make_batched_layout(): where the pairs of matrices begin.
BatchOffsets(t, batch) ==
    <<>> \o [i \in 1..Numel(batch) |-> BatchIndex(i - 1, batch, BatchOf(t.shape)) * Rows(t) * Columns(t)]
LayoutOver(a, b, output) ==
    [output |-> output, aOffsets |-> BatchOffsets(a, BatchOf(output)), bOffsets |-> BatchOffsets(b, BatchOf(output))]
BatchedLayout(a, b) == LayoutOver(a, b, BatchedShape(a, b))

\* One pair of matrices after another.
PairProduct(layout, pa, pb, pair, k, n, place) ==
    Product(Advanced(pa, layout.aOffsets[pair]), Advanced(pb, layout.bOffsets[pair]), k, n, place \div n, place % n)
ProductsOver(layout, pa, pb, m, k, n) ==
    [p \in 1..Numel(layout.output) |->
        PairProduct(layout, pa, pb, 1 + (p - 1) \div (m * n), k, n, (p - 1) % (m * n))]
BatchedProduct(a, b, pa, pb) == ProductsOver(BatchedLayout(a, b), pa, pb, Rows(a), Columns(a), Columns(b))
=============================================================================
