----------------------------- MODULE CudaKernels -----------------------------
(***************************************************************************)
(* What operations compute on CUDA devices: the reference backend, and the *)
(* matrix products of the cuBLAS and CUTLASS backends. Grids and tiles     *)
(* cover every output once; kernels run in the order of one stream (see    *)
(* CudaStream).                                                            *)
(***************************************************************************)
EXTENDS CpuKernels

\* add_f32 and sub_f32 read the storages from their start.
AddF32(a, b, count) == [i \in 1..count |-> Plus(Load(a, i - 1), Load(b, i - 1))]
SubF32(a, b, count) == [i \in 1..count |-> Minus(Load(a, i - 1), Load(b, i - 1))]
CudaAdd(a, b) ==
    Ensure(SameFloat32(a, b), Like(a, a.shape, AddF32(Start(a), Start(b), Numel(a.shape))))
CudaSub(a, b) ==
    Ensure(SameFloat32(a, b), Like(a, a.shape, SubF32(Start(a), Start(b), Numel(a.shape))))

\* a < b ? b : a, and the other operations.
ApplyElementwise(operation, a, b) ==
    IF operation = "maximum" THEN (IF Less(a, b) THEN b ELSE a) ELSE Apply(operation, a, b)

BroadcastElementwiseF32(operation, a, b, shape) ==
    LET at(t, n) == Load(Start(t), BroadcastIndex(n, shape, t.shape, ContiguousStrides(t.shape)))
    IN  [n \in 1..Numel(shape) |-> ApplyElementwise(operation, at(a, n - 1), at(b, n - 1))]
CudaBroadcast(operation, a, b) ==
    LET shape == BroadcastShape(a.shape, b.shape)
    IN  Ensure(/\ IsFloat32(a) /\ IsFloat32(b) /\ b.device = a.device
               /\ Broadcastable(a.shape, b.shape),
               New(shape, "f32", a.device, BroadcastElementwiseF32(operation, a, b, shape)))

ScalarElementwiseF32(operation, input, scalar, count) ==
    [i \in 1..count |-> ApplyUnary(operation, Load(input, i - 1), scalar)]
CudaScalar(operation, t, scalar) ==
    Ensure(IsFloat32(t),
           Like(t, t.shape, ScalarElementwiseF32(operation, Start(t), scalar, Numel(t.shape))))

UnaryF32(operation, input, argument, count) ==
    [i \in 1..count |-> ApplyUnary(operation, Load(input, i - 1), argument)]
CudaUnary(operation, t, argument) ==
    Ensure(IsFloat32(t),
           Like(t, t.shape, UnaryF32(operation, Start(t), argument, Numel(t.shape))))

MaskedFillF32(input, mask, value, shape, maskShape) ==
    LET masked(n) == Load(mask, BroadcastIndex(n, shape, maskShape, ContiguousStrides(maskShape)))
    IN  [n \in 1..Numel(shape) |-> IF masked(n - 1) # 0 THEN value ELSE Load(input, n - 1)]
CudaMaskedFill(t, mask, value) ==
    Like(t, t.shape, MaskedFillF32(Start(t), Start(mask), value, t.shape, mask.shape))

CastFloating(input, count, dtype) == [i \in 1..count |-> Rounded(Load(input, i - 1), dtype)]
CudaCast(t, dtype) ==
    New(t.shape, dtype, t.device, CastFloating(Start(Contiguous(t)), Numel(t.shape), dtype))

-----------------------------------------------------------------------------
(* Reductions, packing, joining                                              *)

\* The axes not reduced number the outputs, the reduced ones their inputs.
ReduceF32(input, t, axes, operation, n) ==
    LET other == KeptAxes(t.shape, 1..Rank(t) \ axes)
        kept == KeptAxes(t.shape, axes)
        picked(seq, places) == [i \in 1..Len(places) |-> seq[places[i]]]
        base == Dot(Unravel(n, picked(t.shape, kept)), picked(t.strides, kept))
        sizes == picked(t.shape, other)
        value(i) == Load(input, base + Dot(Unravel(i, sizes), picked(t.strides, other)))
    IN  Summary(operation, [i \in 1..Numel(sizes) |-> value(i - 1)])

CombineReduction(operation, left, right) ==
    IF operation = "max" THEN (IF Less(left, right) THEN right ELSE left) ELSE Plus(left, right)
ReduceLastDimensionF32(input, size, operation, row) ==
    LET identity == IF operation = "max" THEN MinusInfinity ELSE 0
        total == Folded(LAMBDA a, b : CombineReduction(operation, a, b), identity,
                          Strided(input, row * size, 1, size))
    IN  IF operation = "mean" THEN Over(total, size) ELSE total

CudaReduce(t, axes, keepdim, operation) ==
    LET shape == ReducedShape(t.shape, axes, keepdim)
        specialized == axes = {Rank(t)} /\ Rank(t) > 0 /\ IsContiguous(t) /\ operation # "variance"
    IN  Like(t, shape, [n \in 1..Numel(shape) |->
                           IF specialized
                           THEN ReduceLastDimensionF32(First(t), t.shape[Rank(t)], operation, n - 1)
                           ELSE ReduceF32(First(t), t, axes, operation, n - 1)])

\* Mutant: among equal values any index will do.
BetterIndex_ByValue(value, index, bestValue, bestIndex) == ~Less(value, bestValue)

\* Equal values are decided by the index, whatever the order of comparisons.
BetterIndex(value, index, bestValue, bestIndex) ==
    Less(bestValue, value) \/ (value = bestValue /\ index < bestIndex)
\* The threads of a block (two for 256) take every other element, from minus
\* infinity behind the last index on, and the first one combines their finds.
ArgmaxThreads == 2
ArgmaxF32(input, size, inner, n) ==
    LET values == Strided(input, (n \div inner) * size * inner + (n % inner), inner, size)
        better(best, x) == IF BetterIndex(x.value, x.index, best.value, best.index) THEN x ELSE best
        none == [value |-> MinusInfinity, index |-> size]
        own(thread) == SelectSeq([i \in 1..size |-> [value |-> values[i], index |-> i - 1]],
                                 LAMBDA x : x.index % ArgmaxThreads = thread)
        found == [thread \in 1..ArgmaxThreads |-> Folded(better, none, own(thread - 1))]
    IN  Folded(better, none, <<>> \o found).index
CudaArgmax(t, axis, keepdim) ==
    LET shape == ReducedShape(t.shape, {axis}, keepdim)
        value(n) == ArgmaxF32(First(Contiguous(t)), t.shape[axis], Inner(t.shape, axis), n)
    IN  Ensure(t.shape[axis] # 0,
               New(shape, "i64", t.device, [n \in 1..Numel(shape) |-> value(n - 1)]))
CudaArgmaxAll(t) == CudaArgmax(Flat(t, 0), 1, FALSE)

CopyStrided(input, t) == [n \in 1..Numel(t.shape) |-> Load(input, Dot(Unravel(n - 1, t.shape), t.strides))]
CudaContiguous(t) == IF IsContiguous(t) THEN t ELSE Like(t, t.shape, CopyStrided(First(t), t))

\* Mutant: a row behind the table's last is read.
GatherRowsBytes_BeyondTable(table, indices, rows, width, n) ==
    LET row == Load(indices, n \div width)
    IN  IF row >= 0 THEN Load(table, row * width + (n % width)) ELSE Refused

\* Every byte of a bad row raises the flag that the host then waits for.
GatherRowsBytes(table, indices, rows, width, n) ==
    LET row == Load(indices, n \div width)
    IN  IF row \in 0..rows - 1 THEN Load(table, row * width + (n % width)) ELSE Refused
GatheredFrom(ptable, pindices, rows, width, count) ==
    [n \in 1..count * width |-> GatherRowsBytes(ptable, pindices, rows, width, n - 1)]
RowsOrRefused(table, indices, data) ==
    Ensure(\A n \in DOMAIN data : data[n] # Refused, Like(table, Append(indices.shape, table.shape[2]), data))
CudaGatherRows(table, indices) ==
    RowsOrRefused(table, indices,
                  GatheredFrom(Start(CudaContiguous(table)), Start(CudaContiguous(indices)),
                               table.shape[1], table.shape[2], Numel(indices.shape)))

\* One copy per operand of rows of its width, into rows of the output's pitch.
CudaConcat(tensors, axis) ==
    LET outer == Outer(tensors[1].shape, axis)
        width(t) == t.shape[axis] * Inner(t.shape, axis)
        row(t, n) == Strided(First(CudaContiguous(t)), n * width(t), 1, width(t))
        rows == [p \in 1..outer * Len(tensors) |->
                    row(tensors[((p - 1) % Len(tensors)) + 1], (p - 1) \div Len(tensors))]
    IN  Like(tensors[1], JoinedShape(tensors, axis), FlattenSeq(rows))

-----------------------------------------------------------------------------
(* Matrix products                                                           *)

MatchingFloats(a, b) == Defined(a) /\ Defined(b) /\ a.dtype \in FloatTypes /\ b.dtype = a.dtype

\* Tiles of both operands are loaded together, padded with zeros and multiplied
\* whole. The code's 16 is cut to 2: inner dimensions 1 to 3 cut tiles or fill them.
TileSize == 2
MatmulF32(a, b, m, k, n, row, column) ==
    LET passes == (k + TileSize - 1) \div TileSize
        left(i) == IF row < m /\ i < k THEN Load(a, row * k + i) ELSE 0
        right(i) == IF i < k /\ column < n THEN Load(b, i * n + column) ELSE 0
    IN  SumOf([i \in 1..passes * TileSize |-> Times(left(i - 1), right(i - 1))])

\* matmul() allows half precision, but matmul_out() of this backend does not.
TiledProduct(pa, pb, m, k, n) == [p \in 1..m * n |-> MatmulF32(pa, pb, m, k, n, (p - 1) \div n, (p - 1) % n)]
ReferenceMatmul(a, b) ==
    Ensure(MatchingFloats(a, b) /\ Is2dProduct(a, b) /\ a.dtype = "f32",
           Like(a, <<a.shape[1], b.shape[2]>>,
                TiledProduct(First(CudaContiguous(a)), First(CudaContiguous(b)), a.shape[1], a.shape[2], b.shape[2])))

\* The reference backend's own make_batched_layout().
Places(t, ob) == <<>> \o [i \in 1..Numel(ob) |-> BatchIndex(i - 1, ob, BatchOf(t.shape)) * Rows(t) * Columns(t)]
PlacesOver(a, b, shape) == [shape |-> shape, ao |-> Places(a, BatchOf(shape)), bo |-> Places(b, BatchOf(shape))]
BatchLayout(a, b) == PlacesOver(a, b, BatchedShape(a, b))
BatchedMatmulF32(a, b, ao, bo, m, k, n, row, column) ==
    MatmulF32(Advanced(a, ao), Advanced(b, bo), m, k, n, row, column)
MultipliedBy(l, a, b, m, n) ==
    Like(a, l.shape,
         [p \in 1..Numel(l.shape) |->
             LET batch == 1 + (p - 1) \div (m * n)
             IN  BatchedMatmulF32(Start(a), Start(b), l.ao[batch], l.bo[batch], m, Columns(a), n,
                                  ((p - 1) % (m * n)) \div n, (p - 1) % n)])
CudaBatchedMatmul(a, b) ==
    Ensure(IsFloat32(a) /\ IsFloat32(b) /\ IsBatchedProduct(a, b),
           MultipliedBy(BatchLayout(a, b), a, b, Rows(a), Columns(b)))

\* A matrix as one of the layouts that BLAS libraries know.
CudaMatrixLayout(t) ==
    LET rows == t.shape[1]
        columns == t.shape[2]
    IN  CASE (columns <= 1 \/ t.strides[2] = 1) /\ (rows <= 1 \/ t.strides[1] >= columns) ->
                [kind |-> "row", leading |-> t.strides[1]]
          [] (rows <= 1 \/ t.strides[1] = 1) /\ (columns <= 1 \/ t.strides[2] >= rows) ->
                [kind |-> "column", leading |-> t.strides[2]]
          [] OTHER -> [kind |-> "unsupported", leading |-> 0]
BlasOperand(t) == IF CudaMatrixLayout(t).kind = "unsupported" THEN CudaContiguous(t) ELSE t
BlasElement(t, row, column) ==
    LET layout == CudaMatrixLayout(t)
    IN  Load(First(t), IF layout.kind = "row" THEN row * layout.leading + column
                       ELSE column * layout.leading + row)
GemmElement(a, b, row, column) ==
    SumOf([i \in 1..a.shape[2] |-> Times(BlasElement(a, row, i - 1), BlasElement(b, i - 1, column))])
Gemm(a, b, dtype) ==
    LET n == b.shape[2]
    IN  New(<<a.shape[1], n>>, dtype, a.device,
            [p \in 1..a.shape[1] * n |-> Rounded(GemmElement(a, b, (p - 1) \div n, (p - 1) % n), dtype)])

\* cuBLAS refuses a leading dimension shorter than a row (of a row-major
\* matrix) or a column, even where there is only one. Empty products do not
\* get that far, but for a batch of them.
CublasAccepts(t) ==
    LET layout == CudaMatrixLayout(t)
    IN  layout.leading >= Max({1, IF layout.kind = "row" THEN t.shape[2] ELSE t.shape[1]})
CublasGemm(a, b, dtype) ==
    Ensure(0 \in {Numel(a.shape), Numel(b.shape)} \/ (CublasAccepts(a) /\ CublasAccepts(b)), Gemm(a, b, dtype))
CublasMatmul(a, b, dtype) ==
    Ensure(MatchingFloats(a, b) /\ Is2dProduct(a, b), CublasGemm(BlasOperand(a), BlasOperand(b), dtype))
CublasBatchedMatmul(a, b) ==
    Ensure(/\ IsFloat32(a) /\ IsFloat32(b) /\ IsBatchedProduct(a, b)
           /\ Numel(BatchedShape(a, b)) = 0 \/ Columns(a) # 0,
           Like(a, BatchedShape(a, b), BatchedProduct(a, b, Start(a), Start(b))))

CutlassMatmul(a, b) ==
    Ensure(IsFloat32(a) /\ IsFloat32(b) /\ Is2dProduct(a, b),
           Gemm(BlasOperand(a), BlasOperand(b), "f32"))
CutlassBatchedMatmul(a, b) ==
    Ensure(IsFloat32(a) /\ IsFloat32(b) /\ IsBatchedProduct(a, b),
           Like(a, BatchedShape(a, b), BatchedProduct(a, b, Start(a), Start(b))))

-----------------------------------------------------------------------------
(* Fused kernels, on operands that are contiguous                            *)

Ready(t) == IsFloat32(t) /\ IsContiguous(t)
WeightOf(input, weight) == Rank(input) > 0 /\ weight.shape = <<input.shape[Rank(input)]>>
InverseRms(input, base, size, epsilon) ==
    InverseSqrt(Plus(MeanOf([i \in 1..size |-> Square(Load(input, base + i - 1))]), epsilon))

RmsNormF32(input, weight, size, epsilon, n) ==
    Times(Times(Load(input, n), InverseRms(input, n - (n % size), size, epsilon)), Load(weight, n % size))
CudaTryRmsNorm(input, weight, epsilon) ==
    IF Ready(input) /\ Ready(weight) /\ WeightOf(input, weight) /\ weight.device = input.device
    THEN Like(input, input.shape,
              [n \in 1..Numel(input.shape) |->
                  RmsNormF32(First(input), First(weight), input.shape[Rank(input)], epsilon, n - 1)])
    ELSE NotTaken

SwigluF32(gate, up) == Times(Over(gate, Plus(1, Exp(Negative(gate)))), up)
CudaTrySwiglu(gate, up) ==
    IF Ready(gate) /\ Ready(up) /\ up.shape = gate.shape /\ up.device = gate.device
    THEN Like(gate, gate.shape,
              [n \in 1..Numel(gate.shape) |-> SwigluF32(Load(First(gate), n - 1), Load(First(up), n - 1))])
    ELSE NotTaken

\* The sum is written first and normalized from there.
AddRmsNormF32(sum, weight, size, epsilon, n) == RmsNormF32(sum, weight, size, epsilon, n)
Summed(left, right) ==
    Like(left, left.shape,
         [n \in 1..Numel(left.shape) |-> Plus(Load(First(left), n - 1), Load(First(right), n - 1))])
WithNormalized(residual, weight, epsilon) ==
    <<residual, Like(residual, residual.shape,
                     [n \in 1..Numel(residual.shape) |->
                         AddRmsNormF32(Start(residual), First(weight), residual.shape[Rank(residual)], epsilon, n - 1)])>>
CudaTryAddRmsNorm(left, right, weight, epsilon) ==
    IF /\ Ready(left) /\ Ready(right) /\ Ready(weight)
       /\ right.shape = left.shape /\ WeightOf(left, weight)
       /\ {right.device, weight.device} = {left.device}
    THEN WithNormalized(Summed(left, right), weight, epsilon)
    ELSE NotTaken

\* Mutant: the partner of the second half is negated instead of the first's.
Rotation_Backwards(value, partner, first, angle) ==
    Plus(Times(value, Cosine(angle)), Times(IF first THEN partner ELSE Negative(partner), Sine(angle)))

Rotation(value, partner, first, angle) ==
    Plus(Times(value, Cosine(angle)), Times(IF first THEN Negative(partner) ELSE partner, Sine(angle)))

\* Input [batch, sequence, heads, dim], output [batch, heads, sequence, dim]:
\* output n comes from row `row`.
RmsNormRopeF32(input, weight, shape, epsilon, n) ==
    LET dim == shape[4]
        half == dim \div 2
        c == Unravel(n, <<shape[1], shape[3], shape[2], dim>>)
        row == (c[1] * shape[2] + c[3]) * shape[3] + c[2]
        column == c[4]
        partner == IF column < half THEN column + half ELSE column - half
    IN  Rotation(RmsNormF32(input, weight, dim, epsilon, row * dim + column),
                 RmsNormF32(input, weight, dim, epsilon, row * dim + partner),
                 column < half, Angle(c[3], column % half))
RopeShape(shape) == <<shape[1], shape[3], shape[2], shape[4]>>
CudaTryRmsNormRope(input, weight, epsilon) ==
    IF /\ Ready(input) /\ Ready(weight) /\ Rank(input) = 4 /\ input.shape[4] % 2 = 0
       /\ WeightOf(input, weight) /\ weight.device = input.device
    THEN Like(input, RopeShape(input.shape),
              [n \in 1..Numel(input.shape) |->
                  RmsNormRopeF32(First(input), First(weight), input.shape, epsilon, n - 1)])
    ELSE NotTaken

-----------------------------------------------------------------------------
(* Attention: one pass over the keys with a running maximum                  *)

\* Mutant: what was accumulated is not rescaled to the new maximum.
OnlineStep_NoRescale(state, score, value) ==
    LET maximum == Larger(state.maximum, score)
        scale == IF score = MinusInfinity THEN 0 ELSE Exp(Minus(score, maximum))
    IN  [maximum |-> maximum, sum |-> Plus(state.sum, scale),
         total |-> [i \in DOMAIN value |-> Plus(state.total[i], Times(value[i], scale))]]

OnlineStep(state, score, value) ==
    LET maximum == Larger(state.maximum, score)
        previous == IF state.maximum = MinusInfinity THEN 0 ELSE Exp(Minus(state.maximum, maximum))
        scale == IF score = MinusInfinity THEN 0 ELSE Exp(Minus(score, maximum))
    IN  [maximum |-> maximum, sum |-> Plus(Times(state.sum, previous), scale),
         total |-> [i \in DOMAIN value |-> Plus(Times(state.total[i], previous), Times(value[i], scale))]]

Averaged(state) == [d \in DOMAIN state.total |-> Over(state.total[d], state.sum)]

\* One row of the output; mask is Undefined or a pointer.
AttentionRow(query, key, value, mask, q, k, causal, row) ==
    LET dim == q[4]
        position == row % q[3]
        head == (row \div q[3]) % q[2]
        batch == row \div (q[2] * q[3])
        base(i) == ((batch * k[2] + head \div (q[2] \div k[2])) * k[3] + i) * dim
        excluded(i) ==
            \/ causal /\ i > position
            \/ mask # Undefined /\ Load(mask, position * k[3] + i) # 0
        product(i) == SumOf([d \in 1..dim |-> Times(Load(query, row * dim + d - 1), Load(key, base(i) + d - 1))])
        start == [maximum |-> MinusInfinity, sum |-> 0, total |-> [d \in 1..dim |-> 0]]
    IN  Averaged(Folded(LAMBDA s, i :
                            OnlineStep(s, IF excluded(i) THEN MinusInfinity ELSE Times(product(i), InverseSqrt(dim)),
                                       Strided(value, base(i), 1, dim)),
                        start, [i \in 1..k[3] |-> i - 1]))

AttentionReady(query, key, value, mask, limit) ==
    /\ Ready(query) /\ Ready(key) /\ Ready(value)
    /\ Rank(query) = 4 /\ Rank(key) = 4 /\ value.shape = key.shape
    /\ {key.device, value.device} = {query.device}
    /\ key.shape[1] = query.shape[1] /\ query.shape[2] % key.shape[2] = 0
    /\ key.shape[4] = query.shape[4] /\ query.shape[4] <= limit
    /\ mask # Undefined => /\ mask.dtype = "bool" /\ mask.device = query.device
                           /\ mask.shape = <<query.shape[3], key.shape[3]>> /\ IsContiguous(mask)
Attended(query, key, value, mask, causal) ==
    LET q == query.shape
        pmask == IF mask = Undefined THEN Undefined ELSE First(mask)
    IN  Like(query, q, FlattenSeq([r \in 1..q[1] * q[2] * q[3] |->
                AttentionRow(First(query), First(key), First(value), pmask, q, key.shape, causal, r - 1)]))
CudaTryAttention(query, key, value, mask, causal) ==
    IF AttentionReady(query, key, value, mask, 1024)
    THEN Attended(query, key, value, mask, causal) ELSE NotTaken
=============================================================================
