---------------------------- MODULE MetalKernels ----------------------------
(***************************************************************************)
(* What operations compute on a Metal device. Except for add and sub, its  *)
(* kernels get a pointer to the first element; several honour strides,     *)
(* the others refuse operands that are not contiguous. Encoding, waiting   *)
(* and host access are in MetalContext.                                    *)
(***************************************************************************)
EXTENDS CudaKernels

\* run_elementwise() binds every buffer at 0.
RunElementwise(operation, a, b, count) ==
    [i \in 1..count |-> Apply(operation, Load(a, i - 1), Load(b, i - 1))]
MetalAdd(a, b) ==
    Ensure(SameFloat32(a, b),
           Like(a, a.shape, RunElementwise("add", Start(a), Start(b), Numel(a.shape))))
MetalSub(a, b) ==
    Ensure(SameFloat32(a, b),
           Like(a, a.shape, RunElementwise("sub", Start(a), Start(b), Numel(a.shape))))

BroadcastElementwiseKernel(operation, a, b, shape) ==
    LET at(t, n) == Load(First(t), BroadcastIndex(n, shape, t.shape, t.strides))
    IN  [n \in 1..Numel(shape) |-> Apply(operation, at(a, n - 1), at(b, n - 1))]
MetalBroadcast(operation, a, b) ==
    LET shape == BroadcastShape(a.shape, b.shape)
    IN  Ensure(/\ IsFloat32(a) /\ IsFloat32(b) /\ b.device = a.device
               /\ Broadcastable(a.shape, b.shape),
               New(shape, "f32", a.device, BroadcastElementwiseKernel(operation, a, b, shape)))

ScalarElementwiseKernel(operation, input, scalar, count) ==
    [i \in 1..count |-> ApplyUnary(operation, Load(input, i - 1), scalar)]
MetalScalar(operation, t, scalar) ==
    Ensure(IsFloat32(t) /\ IsContiguous(t),
           Like(t, t.shape, ScalarElementwiseKernel(operation, First(t), scalar, Numel(t.shape))))

UnaryKernel(operation, input, argument, count) ==
    [i \in 1..count |-> ApplyUnary(operation, Load(input, i - 1), argument)]
MetalUnary(operation, t, argument) ==
    Ensure(IsFloat32(t) /\ IsContiguous(t),
           Like(t, t.shape, UnaryKernel(operation, First(t), argument, Numel(t.shape))))

MaskedFillKernel(input, mask, value, shape, maskShape, maskStrides) ==
    LET masked(n) == Load(mask, BroadcastIndex(n, shape, maskShape, maskStrides))
    IN  [n \in 1..Numel(shape) |-> IF masked(n - 1) # 0 THEN value ELSE Load(input, n - 1)]
MetalMaskedFill(t, mask, value) ==
    Ensure(IsContiguous(t),
           Like(t, t.shape, MaskedFillKernel(First(t), First(mask), value, t.shape, mask.shape, mask.strides)))

-----------------------------------------------------------------------------
(* Packing, joining, looking up                                              *)

ContiguousCopy(input, t) == [n \in 1..Numel(t.shape) |-> Load(input, Dot(Unravel(n - 1, t.shape), t.strides))]
MetalContiguous(t) == IF IsContiguous(t) THEN t ELSE Like(t, t.shape, ContiguousCopy(First(t), t))

\* The output of a kernel that writes input element n of t at the place of its
\* coordinates, moved along the axis by what came before.
ConcatCopy(output, t, axis, before, strides) ==
    LET place(n) == Dot([Unravel(n, t.shape) EXCEPT ![axis] = @ + before], strides)
        written == [n \in 0..Numel(t.shape) - 1 |-> place(n) + 1]
    IN  Folded(LAMBDA o, n : [o EXCEPT ![written[n - 1]] =
                                   Load(First(t), Dot(Unravel(n - 1, t.shape), t.strides))],
                 output, [n \in 1..Numel(t.shape) |-> n])
MetalConcat(tensors, axis) ==
    LET shape == JoinedShape(tensors, axis)
        strides == ContiguousStrides(shape)
        step(s, t) == [output |-> ConcatCopy(s.output, t, axis, s.before, strides),
                       before |-> s.before + t.shape[axis]]
        fresh == [output |-> <<>> \o [n \in 1..Numel(shape) |-> NaN], before |-> 0]
    IN  Like(tensors[1], shape, Folded(step, fresh, tensors).output)

GatherRowsKernel(table, indices, rows, width, n) ==
    LET row == Load(indices, n \div width)
    IN  IF row \in 0..rows - 1 THEN Load(table, row * width + (n % width)) ELSE Refused
MetalGatherRows(table, indices) ==
    LET width == table.shape[2]
        data == [n \in 1..Numel(indices.shape) * width |->
                    GatherRowsKernel(First(table), First(indices), table.shape[1], width, n - 1)]
    IN  Ensure(IsContiguous(table) /\ IsContiguous(indices) /\ \A n \in DOMAIN data : data[n] # Refused,
               Like(table, Append(indices.shape, width), data))

-----------------------------------------------------------------------------
(* Reductions                                                                *)

\* Every thread visits all inputs and keeps those of its own output.
ReduceKernel(input, t, axes, operation, output) ==
    LET kept == KeptAxes(t.shape, axes)
        strides == ContiguousStrides(ReducedShape(t.shape, axes, FALSE))
        ofOutput(n) == Total([i \in 1..Len(kept) |-> Unravel(n, t.shape)[kept[i]] * strides[i]])
        mine == SelectSeq([n \in 1..Numel(t.shape) |-> n - 1], LAMBDA n : ofOutput(n) = output)
    IN  Summary(operation, [i \in 1..Len(mine) |-> Load(input, Dot(Unravel(mine[i], t.shape), t.strides))])
MetalReduce(t, axes, keepdim, operation) ==
    LET shape == ReducedShape(t.shape, axes, keepdim)
    IN  Ensure(IsFloat32(t),
               Like(t, shape, [n \in 1..Numel(shape) |-> ReduceKernel(First(t), t, axes, operation, n - 1)]))

\* The output's coordinates lead to the first candidate.
ArgmaxKernel(input, t, axis, n) ==
    LET kept == KeptAxes(t.shape, {axis})
        c == Unravel(n, ReducedShape(t.shape, {axis}, FALSE))
        base == Total([i \in 1..Len(kept) |-> c[i] * t.strides[kept[i]]])
    IN  ArgMax(Strided(input, base, t.strides[axis], t.shape[axis]))
MetalArgmax(t, axis, keepdim) ==
    LET shape == ReducedShape(t.shape, {axis}, keepdim)
    IN  Ensure(IsFloat32(t) /\ t.shape[axis] # 0,
               New(shape, "i64", t.device, [n \in 1..Numel(shape) |-> ArgmaxKernel(First(t), t, axis, n - 1)]))
MetalArgmaxAll(t) ==
    LET packed == MetalContiguous(t) IN MetalArgmax(Flat(packed, packed.offset), 1, FALSE)

SoftmaxRow(input, width, row) ==
    LET values == Strided(input, row * width, 1, width)
        largest == LargestOf(values)
        exponentials == <<>> \o [i \in 1..width |-> Exp(Minus(values[i], largest))]
        inverse == Over(1, SumOf(exponentials))
    IN  [i \in 1..width |-> Times(exponentials[i], inverse)]
MetalSoftmaxLastDimension(t) ==
    LET width == t.shape[Rank(t)]
    IN  Ensure(IsFloat32(t) /\ IsContiguous(t) /\ Rank(t) > 0 /\ width > 0,
               Like(t, t.shape, FlattenSeq([r \in 1..Numel(t.shape) \div width |->
                                               SoftmaxRow(First(t), width, r - 1)])))

-----------------------------------------------------------------------------
(* Matrix products, by Metal Performance Shaders: a is packed, b is read by  *)
(* rows, or by columns when it is the transpose of a row-major matrix.       *)

MpsElement(p, rowLength, transposed, row, column) ==
    Load(p, IF transposed THEN column * rowLength + row ELSE row * rowLength + column)
MpsProduct(a, b, rowLength, transposed) ==
    LET n == b.shape[2]
    IN  Like(a, <<a.shape[1], n>>,
             [p \in 1..a.shape[1] * n |->
                 SumOf([i \in 1..a.shape[2] |->
                           Times(Load(First(a), ((p - 1) \div n) * a.shape[2] + i - 1),
                                 MpsElement(First(b), rowLength, transposed, i - 1, (p - 1) % n))])])
MpsRowProduct(a, b) == MpsProduct(a, b, b.strides[1], FALSE)
MetalMatmul(a, b) ==
    Ensure(IsFloat32(a) /\ IsFloat32(b) /\ Is2dProduct(a, b),
           IF ~IsContiguous(b) /\ b.strides[1] = 1 /\ b.strides[2] >= b.shape[1]
           THEN MpsProduct(MetalContiguous(a), b, b.strides[2], TRUE)
           ELSE MpsRowProduct(MetalContiguous(a), MetalContiguous(b)))

\* The batched product has a kernel of its own.
BatchedMatmulKernel(a, b, aBase, bBase, m, k, n, row, column) ==
    MatmulF32(Advanced(a, aBase), Advanced(b, bBase), m, k, n, row, column)
BatchedKernelOver(layout, a, b, m, n) ==
    New(layout.output, "f32", a.device,
        [p \in 1..Numel(layout.output) |->
            LET batch == 1 + (p - 1) \div (m * n)
            IN  BatchedMatmulKernel(First(a), First(b), layout.aOffsets[batch], layout.bOffsets[batch],
                                    m, Columns(a), n, ((p - 1) % (m * n)) \div n, (p - 1) % n)])
MetalBatchedMatmul(a, b) ==
    Ensure(IsFloat32(a) /\ IsFloat32(b) /\ IsBatchedProduct(a, b),
           BatchedKernelOver(BatchedLayout(a, b), MetalContiguous(a), MetalContiguous(b), Rows(a), Columns(b)))

-----------------------------------------------------------------------------
(* Fused kernels: types, shapes and devices are left to the callers          *)

RmsNormKernel(input, weight, width, epsilon, row) ==
    LET inverse == InverseRms(input, row * width, width, epsilon)
    IN  [i \in 1..width |-> Times(Times(Load(input, row * width + i - 1), inverse), Load(weight, i - 1))]
RmsNormRows(p, weight, shape, epsilon) ==
    LET width == shape[Len(shape)]
    IN  FlattenSeq([r \in 1..Numel(shape) \div width |-> RmsNormKernel(p, weight, width, epsilon, r - 1)])
MetalTryRmsNorm(input, weight, epsilon) ==
    IF IsContiguous(input) /\ IsContiguous(weight)
    THEN Like(input, input.shape, RmsNormRows(First(input), First(weight), input.shape, epsilon))
    ELSE NotTaken

MetalTrySwiglu(gate, up) ==
    IF IsContiguous(gate) /\ IsContiguous(up)
    THEN Like(gate, gate.shape,
              [n \in 1..Numel(gate.shape) |-> SwigluF32(Load(First(gate), n - 1), Load(First(up), n - 1))])
    ELSE NotTaken

NormalizedToo(residual, weight, epsilon) ==
    <<residual, Like(residual, residual.shape,
                     RmsNormRows(Start(residual), First(weight), residual.shape, epsilon))>>
MetalTryAddRmsNorm(left, right, weight, epsilon) ==
    IF IsContiguous(left) /\ IsContiguous(right) /\ IsContiguous(weight)
    THEN NormalizedToo(Summed(left, right), weight, epsilon)
    ELSE NotTaken

\* Rows of the input, scattered to their places in the output.
RmsNormRopeKernel(input, weight, shape, epsilon, row, column) ==
    LET width == shape[4]
        half == width \div 2
        position == (row \div shape[3]) % shape[2]
        other == IF column < half THEN column + half ELSE column - half
        rotated(current) ==
            Rotation(current[column + 1], current[other + 1], column < half, Angle(position, column % half))
    IN  rotated(RmsNormKernel(input, weight, width, epsilon, row))
MetalTryRmsNormRope(input, weight, epsilon) ==
    LET s == input.shape
        output == RopeShape(s)
        rowOf(c) == (c[1] * s[2] + c[3]) * s[3] + c[2]
    IN  IF IsContiguous(input) /\ IsContiguous(weight)
        THEN Like(input, output,
                  [n \in 1..Numel(s) |->
                      LET c == Unravel(n - 1, output)
                      IN  RmsNormRopeKernel(First(input), First(weight), s, epsilon, rowOf(c), c[4])])
        ELSE NotTaken

\* scaled_dot_product_attention_f32 keeps the running maximum that the CUDA
\* kernel keeps, for head dimensions up to the width of its shared memory.
MetalTryAttention(query, key, value, mask, causal) ==
    IF AttentionReady(query, key, value, mask, 256)
    THEN Attended(query, key, value, mask, causal) ELSE NotTaken
=============================================================================
