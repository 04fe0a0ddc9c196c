----------------------------- MODULE TensorOps -----------------------------
(***************************************************************************)
(* The public operations on tensors: what they check, the device they      *)
(* dispatch to, the paths they optimise and the compositions they fall     *)
(* back on. An undefined or refused operand makes the operation throw.     *)
(***************************************************************************)
EXTENDS MetalKernels, FiniteSets

CONSTANT Epsilon     \* of every normalization

OnDevice(t, cpu, cuda, metal) ==
    CASE t.device = "cpu" -> cpu
      [] IsCuda(t) -> cuda
      [] t.device = "metal" -> metal

\* dispatch(): both operands on one device.
Dispatch(l, r, cpu, cuda, metal) ==
    Ensure(Defined(l) /\ Defined(r) /\ l.device = r.device, OnDevice(l, cpu, cuda, metal))

\* The first operand's device decides; its kernel checks the second's.
Elementwise(operation, l, r) ==
    Ensure(Defined(l) /\ Defined(r),
           OnDevice(l, BroadcastBinary(operation, l, r), CudaBroadcast(operation, l, r),
                    MetalBroadcast(operation, l, r)))
Add(l, r) ==
    IF Defined(l) /\ Defined(r) /\ l.shape = r.shape
    THEN Dispatch(l, r, ThreadedAdd(l, r), CudaAdd(l, r), MetalAdd(l, r))
    ELSE Elementwise("add", l, r)
Sub(l, r) ==
    IF Defined(l) /\ Defined(r) /\ l.shape = r.shape
    THEN Dispatch(l, r, ThreadedSub(l, r), CudaSub(l, r), MetalSub(l, r))
    ELSE Elementwise("sub", l, r)
Mul(l, r) == Elementwise("mul", l, r)
Div(l, r) == Elementwise("div", l, r)
Maximum(l, r) == Elementwise("maximum", l, r)

WithScalar(operation, t, scalar) ==
    Ensure(Defined(t),
           OnDevice(t, CpuUnary(operation, t, scalar), CudaScalar(operation, t, scalar),
                    MetalScalar(operation, t, scalar)))
AddScalar(t, scalar) == WithScalar("add", t, scalar)
SubScalar(t, scalar) == WithScalar("sub", t, scalar)
SubFrom(scalar, t) == WithScalar("rsub", t, scalar)
MulScalar(t, scalar) == WithScalar("mul", t, scalar)
DivScalar(t, scalar) == WithScalar("div", t, scalar)
DivInto(scalar, t) == WithScalar("rdiv", t, scalar)

Unary(operation, t, argument) ==
    Ensure(Defined(t),
           OnDevice(t, CpuUnary(operation, t, argument), CudaUnary(operation, t, argument),
                    MetalUnary(operation, t, argument)))
ExpOf(t) == Unary("exp", t, 0)
SqrtOf(t) == Unary("sqrt", t, 0)
Pow(t, exponent) == Unary("pow", t, exponent)

MaskedFill(t, mask, value) ==
    Ensure(/\ IsFloat32(t) /\ Defined(mask) /\ mask.dtype = "bool" /\ mask.device = t.device
           /\ Broadcastable(t.shape, mask.shape) /\ BroadcastShape(t.shape, mask.shape) = t.shape,
           OnDevice(t, CpuMaskedFill(t, mask, value), CudaMaskedFill(t, mask, value),
                    MetalMaskedFill(t, mask, value)))

-----------------------------------------------------------------------------
(* Layout, indexing, types                                                   *)

ContiguousOf(t) ==
    Ensure(Defined(t), OnDevice(t, Contiguous(t), CudaContiguous(t), MetalContiguous(t)))

\* Views over the same storage: permute(), and a range of an axis.
Permute(t, order) ==
    Ensure(Defined(t), [t EXCEPT !.shape = <<>> \o [i \in DOMAIN @ |-> @[order[i]]],
                                 !.strides = <<>> \o [i \in DOMAIN @ |-> @[order[i]]]])
Transposed(t) ==
    LET n == Rank(t) IN Permute(t, [i \in 1..n |-> IF i = n THEN n - 1 ELSE IF i = n - 1 THEN n ELSE i])

\* Mutant: the start moves, the number of elements stays.
Sliced_WholeAxis(t, axis, start, length) == [t EXCEPT !.offset = @ + start * t.strides[axis]]

Sliced(t, axis, start, length) ==
    [t EXCEPT !.shape[axis] = length, !.offset = @ + start * t.strides[axis]]

\* reshape(): a view if contiguous, else packed first.
Reshape(t, shape) ==
    Ensure(Defined(t) /\ Numel(shape) = Numel(t.shape),
           [ContiguousOf(t) EXCEPT !.shape = <<>> \o shape, !.strides = ContiguousStrides(shape)])

GatherRows(table, indices) ==
    Ensure(/\ Defined(table) /\ Defined(indices) /\ Rank(table) = 2
           /\ table.dtype \in FloatTypes /\ indices.dtype = "i64" /\ indices.device = table.device,
           OnDevice(table, CpuGatherRows(table, indices), CudaGatherRows(table, indices),
                    MetalGatherRows(table, indices)))

Concat(tensors, axis) ==
    LET first == tensors[1]
        fits(t) == /\ Defined(t) /\ Rank(t) = Rank(first)
                   /\ t.dtype = first.dtype /\ t.device = first.device
                   /\ \A i \in 1..Rank(t) \ {axis} : t.shape[i] = first.shape[i]
    IN  Ensure(\A i \in DOMAIN tensors : fits(tensors[i]),
               OnDevice(first, CpuConcat(tensors, axis), CudaConcat(tensors, axis),
                        MetalConcat(tensors, axis)))

Cast(t, dtype) ==
    CASE ~Defined(t) \/ t.dtype \notin FloatTypes -> Refused
      [] t.dtype = dtype -> t
      [] OTHER -> IF IsCuda(t) THEN CudaCast(t, dtype) ELSE CpuCast(t, dtype)

-----------------------------------------------------------------------------
(* Reductions                                                                *)

\* Dimensions from 0, negative ones from the end; the axes from 1 that they
\* name, or Refused.
NormalizeDims(t, dims) ==
    LET axis(d) == (IF d < 0 THEN d + Rank(t) ELSE d) + 1
        axes == {axis(dims[i]) : i \in DOMAIN dims}
    IN  IF /\ dims = <<>> => Rank(t) = 0
           /\ axes \subseteq 1..Rank(t) /\ Cardinality(axes) = Len(dims)
        THEN axes ELSE Refused
AllDims(t) == [i \in 1..Rank(t) |-> i - 1]

Reduce(operation, t, dims, keepdim) ==
    Ensure(IsFloat32(t) /\ NormalizeDims(t, dims) # Refused,
           LET axes == NormalizeDims(t, dims)
           IN  OnDevice(t, CpuReduce(t, axes, keepdim, operation), CudaReduce(t, axes, keepdim, operation),
                        MetalReduce(t, axes, keepdim, operation)))
ArgmaxOver(t, dim, keepdim) ==
    Ensure(IsFloat32(t) /\ NormalizeDims(t, <<dim>>) # Refused,
           LET axis == CHOOSE a \in NormalizeDims(t, <<dim>>) : TRUE
           IN  OnDevice(t, CpuArgmax(t, axis, keepdim), CudaArgmax(t, axis, keepdim),
                        MetalArgmax(t, axis, keepdim)))
Argmax(t) ==
    Ensure(IsFloat32(t) /\ Numel(t.shape) # 0,
           OnDevice(t, CpuArgmax(Reshape(t, <<Numel(t.shape)>>), 1, FALSE), CudaArgmaxAll(t), MetalArgmaxAll(t)))

-----------------------------------------------------------------------------
(* Matrix products                                                           *)

OnBackend(t, reference, cublas, cutlass) ==
    CASE t.device = "cuda" -> reference [] t.device = "cublas" -> cublas [] t.device = "cutlass" -> cutlass

\* Operands of more dimensions are packed first.
PackedMatmul(a, b) ==
    Dispatch(a, b, ThreadedBatchedMatmul(a, b),
             OnBackend(a, CudaBatchedMatmul(a, b), CublasBatchedMatmul(a, b), CutlassBatchedMatmul(a, b)),
             MetalBatchedMatmul(a, b))
Matmul(l, r) ==
    IF ~(Defined(l) /\ Defined(r)) THEN Refused
    ELSE IF Rank(l) = 2 /\ Rank(r) = 2
    THEN Dispatch(l, r, ThreadedMatmul(l, r),
                  OnBackend(l, ReferenceMatmul(l, r), CublasMatmul(l, r, l.dtype), CutlassMatmul(l, r)),
                  MetalMatmul(l, r))
    ELSE PackedMatmul(ContiguousOf(l), ContiguousOf(r))

MatmulFloat32Output(l, r) ==
    Ensure(MatchingFloats(l, r) /\ l.device = r.device /\ Rank(l) = 2 /\ Rank(r) = 2,
           IF l.device = "cublas" THEN CublasMatmul(l, r, "f32")
           ELSE Matmul(Cast(l, "f32"), Cast(r, "f32")))

-----------------------------------------------------------------------------
(* Fused operations, and the compositions that replace them                  *)

Optimized(attempt, fallback) == IF attempt = NotTaken THEN fallback ELSE attempt
AllFloat32(tensors) == \A i \in DOMAIN tensors : IsFloat32(tensors[i]) /\ tensors[i].device = tensors[1].device

RmsNorm(input, weight) ==
    Ensure(AllFloat32(<<input, weight>>) /\ WeightOf(input, weight),
           Optimized(OnDevice(input, NotTaken, CudaTryRmsNorm(input, weight, Epsilon),
                              MetalTryRmsNorm(input, weight, Epsilon)),
                     Mul(Div(input, SqrtOf(AddScalar(Reduce("mean", Pow(input, 2), <<-1>>, TRUE), Epsilon))),
                         weight)))

Swiglu(gate, up) ==
    Ensure(AllFloat32(<<gate, up>>) /\ gate.shape = up.shape,
           Optimized(OnDevice(gate, NotTaken, CudaTrySwiglu(gate, up), MetalTrySwiglu(gate, up)),
                     Mul(Div(gate, AddScalar(ExpOf(MulScalar(gate, -1)), 1)), up)))

\* One of cos and sin for every position and column; halves share angles.
Rotations(Wave(_), packed) ==
    LET sequence == packed.shape[3]
        dim == packed.shape[4]
    IN  FromVector([n \in 1..sequence * dim |->
                       Wave(Angle((n - 1) \div dim, ((n - 1) % dim) % (dim \div 2)))],
                   <<1, 1, sequence, dim>>, "f32", packed.device)
\* The second half of every row, negated, and the first.
Rotated(packed, half) ==
    Concat(<<MulScalar(ContiguousOf(Sliced(packed, 4, half, half)), -1),
             ContiguousOf(Sliced(packed, 4, 0, half))>>, 4)
Rope(packed) ==
    Add(Mul(packed, Rotations(Cosine, packed)),
        Mul(Rotated(packed, packed.shape[4] \div 2), Rotations(Sine, packed)))
RmsNormRope(input, weight) ==
    Ensure(/\ AllFloat32(<<input, weight>>) /\ Rank(input) = 4 /\ input.shape[4] % 2 = 0
           /\ WeightOf(input, weight),
           Optimized(OnDevice(input, NotTaken, CudaTryRmsNormRope(input, weight, Epsilon),
                              MetalTryRmsNormRope(input, weight, Epsilon)),
                     Rope(ContiguousOf(Permute(RmsNorm(input, weight), <<1, 3, 2, 4>>)))))

\* The pair of a residual and its normalization.
PairWithNorm(residual, weight) == <<residual, RmsNorm(residual, weight)>>
AddRmsNorm(left, right, weight) ==
    Ensure(AllFloat32(<<left, right, weight>>) /\ left.shape = right.shape /\ WeightOf(left, weight),
           Optimized(OnDevice(left, NotTaken, CudaTryAddRmsNorm(left, right, weight, Epsilon),
                              MetalTryAddRmsNorm(left, right, weight, Epsilon)),
                     PairWithNorm(Add(left, right), weight)))
=============================================================================
