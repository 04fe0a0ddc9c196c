------------------------------ MODULE Networks ------------------------------
(***************************************************************************)
(* The neural network functions and modules: compositions of tensor        *)
(* operations. A module is the record of its kind and its parameters and   *)
(* submodules; an optional one is Undefined.                               *)
(***************************************************************************)
EXTENDS TensorOps

CONSTANTS SqrtTwoOverPi, CubicCoefficient, OneHalf   \* of gelu()

DecayRatio(e) == Div(SubFrom(1, e), AddScalar(e, 1))
TanhMagnitude(t) == DecayRatio(ExpOf(MulScalar(t, -2)))
TanhAround(zero, t) == Sub(TanhMagnitude(Maximum(t, zero)), TanhMagnitude(Maximum(MulScalar(t, -1), zero)))
StableTanh(t) == TanhAround(MulScalar(t, 0), t)
Relu(t) == Maximum(t, MulScalar(t, 0))
Gelu(t) ==
    Mul(MulScalar(t, OneHalf),
        AddScalar(StableTanh(MulScalar(Add(t, MulScalar(Pow(t, 3), CubicCoefficient)), SqrtTwoOverPi)), 1))

\* An optional parameter takes part if it is there.
Scaled(t, weight) == IF weight = Undefined THEN t ELSE Mul(t, weight)
Biased(t, bias) == IF bias = Undefined THEN t ELSE Add(t, bias)

\* Over the last dimensions.
Standardized(t, dims) ==
    Div(Sub(t, Reduce("mean", t, dims, TRUE)),
        SqrtOf(AddScalar(Reduce("variance", t, dims, TRUE), Epsilon)))
LayerNorm(t, shape, weight, bias) ==
    LET before == Rank(t) - Len(shape)
        fits(p) == p = Undefined \/ (IsFloat32(p) /\ p.shape = shape /\ p.device = t.device)
    IN  Ensure(/\ IsFloat32(t) /\ shape # <<>> /\ before >= 0
               /\ \A i \in DOMAIN shape : shape[i] > 0
               /\ SubSeq(t.shape, before + 1, Rank(t)) = shape
               /\ fits(weight) /\ fits(bias),
               Biased(Scaled(Standardized(t, [i \in 1..Len(shape) |-> before + i - 1]), weight), bias))

Normalized(exponentials, axis) == Div(exponentials, Reduce("sum", exponentials, <<axis>>, TRUE))
Softmax(t, dim) ==
    LET axis == IF dim < 0 THEN dim + Rank(t) ELSE dim
    IN  Ensure(IsFloat32(t) /\ axis \in 0..Rank(t) - 1,
               IF t.device = "metal" /\ axis = Rank(t) - 1 /\ IsContiguous(t)
               THEN MetalSoftmaxLastDimension(t)
               ELSE Normalized(ExpOf(Sub(t, Reduce("max", t, <<axis>>, TRUE))), axis))

-----------------------------------------------------------------------------
(* Attention                                                                 *)

\* repeat_heads(): every key head next to its copies.
RepeatSlices(packed, repetitions) ==
    Concat([i \in 1..packed.shape[2] * repetitions |-> Sliced(packed, 2, (i - 1) \div repetitions, 1)], 2)
RepeatHeads(t, repetitions) == RepeatSlices(ContiguousOf(t), repetitions)

CausalMask(q, k, device) ==
    New(<<q, k>>, "bool", device, [n \in 1..q * k |-> IF (n - 1) % k > (n - 1) \div k THEN 1 ELSE 0])

Excluded(scores, mask) == IF mask = Undefined THEN scores ELSE MaskedFill(scores, mask, MinusInfinity)
AttentionScores(query, key, mask, causal) ==
    LET length(t) == t.shape[Rank(t) - 1]
    IN  Excluded(Excluded(Matmul(query, Transposed(key)), mask),
                 IF causal THEN CausalMask(length(query), length(key), query.device) ELSE Undefined)
WeightedValues(query, scores, value) ==
    Matmul(Softmax(DivScalar(scores, Sqrt(query.shape[Rank(query)])), -1), value)
ScaledDotProductAttention(query, key, value, mask, causal) ==
    LET q == query.shape
        grouped == /\ Rank(query) = 4 /\ Rank(key) = 4 /\ Rank(value) = 4
                   /\ q[1] = key.shape[1] /\ key.shape[2] = value.shape[2] /\ q[2] # key.shape[2]
        repeated(t) == IF grouped THEN RepeatHeads(t, q[2] \div key.shape[2]) ELSE t
    IN  Ensure(/\ AllFloat32(<<query, key, value>>)
               /\ Rank(query) >= 2 /\ Rank(key) >= 2 /\ Rank(value) >= 2,
               Optimized(OnDevice(query, NotTaken, CudaTryAttention(query, key, value, mask, causal),
                                  MetalTryAttention(query, key, value, mask, causal)),
                         IF grouped /\ q[2] % key.shape[2] # 0 THEN Refused
                         ELSE WeightedValues(query, AttentionScores(query, repeated(key), mask, causal),
                                             repeated(value))))

-----------------------------------------------------------------------------
(* Modules                                                                   *)

\* Module::forward(), for modules that others have as their parts.
RECURSIVE Forward(_, _)

\* Operands that are refused are refused by what takes them.
Then(t, result) == IF Defined(t) THEN result ELSE Refused

WithShape(shape, t) == Then(t, New(shape, t.dtype, t.device, t.data))
\* Linear::forward() takes the input's storage for a matrix of its own, and
\* multiplies in the weight's type on CUDA, in the input's elsewhere.
Linear(p, input) ==
    LET in == p.weight.shape[2]
        out == p.weight.shape[1]
        matrix == New(<<Numel(input.shape) \div in, in>>, input.dtype, input.device, input.data)
        type == IF IsCuda(input) THEN p.weight.dtype ELSE input.dtype
        bias == IF p.bias = Undefined THEN Undefined ELSE Cast(p.bias, input.dtype)
    IN  Ensure(/\ IsFloat32(input) /\ Rank(input) > 0 /\ input.shape[Rank(input)] = in
               /\ input.device = p.weight.device,
               WithShape([input.shape EXCEPT ![Rank(input)] = out],
                         Biased(Cast(Matmul(Cast(matrix, type), Cast(Transposed(p.weight), type)), input.dtype), bias)))

Embedding(weight, indices) == Cast(GatherRows(weight, indices), "f32")

\* [batch, sequence, heads * dim] as [batch, heads, sequence, dim], and back.
SplitHeads(t, heads) ==
    Permute(Reshape(t, <<t.shape[1], t.shape[2], heads, t.shape[3] \div heads>>), <<1, 3, 2, 4>>)
JoinHeads(t) ==
    Reshape(Permute(t, <<1, 3, 2, 4>>), <<t.shape[1], t.shape[3], t.shape[2] * t.shape[4]>>)

Projected(p, attended) == Then(attended, Forward(p, JoinHeads(attended)))

MultiHeadAttention(p, input, mask) ==
    LET split(t) == Then(t, SplitHeads(t, p.heads))
        project(l) == split(Forward(l, input))
    IN  Ensure(Defined(input) /\ Rank(input) = 3,
               Projected(p.output, ScaledDotProductAttention(project(p.query), project(p.key), project(p.value),
                                                             mask, FALSE)))
FeedForward(p, input) ==
    Ensure(Defined(input) /\ Rank(input) = 3 /\ input.shape[3] = p.input.weight.shape[2],
           Forward(p.output, Gelu(Forward(p.input, input))))
FedForward(p, residual) ==
    Add(residual, FeedForward(p.feedForward, Forward(p.feedForwardNorm, residual)))
TransformerBlock(p, input, mask) ==
    Ensure(Defined(input) /\ Rank(input) = 3 /\ input.shape[3] = p.attentionNorm.weight.shape[1],
           FedForward(p, Add(input, MultiHeadAttention(p.attention, Forward(p.attentionNorm, input), mask))))

-----------------------------------------------------------------------------
(* Qwen3                                                                     *)

Qwen3RMSNorm(p, input) == RmsNorm(input, p.weight)
Qwen3MLP(p, input) == Forward(p.down, Swiglu(Forward(p.gate, input), Forward(p.up, input)))

Qwen3Attention(p, input, mask) ==
    LET dim == p.queryNorm.shape[1]
        split(t) == Then(t, Reshape(t, <<t.shape[1], t.shape[2], t.shape[3] \div dim, dim>>))
    IN  Ensure(Defined(input) /\ Rank(input) = 3 /\ input.shape[3] = p.query.weight.shape[2],
               Projected(p.output,
                         ScaledDotProductAttention(
                             RmsNormRope(split(Forward(p.query, input)), p.queryNorm),
                             RmsNormRope(split(Forward(p.key, input)), p.keyNorm),
                             ContiguousOf(Permute(split(Forward(p.value, input)), <<1, 3, 2, 4>>)), mask, TRUE)))

\* A residual, and the result of the MLP on its normalization.
AddMlp(p, state) == Then(state, Add(state[1], Qwen3MLP(p, state[2])))
Qwen3DecoderLayer(p, input, mask) ==
    AddMlp(p.mlp, AddRmsNorm(input, Qwen3Attention(p.attention, Forward(p.inputNorm, input), mask),
                             p.postAttentionNorm))

Qwen3Model(p, ids) ==
    Ensure(Defined(ids) /\ Rank(ids) = 2 /\ ids.dtype = "i64" /\ ids.shape[2] <= p.maxPositions,
           Forward(p.norm, Folded(LAMBDA hidden, l : Forward(l, hidden), Forward(p.embedding, ids), p.layers)))

VocabularyProjection(p, hidden) == Matmul(hidden, Transposed(Cast(p.embedding.weight, "f32")))
Qwen3ForCausalLM(p, ids) == VocabularyProjection(p, Forward(p, ids))

\* forward_last_token(): the hidden state of the last position alone. An empty
\* sequence has none: the index -1 is out of range.
LastPosition(hidden) ==
    Ensure(hidden.shape[2] # 0,
           [hidden EXCEPT !.shape = <<@[1], @[3]>>,
                          !.strides = <<hidden.strides[1], hidden.strides[3]>>,
                          !.offset = @ + (hidden.shape[2] - 1) * hidden.strides[2]])
PositionLogits(p, last) ==
    Then(last, Reshape(VocabularyProjection(p, ContiguousOf(last)), <<last.shape[1], 1, p.embedding.weight.shape[1]>>))
LastLogits(p, hidden) == Then(hidden, PositionLogits(p, LastPosition(hidden)))
ForwardLastToken(p, ids) == LastLogits(p, Forward(p, ids))

\* A model asked for its last logits only is of the kind "last_token".
Forward(p, input) ==
    CASE p.kind = "linear" -> Linear(p, input)
      [] p.kind = "layer_norm" -> LayerNorm(input, p.weight.shape, p.weight, p.bias)
      [] p.kind = "embedding" -> Embedding(p.weight, input)
      [] p.kind = "block" -> TransformerBlock(p, input, Undefined)
      [] p.kind = "rms_norm" -> Qwen3RMSNorm(p, input)
      [] p.kind = "qwen_layer" -> Qwen3DecoderLayer(p, input, Undefined)
      [] p.kind = "qwen_model" -> Qwen3Model(p, input)
      [] p.kind = "causal_lm" -> Qwen3ForCausalLM(p.model, input)
      [] p.kind = "last_token" -> ForwardLastToken(p.model, input)
=============================================================================
