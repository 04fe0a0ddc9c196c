----------------------------- MODULE TensorMath -----------------------------
(***************************************************************************)
(* What the operations mean, on arrays: a shape, and the elements in       *)
(* row-major order, addressed by coordinates alone. Nothing here knows of  *)
(* storages, strides, devices, tiles, running maxima or fused kernels.     *)
(***************************************************************************)
EXTENDS Networks

ArrayOf(t) == [shape |-> t.shape, values |-> <<>> \o Elements(t)]
Build(shape, Element(_)) ==
    LET literal == <<>> \o shape
    IN  [shape |-> literal, values |-> <<>> \o [n \in 1..Numel(literal) |-> Element(Unravel(n - 1, literal))]]
At(a, c) == a.values[Ravel(c, a.shape) + 1]
ReshapedOf(a, shape) == [a EXCEPT !.shape = <<>> \o shape]

\* The element for a coordinate of a larger shape.
Stretched(a, c) ==
    At(a, [i \in 1..Len(a.shape) |-> IF a.shape[i] = 1 THEN 0 ELSE c[Len(c) - Len(a.shape) + i]])

BinaryOf(operation, a, b) ==
    Build(BroadcastShape(a.shape, b.shape), LAMBDA c : Apply(operation, Stretched(a, c), Stretched(b, c)))
UnaryOf(operation, a, y) == Build(a.shape, LAMBDA c : ApplyUnary(operation, At(a, c), y))
FilledOf(a, mask, value) == Build(a.shape, LAMBDA c : IF Stretched(mask, c) # 0 THEN value ELSE At(a, c))

\* The elements that differ from a coordinate along some axes only.
Fiber(a, axes, c) ==
    LET all == [n \in 1..Numel(a.shape) |-> Unravel(n - 1, a.shape)]
        mine == SelectSeq(all, LAMBDA d : \A i \in DOMAIN d \ axes : d[i] = c[i])
    IN  <<>> \o [i \in 1..Len(mine) |-> At(a, mine[i])]
ReducedOf(operation, a, axes, keepdim) ==
    ReshapedOf(Build(ReducedShape(a.shape, axes, TRUE), LAMBDA c : Summary(operation, Fiber(a, axes, c))),
               ReducedShape(a.shape, axes, keepdim))
FirstLargest(s) ==
    CHOOSE i \in 0..Len(s) - 1 : \A j \in 0..Len(s) - 1 : ~Less(s[i + 1], s[j + 1]) /\ (j < i => s[j + 1] # s[i + 1])
ArgmaxOf(a, axis, keepdim) ==
    ReshapedOf(Build(ReducedShape(a.shape, {axis}, TRUE), LAMBDA c : FirstLargest(Fiber(a, {axis}, c))),
               ReducedShape(a.shape, {axis}, keepdim))

ProductOf(a, b) ==
    LET inner == a.shape[Len(a.shape)]
        shape == BroadcastShape(BatchOf(a.shape), BatchOf(b.shape))
                 \o <<a.shape[Len(a.shape) - 1], b.shape[Len(b.shape)]>>
    IN  Build(shape, LAMBDA c :
            SumOf([k \in 1..inner |-> Times(Stretched(a, [c EXCEPT ![Len(c)] = k - 1]),
                                            Stretched(b, [c EXCEPT ![Len(c) - 1] = k - 1]))]))

RowsOf(table, indices) ==
    Build(Append(indices.shape, table.shape[2]), LAMBDA c : At(table, <<At(indices, Front(c)), Last(c)>>))
JoinedOf(a, b, axis) ==
    Build([a.shape EXCEPT ![axis] = @ + b.shape[axis]],
          LAMBDA c : IF c[axis] < a.shape[axis] THEN At(a, c) ELSE At(b, [c EXCEPT ![axis] = @ - a.shape[axis]]))
PermutedOf(a, order) ==
    Build([i \in DOMAIN order |-> a.shape[order[i]]],
          LAMBDA c : At(a, [i \in DOMAIN order |-> c[CHOOSE j \in DOMAIN order : order[j] = i]]))
CastOf(a, dtype) == Build(a.shape, LAMBDA c : Rounded(At(a, c), dtype))

-----------------------------------------------------------------------------

LastOf(a) == {Len(a.shape)}
RmsNormOf(a, weight) ==
    BinaryOf("mul",
             BinaryOf("div", a,
                      UnaryOf("sqrt", UnaryOf("add", ReducedOf("mean", UnaryOf("pow", a, 2), LastOf(a), TRUE), Epsilon), 0)),
             weight)
SwigluOf(gate, up) ==
    BinaryOf("mul", Build(gate.shape, LAMBDA c : Over(At(gate, c), Plus(1, Exp(Negative(At(gate, c)))))), up)

\* [b, s, h, d] normalized, as [b, h, s, d], pairs half a row apart rotated.
Turned(x, half) ==
    Build(x.shape, LAMBDA c :
        LET angle == Angle(c[3], c[4] % half)
            partner == At(x, [c EXCEPT ![4] = (@ + half) % (2 * half)])
        IN  Plus(Times(At(x, c), Cosine(angle)),
                 Times(IF c[4] < half THEN Negative(partner) ELSE partner, Sine(angle))))
RopeOf(a, weight) == Turned(PermutedOf(RmsNormOf(a, weight), <<1, 3, 2, 4>>), a.shape[4] \div 2)

SharesOf(e, axis) == BinaryOf("div", e, ReducedOf("sum", e, {axis}, TRUE))
SoftmaxOf(a, axis) == SharesOf(UnaryOf("exp", a, 0), axis)

\* Every query sees the keys of its group's head that are not masked.
AttentionOf(query, key, value, mask, causal) ==
    LET group == query.shape[2] \div key.shape[2]
        dim == query.shape[4]
        visible(i, j) == /\ causal => j <= i
                         /\ mask # Undefined => At(mask, <<i, j>>) = 0
        score(c, j) == SumOf([d \in 1..dim |-> Times(At(query, <<c[1], c[2], c[3], d - 1>>),
                                                     At(key, <<c[1], c[2] \div group, j, d - 1>>))])
        weight(c) == <<>> \o [j \in 1..key.shape[3] |->
                        IF visible(c[3], j - 1) THEN Exp(Over(score(c, j - 1), Sqrt(dim))) ELSE 0]
        average(w, c) ==
            Over(SumOf([j \in DOMAIN w |-> Times(w[j], At(value, <<c[1], c[2] \div group, j - 1, c[4]>>))]),
                 SumOf(w))
    IN  Build(query.shape, LAMBDA c : average(weight(c), c))

LayerNormOf(a, axes, weight, bias) ==
    BinaryOf("add",
        BinaryOf("mul",
            BinaryOf("div", BinaryOf("sub", a, ReducedOf("mean", a, axes, TRUE)),
                     UnaryOf("sqrt", UnaryOf("add", ReducedOf("variance", a, axes, TRUE), Epsilon), 0)),
            weight),
        bias)
Tanh(x) == Over(Minus(Exp(Times(2, x)), 1), Plus(Exp(Times(2, x)), 1))
GeluOf(a) ==
    Build(a.shape, LAMBDA c :
        LET x == At(a, c)
        IN  Times(Times(OneHalf, x),
                  Plus(1, Tanh(Times(SqrtTwoOverPi, Plus(x, Times(CubicCoefficient, Times(x, Times(x, x)))))))))

-----------------------------------------------------------------------------
(* Modules, on the arrays of their parameters                                *)

RECURSIVE ModuleOf(_, _)

TransposeOf(a) == PermutedOf(a, <<2, 1>>)
BiasedBy(a, bias) == IF bias = Undefined THEN a ELSE BinaryOf("add", a, ArrayOf(bias))
LinearOf(p, a) == BiasedBy(ProductOf(a, TransposeOf(ArrayOf(p.weight))), p.bias)
SplitOf(a, heads) == ReshapedOf(a, <<a.shape[1], a.shape[2], heads, a.shape[3] \div heads>>)
HeadsOf(a, heads) == PermutedOf(SplitOf(a, heads), <<1, 3, 2, 4>>)
MergedOf(a) ==
    ReshapedOf(PermutedOf(a, <<1, 3, 2, 4>>), <<a.shape[1], a.shape[3], a.shape[2] * a.shape[4]>>)

MultiHeadOf(p, a) ==
    LET heads(l) == HeadsOf(ModuleOf(l, a), p.heads)
    IN  ModuleOf(p.output, MergedOf(AttentionOf(heads(p.query), heads(p.key), heads(p.value), Undefined, FALSE)))
ForwardFed(p, residual) ==
    BinaryOf("add", residual,
             ModuleOf(p.feedForward.output,
                      GeluOf(ModuleOf(p.feedForward.input, ModuleOf(p.feedForwardNorm, residual)))))
BlockOf(p, a) ==
    ForwardFed(p, BinaryOf("add", a, MultiHeadOf(p.attention, ModuleOf(p.attentionNorm, a))))

QwenAttentionOf(p, a) ==
    LET split(l) == SplitOf(ModuleOf(l, a), l.weight.shape[1] \div p.queryNorm.shape[1])
    IN  ModuleOf(p.output,
                 MergedOf(AttentionOf(RopeOf(split(p.query), ArrayOf(p.queryNorm)),
                                      RopeOf(split(p.key), ArrayOf(p.keyNorm)),
                                      PermutedOf(split(p.value), <<1, 3, 2, 4>>), Undefined, TRUE)))
MlpOf(p, a) == ModuleOf(p.down, SwigluOf(ModuleOf(p.gate, a), ModuleOf(p.up, a)))
MlpAdded(p, state) == BinaryOf("add", state, MlpOf(p.mlp, RmsNormOf(state, ArrayOf(p.postAttentionNorm))))
QwenLayerOf(p, a) ==
    MlpAdded(p, BinaryOf("add", a, QwenAttentionOf(p.attention, ModuleOf(p.inputNorm, a))))

LogitsOf(p, ids) == ProductOf(ModuleOf(p, ids), TransposeOf(ArrayOf(p.embedding.weight)))
LastTokenOf(a) == Build([a.shape EXCEPT ![2] = 1], LAMBDA c : At(a, [c EXCEPT ![2] = a.shape[2] - 1]))

ModuleOf(p, a) ==
    CASE p.kind = "linear" -> LinearOf(p, a)
      [] p.kind = "layer_norm" -> LayerNormOf(a, LastOf(a), ArrayOf(p.weight), ArrayOf(p.bias))
      [] p.kind = "embedding" -> RowsOf(ArrayOf(p.weight), a)
      [] p.kind = "block" -> BlockOf(p, a)
      [] p.kind = "rms_norm" -> RmsNormOf(a, ArrayOf(p.weight))
      [] p.kind = "qwen_layer" -> QwenLayerOf(p, a)
      [] p.kind = "qwen_model" ->
            ModuleOf(p.norm, Folded(LAMBDA hidden, l : ModuleOf(l, hidden), ModuleOf(p.embedding, a), p.layers))
      [] p.kind = "causal_lm" -> LogitsOf(p.model, a)
      [] p.kind = "last_token" -> LastTokenOf(LogitsOf(p.model, a))
=============================================================================
