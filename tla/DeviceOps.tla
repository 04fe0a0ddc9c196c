----------------------------- MODULE DeviceOps -----------------------------
(***************************************************************************)
(* A program that makes a tensor on one of the devices, takes views of it, *)
(* moves it, and computes with it; each step calls the library once, and a *)
(* call that throws leaves the program with the tensor it had.             *)
(***************************************************************************)
EXTENDS TensorMath

CONSTANTS
    Devices,        \* a subset of {"cpu", "cuda", "cublas", "cutlass", "metal"}
    StartShapes,    \* shapes of the float tensors a program starts with
    IndexShapes,    \* and of the index tensors
    MaxViews        \* bound: views and moves before the computation

ASSUME DeviceOpsAssumption ==
    /\ Devices \subseteq CudaBackends \cup {"cpu", "metal"}
    /\ MaxViews \in Nat

VARIABLES
    tensor,   \* the tensor that the program holds
    call,     \* the last computation: operation, other operands, arguments
    threw,    \* whether the last call threw
    views     \* views and moves so far

vars == <<tensor, call, threw, views>>

NoCall == [operation |-> "none", others |-> <<>>, arguments |-> <<>>]
Calling(operation, others, arguments) ==
    [operation |-> operation, others |-> others, arguments |-> arguments]

-----------------------------------------------------------------------------
(* Operands                                                                  *)

Fresh(shape, seed, device) ==
    New(shape, "f32", device, [n \in 1..Numel(shape) |-> ((n * n * (seed + 2) + n + seed) % 7) - 3])
Indices(shape, seed, device) ==
    New(shape, "i64", device, [n \in 1..Numel(shape) |-> (n + seed) % 3])
Mask(shape, device) == New(shape, "bool", device, [n \in 1..Numel(shape) |-> IF n % 3 = 2 THEN 1 ELSE 0])

\* The same array as part of a larger storage, and stored by columns.
Shifted(t) == [t EXCEPT !.offset = 2, !.data = <<@[1], @[1]>> \o @]
ByColumns(t) ==
    IF Rank(t) < 2 THEN Shifted(t) ELSE Transposed(Like(t, Transposed(t).shape, Elements(Transposed(t))))
Layouts(t) == {t, Shifted(t), ByColumns(t)}

Trailing(t) == <<t.shape[Rank(t)]>>
Companions(t) == Layouts(Fresh(t.shape, 1, t.device)) \cup {t, Fresh(Trailing(t), 3, t.device)}

\* Parameters of modules with two features.
LinearModule(in, out, seed, device) ==
    [kind |-> "linear", weight |-> Fresh(<<out, in>>, seed, device), bias |-> Fresh(<<out>>, seed + 1, device)]
Plain(l) == [l EXCEPT !.bias = Undefined]
NormModule(seed, device) ==
    [kind |-> "layer_norm", weight |-> Fresh(<<2>>, seed, device), bias |-> Fresh(<<2>>, seed + 3, device)]
RmsModule(seed, device) == [kind |-> "rms_norm", weight |-> Fresh(<<2>>, seed, device)]
Block(device) ==
    [kind |-> "block", attentionNorm |-> NormModule(2, device), feedForwardNorm |-> NormModule(4, device),
     attention |-> [heads |-> 2, query |-> LinearModule(2, 2, 1, device), key |-> LinearModule(2, 2, 2, device),
                    value |-> LinearModule(2, 2, 3, device), output |-> LinearModule(2, 2, 4, device)],
     feedForward |-> [input |-> LinearModule(2, 3, 5, device), output |-> LinearModule(3, 2, 6, device)]]
QwenLayer(device) ==
    [kind |-> "qwen_layer", inputNorm |-> RmsModule(1, device), postAttentionNorm |-> Fresh(<<2>>, 3, device),
     attention |-> [query |-> Plain(LinearModule(2, 4, 1, device)), key |-> Plain(LinearModule(2, 2, 2, device)),
                    value |-> Plain(LinearModule(2, 2, 3, device)), output |-> Plain(LinearModule(4, 2, 4, device)),
                    queryNorm |-> Fresh(<<2>>, 4, device), keyNorm |-> Fresh(<<2>>, 5, device)],
     mlp |-> [gate |-> Plain(LinearModule(2, 3, 1, device)), up |-> Plain(LinearModule(2, 3, 2, device)),
              down |-> Plain(LinearModule(3, 2, 3, device))]]
Qwen(device) ==
    [kind |-> "qwen_model", embedding |-> [kind |-> "embedding", weight |-> Fresh(<<3, 2>>, 2, device)],
     layers |-> <<QwenLayer(device)>>, norm |-> RmsModule(5, device), maxPositions |-> 2]

-----------------------------------------------------------------------------
(* What the calls return, by the code and by definition                      *)

Names(operation) ==
    CASE operation = "add_scalar" -> "add" [] operation = "sub_scalar" -> "sub"
      [] operation = "mul_scalar" -> "mul" [] operation = "div_scalar" -> "div"
      [] OTHER -> operation
NamedAxis(t, dim) == CHOOSE axis \in NormalizeDims(t, <<dim>>) : TRUE

ElementwiseResult(c, t) ==
    LET o == c.operation
        x == c.others
        y == c.arguments
    IN  CASE o = "add" -> Add(t, x[1]) [] o = "sub" -> Sub(t, x[1]) [] o = "mul" -> Mul(t, x[1])
          [] o = "div" -> Div(t, x[1]) [] o = "maximum" -> Maximum(t, x[1])
          [] o = "add_scalar" -> AddScalar(t, y[1]) [] o = "sub_scalar" -> SubScalar(t, y[1])
          [] o = "mul_scalar" -> MulScalar(t, y[1]) [] o = "div_scalar" -> DivScalar(t, y[1])
          [] o = "rsub" -> SubFrom(y[1], t) [] o = "rdiv" -> DivInto(y[1], t)
          [] o = "exp" -> ExpOf(t) [] o = "sqrt" -> SqrtOf(t) [] o = "pow" -> Pow(t, y[1])
          [] o = "masked_fill" -> MaskedFill(t, x[1], y[1])
ReductionResult(c, t) ==
    LET y == c.arguments
    IN  CASE c.operation = "argmax" -> ArgmaxOver(t, y[1], y[2]) [] c.operation = "argmax_all" -> Argmax(t)
          [] OTHER -> Reduce(c.operation, t, y[1], y[2])
ProductResult(c, t) ==
    IF c.operation = "matmul_f32" THEN MatmulFloat32Output(t, c.others[1]) ELSE Matmul(t, c.others[1])
MovementResult(c, t) ==
    LET o == c.operation
        y == c.arguments
    IN  CASE o = "contiguous" -> ContiguousOf(t) [] o = "reshape" -> Reshape(t, y[1])
          [] o = "gather_rows" -> GatherRows(t, c.others[1]) [] o = "concat" -> Concat(<<t, c.others[1]>>, y[1])
          [] o = "cast" -> Cast(t, y[1])
Chosen(pair, part) == IF pair = Refused THEN Refused ELSE pair[part]
FusedResult(c, t) ==
    LET o == c.operation
        x == c.others
    IN  CASE o = "rms_norm" -> RmsNorm(t, x[1]) [] o = "swiglu" -> Swiglu(t, x[1])
          [] o = "rms_norm_rope" -> RmsNormRope(t, x[1])
          [] o = "add_rms_norm" -> Chosen(AddRmsNorm(t, x[1], x[2]), c.arguments[1])
AttentionResult(c, t) ==
    ScaledDotProductAttention(t, c.others[1], c.others[2], c.others[3], c.arguments[1])
FunctionResult(c, t) ==
    LET o == c.operation
        y == c.arguments
    IN  CASE o = "relu" -> Relu(t) [] o = "gelu" -> Gelu(t) [] o = "softmax" -> Softmax(t, y[1])
          [] o = "layer_norm" -> LayerNorm(t, y[1], c.others[1], c.others[2])

\* The module that a call of forward() is about.
Called(c, device) ==
    LET o == c.operation
        x == c.others
    IN  CASE o = "linear" -> [kind |-> "linear", weight |-> x[1], bias |-> x[2]]
          [] o = "embedding" -> [kind |-> "embedding", weight |-> x[1]]
          [] o = "block" -> Block(device) [] o = "qwen_layer" -> QwenLayer(device)
          [] OTHER -> [kind |-> o, model |-> Qwen(device)]
ModuleResult(c, t) == Forward(Called(c, t.device), t)

ElementwiseMeaning(c, t) ==
    LET o == c.operation
        a == ArrayOf(t)
        b == ArrayOf(c.others[1])
        y == c.arguments
    IN  CASE o \in {"add", "sub", "mul", "div", "maximum"} -> BinaryOf(o, a, b)
          [] o = "masked_fill" -> FilledOf(a, b, y[1])
          [] o \in {"exp", "sqrt"} -> UnaryOf(o, a, 0)
          [] OTHER -> UnaryOf(Names(o), a, y[1])
ReductionMeaning(c, t) ==
    LET o == c.operation
        a == ArrayOf(t)
        y == c.arguments
    IN  CASE o = "argmax" -> ArgmaxOf(a, NamedAxis(t, y[1]), y[2])
          [] o = "argmax_all" -> ArgmaxOf(ReshapedOf(a, <<Numel(t.shape)>>), 1, FALSE)
          [] OTHER -> ReducedOf(o, a, NormalizeDims(t, y[1]), y[2])
ProductMeaning(c, t) == ProductOf(ArrayOf(t), ArrayOf(c.others[1]))
MovementMeaning(c, t) ==
    LET o == c.operation
        a == ArrayOf(t)
        b == ArrayOf(c.others[1])
        y == c.arguments
    IN  CASE o = "contiguous" -> a [] o = "reshape" -> ReshapedOf(a, y[1])
          [] o = "gather_rows" -> RowsOf(a, b) [] o = "concat" -> JoinedOf(a, b, y[1])
          [] o = "cast" -> CastOf(a, y[1])
AddRmsNormOf(sum, weight, part) == IF part = 1 THEN sum ELSE RmsNormOf(sum, weight)
FusedMeaning(c, t) ==
    LET o == c.operation
        a == ArrayOf(t)
        b == ArrayOf(c.others[1])
    IN  CASE o = "rms_norm" -> RmsNormOf(a, b) [] o = "swiglu" -> SwigluOf(a, b)
          [] o = "rms_norm_rope" -> RopeOf(a, b)
          [] o = "add_rms_norm" ->
                AddRmsNormOf(BinaryOf("add", a, b), ArrayOf(c.others[2]), c.arguments[1])
AttentionMeaning(c, t) ==
    LET array(x) == IF x = Undefined THEN Undefined ELSE ArrayOf(x)
    IN  AttentionOf(ArrayOf(t), array(c.others[1]), array(c.others[2]), array(c.others[3]), c.arguments[1])
FunctionMeaning(c, t) ==
    LET o == c.operation
        a == ArrayOf(t)
        y == c.arguments
    IN  CASE o = "relu" -> Build(a.shape, LAMBDA i : Larger(At(a, i), 0))
          [] o = "gelu" -> GeluOf(a) [] o = "softmax" -> SoftmaxOf(a, NamedAxis(t, y[1]))
          [] o = "layer_norm" ->
                LayerNormOf(a, Rank(t) - Len(y[1]) + 1..Rank(t), ArrayOf(c.others[1]), ArrayOf(c.others[2]))
ModuleMeaning(c, t) == ModuleOf(Called(c, t.device), ArrayOf(t))

-----------------------------------------------------------------------------
(* Steps                                                                     *)

Init ==
    /\ \E device \in Devices :
          \/ \E shape \in StartShapes : tensor = Fresh(shape, 0, device)
          \/ \E shape \in IndexShapes : tensor = Indices(shape, 0, device)
    /\ call = NoCall /\ threw = FALSE /\ views = 0

Returns(c, result) ==
    /\ call' = c
    /\ threw' = (result = Refused)
    /\ tensor' = IF result = Refused THEN tensor ELSE result
    /\ UNCHANGED views

\* Rows from the second on, columns from the second on, the transpose.
TakeView ==
    /\ call = NoCall /\ views < MaxViews
    /\ \/ \E axis \in {1, Rank(tensor)} :
             /\ tensor.shape[axis] > 1
             /\ tensor' = Sliced(tensor, axis, 1, tensor.shape[axis] - 1)
       \/ Rank(tensor) > 1 /\ tensor' = Transposed(tensor)
    /\ views' = views + 1
    /\ UNCHANGED <<call, threw>>

\* to() throws if the tensor is not contiguous.
Move ==
    /\ call = NoCall /\ views < MaxViews
    /\ \E device \in Devices \ {tensor.device} :
          LET moved == To(tensor, device)
          IN  /\ threw' = (moved = Refused)
              /\ tensor' = IF moved = Refused THEN tensor ELSE moved
    /\ views' = views + 1
    /\ UNCHANGED call

Holds(dtype) == call = NoCall /\ tensor.dtype = dtype
Some(operation) == Calling(operation, <<>>, <<>>)

ElementwiseCalls ==
    {Calling(o, <<x>>, <<>>) : o \in {"add", "sub", "mul", "div", "maximum"},
                               x \in Companions(tensor) \cup {Fresh(<<2, 2>>, 1, tensor.device)}}
    \cup {Calling(o, <<>>, <<2>>) :
              o \in {"add_scalar", "sub_scalar", "mul_scalar", "div_scalar", "rsub", "rdiv", "pow"}}
    \cup {Some("exp"), Some("sqrt")}
    \cup {Calling("masked_fill", <<m>>, <<MinusInfinity>>) :
              m \in Layouts(Mask(tensor.shape, tensor.device))
                    \cup {Mask(Trailing(tensor), tensor.device), Mask(<<2>> \o tensor.shape, tensor.device)}}
ComputeElementwise ==
    /\ Holds("f32")
    /\ \E c \in ElementwiseCalls : Returns(c, ElementwiseResult(c, tensor))

ReductionCalls ==
    {Calling(o, <<>>, <<dims, keepdim>>) :
        o \in {"sum", "mean", "max", "variance"}, keepdim \in BOOLEAN,
        dims \in {<<0>>, <<-1>>, <<0, 1>>, <<0, 0>>, <<Rank(tensor)>>}}
    \cup {Calling("argmax", <<>>, <<dim, keepdim>>) : dim \in {0, -1, Rank(tensor)}, keepdim \in BOOLEAN}
    \cup {Some("argmax_all")}
ComputeReduction ==
    /\ Holds("f32")
    /\ \E c \in ReductionCalls : Returns(c, ReductionResult(c, tensor))

ProductCalls ==
    LET inner == tensor.shape[Rank(tensor)]
        right(shape) == Layouts(Fresh(shape, 1, tensor.device))
        name(x) == IF Rank(tensor) = 2 /\ Rank(x) = 2 THEN "matmul" ELSE "batched_matmul"
    IN  {Calling(name(x), <<x>>, <<>>) :
            x \in UNION {right(shape) : shape \in {<<inner, 2>>, <<inner, 1>>, <<2, inner, 3>>, <<2, 1, inner, 2>>}}
                  \cup {Fresh(<<inner + 1, 2>>, 1, tensor.device)}}
        \cup {Calling("matmul_f32", <<x>>, <<>>) : x \in right(<<inner, 2>>)}
ComputeProduct ==
    /\ Holds("f32") /\ Rank(tensor) > 1
    /\ \E c \in ProductCalls : Returns(c, ProductResult(c, tensor))

MovementCalls ==
    {Some("contiguous"), Calling("cast", <<>>, <<"f16">>),
     Calling("reshape", <<>>, << <<1, Numel(tensor.shape)>> >>)}
    \cup {Calling("concat", <<x>>, <<axis>>) : x \in Companions(tensor), axis \in 1..Rank(tensor)}
    \cup {Calling("gather_rows", <<x>>, <<>>) : x \in Layouts(Indices(<<2, 2>>, 0, tensor.device))}
ComputeMovement ==
    /\ Holds("f32")
    /\ \E c \in MovementCalls : Returns(c, MovementResult(c, tensor))

Weight == Fresh(Trailing(tensor), 2, tensor.device)
Weights == {Weight, Shifted(Weight), Fresh(Trailing(tensor) \o Trailing(tensor), 2, tensor.device)}
FusedCalls ==
    {Calling(o, <<w>>, <<>>) : o \in {"rms_norm", "rms_norm_rope"}, w \in Weights}
    \cup {Calling("swiglu", <<x>>, <<>>) : x \in Companions(tensor)}
    \cup {Calling("add_rms_norm", <<x, w>>, <<part>>) : x \in Companions(tensor), w \in {Weight}, part \in {1, 2}}
    \cup {Calling("add_rms_norm", <<tensor, w>>, <<part>>) : w \in Weights, part \in {1, 2}}
ComputeFused ==
    /\ Holds("f32")
    /\ \E c \in FusedCalls : Returns(c, FusedResult(c, tensor))

\* Queries of s[2] heads over three keys of as many heads or fewer.
AttentionCalls ==
    LET s == tensor.shape
        keys(heads, seed) == Fresh(<<s[1], heads, 3, s[4]>>, seed, tensor.device)
        mask == Mask(<<s[3], 3>>, tensor.device)
        with(heads, key, given, causal) == Calling("attention", <<key, keys(heads, 3), given>>, <<causal>>)
    IN  UNION {{with(heads, k, Undefined, causal) : k \in Layouts(keys(heads, 2))}
               \cup {with(heads, keys(heads, 2), m, causal) : m \in {mask, Shifted(mask)}} :
                   heads \in {h \in {1, 2} : s[2] % h = 0}, causal \in BOOLEAN}
ComputeAttention ==
    /\ Holds("f32") /\ Rank(tensor) = 4
    /\ \E c \in AttentionCalls : Returns(c, AttentionResult(c, tensor))

FunctionCalls ==
    LET n == tensor.shape[Rank(tensor)]
        p == Fresh(<<n>>, 3, tensor.device)
    IN  {Some("relu"), Some("gelu"), Calling("layer_norm", <<p, p>>, << <<n>> >>)}
        \cup {Calling("softmax", <<>>, <<dim>>) : dim \in {0, -1, Rank(tensor)}}
ComputeFunction ==
    /\ Holds("f32")
    /\ \E c \in FunctionCalls : Returns(c, FunctionResult(c, tensor))

\* Modules take values, and embeddings and models token ids.
ModuleCalls ==
    LET n == tensor.shape[Rank(tensor)]
    IN  IF tensor.dtype = "f32"
        THEN {Calling("linear", <<Fresh(<<3, n>>, 2, tensor.device), b>>, <<>>) :
                 b \in {Undefined, Fresh(<<3>>, 2, tensor.device)}}
             \cup IF Rank(tensor) = 3 /\ n = 2 THEN {Some("block"), Some("qwen_layer")} ELSE {}
        ELSE {Calling("embedding", <<Fresh(<<rows, 2>>, 1, tensor.device)>>, <<>>) : rows \in {2, 3}}
             \cup {Some("causal_lm"), Some("last_token")}
ComputeModule ==
    /\ Holds("f32") \/ Holds("i64")
    /\ \E c \in ModuleCalls : Returns(c, ModuleResult(c, tensor))

Next ==
    \/ TakeView \/ Move
    \/ ComputeElementwise \/ ComputeReduction \/ ComputeProduct \/ ComputeMovement
    \/ ComputeFused \/ ComputeAttention \/ ComputeFunction \/ ComputeModule

Spec == Init /\ [][Next]_vars

-----------------------------------------------------------------------------
(* Properties                                                                *)

(* A view is contiguous and starts where its storage does ("owned"), starts  *)
(* elsewhere ("shifted"), or has gaps or another order ("strided"). Which of *)
(* them a kernel reads right is up to the kernel: callers pack with          *)
(* contiguous() what it does not.                                            *)
Layout(t) == CASE ~IsContiguous(t) -> "strided" [] t.offset = 0 -> "owned" [] OTHER -> "shifted"
Operands(c, t) == {t} \cup {c.others[i] : i \in {i \in DOMAIN c.others : c.others[i] # Undefined}}

Elementwises == {"add", "sub", "mul", "div", "maximum", "add_scalar", "sub_scalar", "mul_scalar",
                 "div_scalar", "rsub", "rdiv", "exp", "sqrt", "pow", "masked_fill"}
Folds == {"sum", "mean", "max", "variance"}
Products == {"matmul", "batched_matmul", "matmul_f32"}
Movements == {"contiguous", "cast", "reshape", "concat", "gather_rows"}
Fused == {"rms_norm", "rms_norm_rope", "swiglu", "add_rms_norm"}
NetworkFunctions == {"relu", "gelu", "softmax", "layer_norm"}
Modules == {"linear", "embedding", "block", "qwen_layer", "causal_lm", "last_token"}
Compositions == NetworkFunctions \cup (Modules \ {"embedding"})

\* What the kernels of a device read right.
ReadsRight(operation, device) ==
    CASE operation \in {"contiguous", "reshape", "argmax", "matmul", "matmul_f32"} ->
            {"owned", "shifted", "strided"}
      [] operation \in Compositions -> {"owned"}
      [] device = "metal" /\ operation \in {"add", "sub"} -> {"owned"}
      [] device = "metal" /\ operation = "add_rms_norm" -> {"owned", "shifted"}
      [] device = "metal" /\ operation \notin Compositions \cup {"add", "sub", "add_rms_norm"} ->
            {"owned", "shifted", "strided"}
      [] device \in CudaBackends /\ operation \in Folds \cup {"concat"} -> {"owned", "shifted", "strided"}
      [] device \in CudaBackends /\ operation \in Fused \cup {"attention"} -> {"owned", "shifted"}
      [] device \in CudaBackends /\ operation = "gather_rows" -> {"owned", "strided"}
      [] device # "metal" /\ operation \in {"batched_matmul", "cast"} -> {"owned", "strided"}
      [] device = "cpu" /\ operation = "concat" -> {"owned", "strided"}
      [] OTHER -> {"owned"}
ReadRight(c, t) == \A x \in Operands(c, t) : Layout(x) \in ReadsRight(c.operation, t.device)

Computes(operations) == call = NoCall /\ call'.operation \in operations
Exact(operations, Meaning(_, _)) ==
    Computes(operations) /\ ~threw' /\ ReadRight(call', tensor) => ArrayOf(tensor') = Meaning(call', tensor)

\* A tensor is well-formed, and all of its elements lie in its storage: views
\* and kernels never make a layout that reaches out of it.
TypeOK ==
    /\ tensor.device \in Devices /\ tensor.dtype \in FloatTypes \cup {"i64", "bool"}
    /\ Len(tensor.strides) = Rank(tensor)
    /\ \A n \in 0..Numel(tensor.shape) - 1 : Address(tensor, n) + 1 \in DOMAIN tensor.data
    /\ threw \in BOOLEAN /\ views \in 0..MaxViews

\* Elementwise operations with broadcasting, scalars and masks, reductions over
\* any axes, and argmax, whose ties go to the first, give the values of their
\* definition on every device, on operands that its kernels read, however a
\* kernel splits them over threads.
ArithmeticExact ==
    [][/\ Exact(Elementwises, ElementwiseMeaning)
       /\ Exact(Folds \cup {"argmax", "argmax_all"}, ReductionMeaning)]_vars

\* The same for matrix products: row- and column-major operands as they are,
\* others packed, batches broadcast.
ProductsExact == [][Exact(Products, ProductMeaning)]_vars

\* The same for what moves data: packing, reshaping, concatenation, looking up
\* rows, conversion of types, and to(), wherever in its storage a contiguous
\* tensor begins (copy_to_cpu() and the uploads).
MovementExact ==
    [][/\ Exact(Movements, MovementMeaning)
       /\ views' > views /\ tensor'.device # tensor.device => ArrayOf(tensor') = ArrayOf(tensor)]_vars

\* Attention is softmax(q k / sqrt(d)) v over the unmasked keys, on every path:
\* the composition, and the kernels that scan the keys once. Without the case
\* that GroupedAttentionOnTheCpu is about.
SharedHeads == call'.others[1].shape[2] # tensor.shape[2]
RepeatedInPlace == tensor.device = "cpu" /\ tensor.shape[1] = 1 /\ SharedHeads /\ call'.others[1].shape[2] > 1
AttentionExact == [][Computes({"attention"}) /\ ~RepeatedInPlace => Exact({"attention"}, AttentionMeaning)]_vars

\* The same with query heads that share key heads on the CPU, the reference for
\* the other devices.
GroupedAttentionOnTheCpu ==
    [][Computes({"attention"}) /\ tensor.device = "cpu" /\ SharedHeads => Exact({"attention"}, AttentionMeaning)]_vars

\* Functions, modules and models built from the operations compute their
\* definitions on every device, whichever optimised paths they take; and a fused
\* kernel computes what the composition does that it replaces.
NetworksExact ==
    [][/\ Exact(Fused, FusedMeaning)
       /\ Exact(NetworkFunctions, FunctionMeaning)
       /\ Exact(Modules, ModuleMeaning)]_vars

OnCpu(t) == IF Defined(t) THEN [t EXCEPT !.device = "cpu"] ELSE t
OneRowOrColumn == tensor.device = "cublas" /\ \E i \in 1..Rank(tensor) : i + 2 > Rank(tensor) /\ tensor.shape[i] = 1
Owned(c, t) == \A x \in Operands(c, t) : Layout(x) = "owned"
Refusing == Elementwises \cup Folds \cup {"argmax", "argmax_all"} \cup Products \cup Movements \cup Fused
Refuses(c, t) ==
    LET o == c.operation
    IN  Refused = CASE o \in Elementwises -> ElementwiseResult(c, t)
                    [] o \in Folds \cup {"argmax", "argmax_all"} -> ReductionResult(c, t)
                    [] o \in Products -> ProductResult(c, t)
                    [] o \in Movements -> MovementResult(c, t)
                    [] o \in Fused -> FusedResult(c, t)

\* A tensor operation on operands of their own throws on a device if and only if
\* it throws on the CPU, except where cuBLAS refuses matrices of one row or
\* column.
RefusalsAgree ==
    [][Computes(Refusing) /\ tensor.device # "cpu" /\ ~OneRowOrColumn /\ Owned(call', tensor) =>
          LET c == [call' EXCEPT !.others = [i \in DOMAIN @ |-> OnCpu(@[i])]]
          IN  threw' = Refuses(c, OnCpu(tensor))]_vars

\* The multi-threaded CPU device returns what the sequential one does.
ThreadedAgrees ==
    call = NoCall /\ tensor.dtype = "f32" /\ tensor.device = "cpu" =>
        /\ \A x \in Companions(tensor) :
              ThreadedAdd(tensor, x) = SequentialAdd(tensor, x) /\ ThreadedSub(tensor, x) = SequentialSub(tensor, x)
        /\ Rank(tensor) >= 2 =>
              LET inner == tensor.shape[Rank(tensor)]
              IN  /\ \A x \in Layouts(Fresh(<<inner, 2>>, 1, "cpu")) :
                        IF Rank(tensor) = 2 THEN ThreadedMatmul(tensor, x) = SequentialMatmul(tensor, x)
                        ELSE ThreadedBatchedMatmul(tensor, x) = SequentialBatchedMatmul(tensor, x)
                  /\ \A x \in Layouts(Fresh(<<2, inner, 3>>, 1, "cpu")) \cup Layouts(Fresh(<<2, 1, inner, 2>>, 1, "cpu")) :
                        ThreadedBatchedMatmul(tensor, x) = SequentialBatchedMatmul(tensor, x)
=============================================================================
