-------------------------- MODULE Qwen3Parameters --------------------------
(***************************************************************************)
(* The parameters a Qwen3ForCausalLM registers, by their path through the  *)
(* module tree, and the list of assignments load_qwen3_weights() makes: a  *)
(* name of the checkpoint and the parameter it goes to. The two are written*)
(* down independently in the code, and meet only in a load.                *)
(***************************************************************************)
EXTENDS Integers, Sequences, TLC

\* The members of a Qwen3Config that parameters depend on.
CONSTANTS VocabSize, HiddenSize, IntermediateSize, HiddenLayers, AttentionHeads, KeyValueHeads,
          HeadDim, DType

\* One parameter of a module, and a module's parameters below a child's name.
\* A path is a sequence of names where the code joins them with ".".
Parameter(shape, dtype) == [path |-> <<"weight">>, shape |-> shape, dtype |-> dtype]
NamedParameters(child, own) == {[p EXCEPT !.path = <<child>> \o @] : p \in own}

\* Linear without a bias, whose undefined tensor is registered but not listed.
LinearParameters(in, out) == {Parameter(<<out, in>>, DType)}
EmbeddingParameters(rows, width) == {Parameter(<<rows, width>>, DType)}
RmsNormParameters(size) == {Parameter(<<size>>, "Float32")}

QueryWidth == AttentionHeads * HeadDim
KeyWidth == KeyValueHeads * HeadDim

MlpParameters ==
    NamedParameters("gate_proj", LinearParameters(HiddenSize, IntermediateSize))
        \cup NamedParameters("up_proj", LinearParameters(HiddenSize, IntermediateSize))
        \cup NamedParameters("down_proj", LinearParameters(IntermediateSize, HiddenSize))

AttentionParameters ==
    NamedParameters("q_proj", LinearParameters(HiddenSize, QueryWidth))
        \cup NamedParameters("k_proj", LinearParameters(HiddenSize, KeyWidth))
        \cup NamedParameters("v_proj", LinearParameters(HiddenSize, KeyWidth))
        \cup NamedParameters("o_proj", LinearParameters(QueryWidth, HiddenSize))
        \cup NamedParameters("q_norm", RmsNormParameters(HeadDim))
        \cup NamedParameters("k_norm", RmsNormParameters(HeadDim))

LayerParameters ==
    NamedParameters("self_attn", AttentionParameters)
        \cup NamedParameters("mlp", MlpParameters)
        \cup NamedParameters("input_layernorm", RmsNormParameters(HiddenSize))
        \cup NamedParameters("post_attention_layernorm", RmsNormParameters(HiddenSize))

\* "layers_" + std::to_string(index)
Layers == 0..HiddenLayers - 1
LayerName(index) == "layers_" \o ToString(index)

ModelParameters ==
    NamedParameters("embed_tokens", EmbeddingParameters(VocabSize, HiddenSize))
        \cup UNION {NamedParameters(LayerName(index), LayerParameters) : index \in Layers}
        \cup NamedParameters("norm", RmsNormParameters(HiddenSize))

RegisteredParameters == NamedParameters("model", ModelParameters)

-----------------------------------------------------------------------------
\* One call of assign(): the checkpoint's name, and the path of the parameter.
Assignment(name, path) == [name |-> name, path |-> <<"model">> \o path \o <<"weight">>]

\* Within a layer: the modules in the order of the calls, named once in the
\* string and once by the accessor.
Both(module) == [name |-> module, accessor |-> module]

\* Mutant: a line of the list pasted without its accessor changed.
LayerAssignments_Pasted ==
    <<Both(<<"self_attn", "q_proj">>), Both(<<"self_attn", "k_proj">>),
      Both(<<"self_attn", "v_proj">>), Both(<<"self_attn", "o_proj">>),
      Both(<<"self_attn", "q_norm">>), Both(<<"self_attn", "k_norm">>),
      Both(<<"mlp", "gate_proj">>),
      [name |-> <<"mlp", "up_proj">>, accessor |-> <<"mlp", "gate_proj">>],
      Both(<<"mlp", "down_proj">>),
      Both(<<"input_layernorm">>), Both(<<"post_attention_layernorm">>)>>

LayerAssignments ==
    <<Both(<<"self_attn", "q_proj">>), Both(<<"self_attn", "k_proj">>),
      Both(<<"self_attn", "v_proj">>), Both(<<"self_attn", "o_proj">>),
      Both(<<"self_attn", "q_norm">>), Both(<<"self_attn", "k_norm">>),
      Both(<<"mlp", "gate_proj">>), Both(<<"mlp", "up_proj">>),
      Both(<<"mlp", "down_proj">>),
      Both(<<"input_layernorm">>), Both(<<"post_attention_layernorm">>)>>

LayerAssignment(index, i) ==
    LET line == LayerAssignments[i]
    IN  Assignment(<<"model", "layers", ToString(index)>> \o line.name \o <<"weight">>,
                   <<LayerName(index)>> \o line.accessor)

PerLayer == Len(LayerAssignments)

Assignments ==
    <<Assignment(<<"model", "embed_tokens", "weight">>, <<"embed_tokens">>)>>
        \o [k \in 1..HiddenLayers * PerLayer |->
               LayerAssignment((k - 1) \div PerLayer, ((k - 1) % PerLayer) + 1)]
        \o <<Assignment(<<"model", "norm", "weight">>, <<"norm">>)>>
=============================================================================
