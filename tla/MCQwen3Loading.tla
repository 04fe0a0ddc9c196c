--------------------------- MODULE MCQwen3Loading ---------------------------
(* One layer, two query heads and one key head; checkpoints that are whole   *)
(* and checkpoints with one thing wrong.                                     *)
EXTENDS Qwen3Loading, Qwen3Parameters

Paths == {p.path : p \in RegisteredParameters}
MCEmbedding == <<"model", "embed_tokens", "weight">>
Registered(path) == CHOOSE p \in RegisteredParameters : p.path = path
Shapes == <<>> @@ [path \in Paths |-> Registered(path).shape]
DTypes == <<>> @@ [path \in Paths |-> Registered(path).dtype]

Join(path) == FoldLeft(LAMBDA a, b : a \o "." \o b, path[1], Tail(path))

\* The checkpoint numbers its layers by a module "layers" of their own.
HuggingFace(path) ==
    IF path[2] = "layers_0" THEN <<"model", "layers", "0">> \o SubSeq(path, 3, Len(path)) ELSE path
Names == <<>> @@ [path \in Paths |-> Join(HuggingFace(path))]

Calls == <<>> \o [i \in DOMAIN Assignments |->
               [name |-> Join(Assignments[i].name), path |-> Assignments[i].path]]

\* A file that stores the tensors of a list one behind the other.
Laid(data, dtype, list) ==
    LET bytes(i) == Numel(list[i].shape) * Width[dtype]
        begin(i) == Total([j \in 1..i - 1 |-> bytes(j)])
    IN  [data |-> data, header_length |-> 10, size |-> 18 + begin(Len(list) + 1),
         header |-> <<>> \o [i \in 1..Len(list) |->
                        [name |-> list[i].name, dtype |-> dtype, shape |-> list[i].shape,
                         begin |-> begin(i), end |-> begin(i) + bytes(i)]]]

Entry(name, shape) == [name |-> name, shape |-> shape]
Whole == <<>> \o [i \in DOMAIN Calls |-> Entry(Calls[i].name, Shapes[Calls[i].path])]
Without(name) == SelectSeq(Whole, LAMBDA e : e.name # name)
Reshaped(name) == <<>> \o [i \in DOMAIN Whole |->
                      IF Whole[i].name = name THEN [Whole[i] EXCEPT !.shape = <<1>> \o @] ELSE Whole[i]]
Embedded == "model.embed_tokens.weight"
First == Laid("first", "F32", Whole)

Checkpoints ==
    {First,
     Laid("second", "BF16", <<Entry("__metadata__", <<>>)>> \o Whole
                                \o <<Entry("lm_head.weight", <<5, 4>>)>>),
     Laid("twice", "F16", Whole \o <<Whole[1]>>),
     Laid("no embedding", "F32", Without(Embedded)),
     Laid("no gate", "F32", Without("model.layers.0.mlp.gate_proj.weight")),
     Laid("no norm", "F32", Without("model.norm.weight")),
     Laid("wrong norm", "F32", Reshaped("model.layers.0.self_attn.k_norm.weight")),
     Laid("wrong embedding", "F32", Reshaped(Embedded)),
     Laid("more", "F32", Whole \o <<Entry("model.layers.1.mlp.up_proj.weight", <<3, 4>>)>>),
     [First EXCEPT !.size = @ - 1],
     [First EXCEPT !.header[1].dtype = "I64"],
     [First EXCEPT !.header_length = First.size]}

\* TLC evaluates a definition once, but what replaces a constant every time.
MCParameters == Paths
MCShapeOf == Shapes
MCDTypeOf == DTypes
MCOrder == Calls
MCNameOf == Names
MCFiles == Checkpoints

Symmetry == Permutations(Addresses)
=============================================================================
