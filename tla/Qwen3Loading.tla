---------------------------- MODULE Qwen3Loading ----------------------------
(***************************************************************************)
(* The life of a Qwen3ForCausalLM's parameters: checkpoints loaded one     *)
(* over the other, strictly or not, each assignment a step of its own      *)
(* because an exception between two of them leaves the model as it is; the *)
(* Float32 copy of the embedding that vocabulary_projection() caches under *)
(* the identity of the embedding's storage; and the decoder's loop, which  *)
(* reads through that copy.                                                *)
(*                                                                         *)
(* A storage is an address, which the allocator may hand out again once no *)
(* shared_ptr holds it. Only the embedding's storages are kept track of.   *)
(***************************************************************************)
EXTENDS RowMajor, FiniteSets

CONSTANTS
    Parameters,    \* paths of the registered parameters
    Embedding,     \* the path of the token embedding's weight
    ShapeOf,       \* a parameter's shape
    DTypeOf,       \* a parameter's dtype at construction
    Order,         \* load_qwen3_weights()'s calls of assign()
    NameOf,        \* a parameter's name in a Hugging Face checkpoint
    Files,         \* safetensors files
    Addresses,     \* storages of the process
    None,
    Assigned,      \* dtypes of the weights a caller assigns to the embedding
    Prompts,       \* lengths of prompts
    MaxPositions,  \* max_position_embeddings
    MaxNewTokens,  \* --max-new-tokens
    MaxLoads       \* calls of load_qwen3_weights() (a bound)

ASSUME EmbeddingAssumption == Embedding \in Parameters
ASSUME OrderAssumption ==
    Order \in Seq([name : STRING, path : Parameters])
ASSUME FilesAssumption ==
    \A f \in Files : f.header \in Seq([name : STRING, dtype : STRING, shape : Seq(Nat),
                                      begin : Nat, end : Nat])
ASSUME NoneAssumption == None \notin Addresses /\ None \notin Files
ASSUME BoundsAssumption ==
    /\ Prompts \subseteq Nat
    /\ MaxPositions \in Nat
    /\ MaxNewTokens \in Nat
    /\ MaxLoads \in Nat

VARIABLES
    parameters,  \* a tensor per parameter: its dtype and contents
    storage,     \* the storage of the embedding's weight
    cache,       \* the cached weight: its source storage and contents
    kept,        \* a copy of the embedding's tensor a caller holds on to
    running,     \* the call in progress
    file, strict,   \* its arguments
    tensors,     \* the TensorMap: what is left of the file
    next,        \* the next assignment
    before,      \* the parameters when the load began
    outcome,     \* how the last load ended
    loads,       \* loads begun
    prompt,      \* the length of the prompt
    generated    \* the tokens generated from it

load == <<file, strict, tensors, next, before, outcome>>
generation == <<prompt, generated>>
vars == <<parameters, storage, cache, kept, running, load, loads, generation>>

\* What a call left behind for the properties is forgotten with the next one.
NoLoad ==
    /\ file' = None
    /\ strict' = FALSE
    /\ tensors' = <<>>
    /\ next' = 1
    /\ before' = None
    /\ outcome' = "none"
NoGeneration == prompt' = 0 /\ generated' = <<>>

FloatingPoint == {"Float32", "Float16", "BFloat16"}
ASSUME DTypeAssumption ==
    DTypeOf \in [Parameters -> FloatingPoint] /\ Assigned \subseteq FloatingPoint
Tensor(dtype, contents) == [dtype |-> dtype, contents |-> contents]

\* Contents are known by where they were read, what they were rounded to (cast()
\* to Float32 changes no value) and whether a view shows them in reverse.
Unrounded(bytes) == [bytes |-> bytes, rounded |-> {}, reversed |-> FALSE]
Backwards(c) == [bytes |-> c.bytes, rounded |-> c.rounded, reversed |-> ~c.reversed]
Cast(tensor, dtype) ==
    Tensor(dtype, IF dtype = "Float32" THEN tensor.contents
                  ELSE [tensor.contents EXCEPT !.rounded = @ \cup {dtype}])

-----------------------------------------------------------------------------
(* load_safetensors()                                                      *)

Described(header) == {i \in DOMAIN header : header[i].name # "__metadata__"}

\* element_size(), which has no answer for any other type.
Width == [F32 |-> 4, F16 |-> 2, BF16 |-> 2]

Readable(f, info) ==
    /\ info.begin <= info.end
    /\ info.dtype \in DOMAIN Width
    /\ info.end - info.begin = Numel(info.shape) * Width[info.dtype]
    /\ 8 + f.header_length + info.end <= f.size

Accepted(f) ==
    /\ f.size >= 8
    /\ f.header_length <= f.size - 8
    /\ \A i \in Described(f.header) : Readable(f, f.header[i])

Contents(f, info) == Unrounded(<<f.data, info.begin, info.dtype>>)

\* Mutant: a later entry of the same name replaces the earlier one.
IsEntry_Last(f, name, i) ==
    /\ i \in Described(f.header)
    /\ f.header[i].name = name
    /\ \A j \in Described(f.header) : f.header[j].name = name => j <= i

\* result.emplace() leaves the entry that is there.
IsEntry(f, name, i) ==
    /\ i \in Described(f.header)
    /\ f.header[i].name = name
    /\ \A j \in Described(f.header) : f.header[j].name = name => i <= j

TensorMap(f) ==
    [name \in {f.header[i].name : i \in Described(f.header)} |->
        LET info == f.header[CHOOSE i \in DOMAIN f.header : IsEntry(f, name, i)]
        IN  [shape |-> info.shape, tensor |-> Tensor("Float32", Contents(f, info))]]

-----------------------------------------------------------------------------
(* load_qwen3_weights()                                                    *)

\* Mutant: the cache holds the address of its source and not the storage.
Live_NotTheCache == {storage} \cup {t.storage : t \in {kept} \ {None}}

\* Storages some shared_ptr holds, which the allocator cannot hand out.
Live == {storage, cache.source} \cup {t.storage : t \in {kept} \ {None}}
Fresh == Addresses \ Live

Leaves(how) ==
    /\ running' = "nothing"
    /\ outcome' = how
    /\ UNCHANGED <<cache, kept, file, strict, next, before, loads, generation>>

\* Mutant: the map outlives the call.
Throws_KeepsTheMap(how) == Leaves(how) /\ UNCHANGED <<parameters, storage, tensors>>

Throws(how) == Leaves(how) /\ tensors' = <<>> /\ UNCHANGED <<parameters, storage>>

BeginLoad(f, s) ==
    /\ running = "nothing"
    /\ loads < MaxLoads
    /\ loads' = loads + 1
    /\ file' = f
    /\ strict' = s
    /\ before' = parameters
    /\ next' = 1
    /\ IF Accepted(f)
       THEN running' = "load" /\ outcome' = "open" /\ tensors' = TensorMap(f)
       ELSE running' = "nothing" /\ outcome' = "refused" /\ tensors' = <<>>
    /\ NoGeneration
    /\ UNCHANGED <<parameters, storage, cache, kept>>

Assigning == running = "load" /\ next <= Len(Order)
Name == Order[next].name
Destination == Order[next].path
Skip ==
    /\ next' = next + 1
    /\ UNCHANGED <<parameters, storage, cache, kept, running, file, strict, tensors, before,
                   outcome, loads, generation>>

AssignAbsent ==
    /\ Assigning
    /\ Name \notin DOMAIN tensors
    /\ IF strict THEN Throws("missing") ELSE Skip

\* Mutant: the shapes are compared after the assignment.
AssignMisshapen_Late ==
    /\ Assigning
    /\ Name \in DOMAIN tensors
    /\ tensors[Name].shape # ShapeOf[Destination]
    /\ Leaves("misshapen")
    /\ tensors' = <<>>
    /\ parameters' = [parameters EXCEPT ![Destination] = Cast(tensors[Name].tensor, @.dtype)]
    /\ UNCHANGED storage

AssignMisshapen ==
    /\ Assigning
    /\ Name \in DOMAIN tensors
    /\ tensors[Name].shape # ShapeOf[Destination]
    /\ Throws("misshapen")

\* destination = found->second, or its cast; tensors.erase(found).
AssignTensor ==
    /\ Assigning
    /\ Name \in DOMAIN tensors
    /\ tensors[Name].shape = ShapeOf[Destination]
    /\ parameters' = [parameters EXCEPT ![Destination] = Cast(tensors[Name].tensor, @.dtype)]
    /\ IF Destination = Embedding THEN storage' \in Fresh ELSE UNCHANGED storage
    /\ tensors' = [n \in DOMAIN tensors \ {Name} |-> tensors[n]]
    /\ next' = next + 1
    /\ UNCHANGED <<cache, kept, running, file, strict, before, outcome, loads, generation>>

\* The checkpoint's own projection matrix is dropped: the embedding's serves.
Leftover == DOMAIN tensors \ {"lm_head.weight"}

EndLoad ==
    /\ running = "load"
    /\ next > Len(Order)
    /\ IF strict /\ Leftover # {} THEN Throws("unexpected")
       ELSE Leaves("returned") /\ tensors' = <<>> /\ UNCHANGED <<parameters, storage>>

-----------------------------------------------------------------------------
(* vocabulary_projection() and what a caller can do to the embedding       *)

Weight == parameters[Embedding]

CacheHit == cache.source # None /\ cache.source = storage

\* The matrix the hidden states, which are Float32, are multiplied by.
Projected ==
    IF Weight.dtype # "Float32" /\ CacheHit THEN cache.contents
    ELSE Cast(Weight, "Float32").contents

Project ==
    /\ cache' = IF Weight.dtype # "Float32" /\ ~CacheHit
                THEN [source |-> storage, contents |-> Cast(Weight, "Float32").contents]
                ELSE cache
    /\ UNCHANGED <<parameters, storage, kept, loads>>

Forward ==
    /\ running = "nothing"
    /\ Project
    /\ NoLoad
    /\ NoGeneration
    /\ UNCHANGED running

\* A Tensor copied from token_embedding().weight(), and later assigned to it.
KeepWeight ==
    /\ running = "nothing"
    /\ kept' = [dtype |-> Weight.dtype, contents |-> Weight.contents, storage |-> storage]
    /\ NoLoad
    /\ NoGeneration
    /\ UNCHANGED <<parameters, storage, cache, running, loads>>

Replace(tensor, address) ==
    /\ running = "nothing"
    /\ parameters' = [parameters EXCEPT ![Embedding] = tensor]
    /\ storage' = address
    /\ NoLoad
    /\ NoGeneration
    /\ UNCHANGED <<cache, kept, running, loads>>

RestoreWeight == kept # None /\ Replace(Tensor(kept.dtype, kept.contents), kept.storage)

ReplaceWeight(dtype, address) ==
    address \in Fresh /\ Replace(Tensor(dtype, Unrounded(<<"caller", 0, dtype>>)), address)

\* Another view of its own storage, of the same shape, for which a slice that
\* goes backwards stands: weight = weight.index({Slice(nullopt, nullopt, -1)}).
ReverseWeight == Replace(Tensor(Weight.dtype, Backwards(Weight.contents)), storage)

-----------------------------------------------------------------------------
(* decoder_chat's generate()                                               *)

context == prompt + Len(generated)
Tokens == {"eos", "other"}

BeginGenerate(length) ==
    /\ running = "nothing"
    /\ running' = "generate"
    /\ prompt' = length
    /\ generated' = <<>>
    /\ NoLoad
    /\ UNCHANGED <<parameters, storage, cache, kept, loads>>

HasRoom == Len(generated) < MaxNewTokens /\ context < MaxPositions

GenerateToken(token) ==
    /\ running = "generate"
    /\ HasRoom
    /\ Project
    /\ generated' = Append(generated, token)
    /\ running' = IF token = "eos" THEN "nothing" ELSE "generate"
    /\ UNCHANGED <<prompt, load>>

EndGenerate ==
    /\ running = "generate"
    /\ ~HasRoom
    /\ running' = "nothing"
    /\ UNCHANGED <<parameters, storage, cache, kept, load, loads, generation>>

-----------------------------------------------------------------------------
Init ==
    /\ parameters = [p \in Parameters |->
                        Tensor(DTypeOf[p], Unrounded(<<"constructor", 0, DTypeOf[p]>>))]
    /\ storage \in Addresses
    /\ cache = [source |-> None, contents |-> None]
    /\ kept = None
    /\ running = "nothing"
    /\ file = None
    /\ strict = FALSE
    /\ tensors = <<>>
    /\ next = 1
    /\ before = None
    /\ outcome = "none"
    /\ loads = 0
    /\ prompt = 0
    /\ generated = <<>>

Next ==
    \/ \E f \in Files, s \in BOOLEAN : BeginLoad(f, s)
    \/ AssignAbsent
    \/ AssignMisshapen
    \/ AssignTensor
    \/ EndLoad
    \/ Forward
    \/ KeepWeight
    \/ RestoreWeight
    \/ ReverseWeight
    \/ \E dtype \in Assigned, address \in Addresses : ReplaceWeight(dtype, address)
    \/ \E length \in Prompts : BeginGenerate(length)
    \/ \E token \in Tokens : GenerateToken(token)
    \/ EndGenerate

Spec == Init /\ [][Next]_vars
-----------------------------------------------------------------------------
(* Properties                                                              *)

IsContents(c) ==
    /\ DOMAIN c = {"bytes", "rounded", "reversed"}
    /\ c.rounded \subseteq FloatingPoint
    /\ c.reversed \in BOOLEAN
IsTensor(t) == t.dtype \in FloatingPoint /\ IsContents(t.contents)

\* The type invariant. A parameter keeps the dtype it was constructed with,
\* whatever the checkpoint stores (only a caller can change the embedding's),
\* and no tensor of a file outlives the load.
TypeOK ==
    /\ \A p \in Parameters \ {Embedding} : parameters[p].dtype = DTypeOf[p]
    /\ \A p \in Parameters : IsTensor(parameters[p])
    /\ storage \in Addresses
    /\ cache.source \in Addresses \cup {None}
    /\ cache.source # None => IsContents(cache.contents)
    /\ kept # None => IsTensor(kept) /\ kept.storage \in Addresses
    /\ running \in {"nothing", "load", "generate"}
    /\ next \in 1..Len(Order) + 1
    /\ strict \in BOOLEAN
    /\ running # "load" => tensors = <<>>
    /\ file \in Files \cup {None}
    /\ outcome \in {"none", "open", "refused", "missing", "misshapen", "unexpected", "returned"}

\* The first entry of a name in a file, and a parameter that holds it.
FirstEntries(f, name) ==
    {i \in Described(f.header) :
        /\ f.header[i].name = name
        /\ \A j \in 1..i - 1 : f.header[j].name # name}

FromFile(p) ==
    \E i \in FirstEntries(file, NameOf[p]) :
        /\ file.header[i].shape = ShapeOf[p]
        /\ parameters[p] = Cast(Tensor("Float32", Contents(file, file.header[i])), before[p].dtype)

InFile(p) == FirstEntries(file, NameOf[p]) # {}

\* When a strict load returns, every parameter the modules register holds the
\* checkpoint's tensor of its own name: none was left out of the hand-written
\* list of assignments, none got its neighbour's (load_qwen3_weights()).
StrictLoadIsComplete ==
    outcome = "returned" /\ strict => \A p \in Parameters : FromFile(p)

\* "When strict is false, parameters absent from the file retain their current
\* values" (qwen3.h), and the others do not.
AbsentParametersAreKept ==
    outcome = "returned" =>
        \A p \in Parameters : IF InFile(p) THEN FromFile(p) ELSE parameters[p] = before[p]

\* A load that throws has changed the parameters up to one assignment of the
\* list and none behind it; a file that cannot be read changes none at all.
ExceptionLeavesAPrefix ==
    outcome \in {"refused", "missing", "misshapen", "unexpected"} =>
        \E n \in 0..Len(Order) :
            /\ outcome = "refused" => n = 0
            /\ outcome = "unexpected" => n = Len(Order)
            /\ \A i \in 1..Len(Order) :
                   LET p == Order[i].path
                   IN  IF i <= n /\ InFile(p) THEN FromFile(p) ELSE parameters[p] = before[p]

\* The logits are always computed with what the embedding's storage holds, its
\* present one, however often the embedding was loaded, replaced or put back, and
\* whatever addresses the allocator gave the tensors. They are computed with the
\* embedding itself unless a caller has assigned another view of this storage since
\* the copy was made: vocabulary_projection() compares nothing but the storages.
AnotherView == CacheHit /\ cache.contents.reversed # Weight.contents.reversed
SameData(c, d) == c.bytes = d.bytes /\ c.rounded = d.rounded
ProjectionFollowsStorage ==
    /\ SameData(Projected, Weight.contents)
    /\ AnotherView \/ Projected.reversed = Weight.contents.reversed

\* generate() never outgrows max_position_embeddings, which forward() would
\* refuse, nor the tokens asked for, and the end of sequence ends it.
GenerationIsBounded ==
    /\ Len(generated) <= MaxNewTokens
    /\ generated # <<>> => context <= MaxPositions
    /\ \A i \in 1..Len(generated) :
           generated[i] = "eos" => i = Len(generated) /\ running # "generate"
=============================================================================
