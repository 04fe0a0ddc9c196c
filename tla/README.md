# Citrius in TLA+

A verification development for Citrius, a C++ tensor library with CPU, CUDA and
Metal backends, a small neural-network layer and a Qwen3 decoder on top. It
holds TLA+ models of parts of the library, TLC runs that check them on small
instances, and TLAPS proofs of theorems that hold for every value of the
constants. In `PROJECT.json` paths start with `src/`, the root of the repository;
here that is left out, and `src/` in front of code files as well.

    tlc -workers 2 -config MetalThreads.cfg MCMetalContext.tla
    tlapm MetalContextProofs.tla

`PROJECT.json` lists the components, runs, hazards, theorems, findings, for every
definition the source lines it stands for, and for every checked property a
*mutant*: a plausible bug (defined in the module, with the comment "Mutant")
under which the property fails.

## 1. The system

| Component | State | Operations | Talks to | What is hard | What makes it correct |
|---|---|---|---|---|---|
| Tensor layout (`tensor.cpp`) | shape, strides, offset, shared storage; immutable after construction | constructors with `validate_layout`, `is_contiguous`, `copy`, `item`, printing | everything | signed overflow at boundaries, empty and negative axes | an accepted layout stays in its storage, nothing overflows, nothing legal is refused |
| Views and shape operations (`shape_operations.cpp`) | none | `select`, `slice`, `reshape`, `view`, `flatten`, `unsqueeze`, `squeeze`, `permute`, `transpose`, `contiguous`, `split`, `chunk`, `concat` | layout; devices for `contiguous`, `concat` | chains of views; offsets of empty slices; when to copy | the values are those of the same operation on plain arrays |
| Basic indexing (`indexing_operations.cpp`) | none | `index`, `gather_rows` | layout, devices | Python's clamping with negative steps | as above |
| Factory and transfers (`tensor_factory.cpp`) | none | `empty`, `from_vector`, `to` | all devices | where a view begins; wait for the device before host code reads | a transfer is the identity on values |
| Elementwise operations, products (`operations.cpp`) | registry of device objects | broadcasting kernels, `cast`, `masked_fill`, `matmul`, fused operations | devices | broadcasting; which layouts a kernel reads; optimised paths that may decline | the definition of the operation, on every device and path |
| Reductions (`reduction_operations.cpp`) | none | `sum`, `mean`, `max`, `variance`, `argmax` | devices | mapping of axes, ties | as above |
| CPU devices (`devices/cpu`) | thread count | `add_out`, `sub_out`, `matmul_out`, `batched_matmul_out` | OS threads | splitting ranges; threads that outlive the call | every item done once, by one thread, before the return; the same result as sequentially |
| Metal context (`devices/metal/metal_context.mm`) | active and pending command buffers, one mutex, one per process | `command_buffer`, `submit`, `synchronize` | GPU, every Metal operation and storage | encoding outside the mutex, waiting outside the mutex, GPU errors | observed work is finished, submissions in order, all waits end |
| Metal device, storage | matrix caches; shared memory | operations, host copies | context | offsets, packing; caches outlive tensors | what the CPU computes |
| CUDA context, allocation, storage (`devices/cuda`) | registry of contexts, a stream each; stream-ordered memory | create, allocate, free, copy, clone, synchronize | CUDA runtime | host runs ahead of the device; frees of memory with queued users; failures midway | callers cannot tell it from a device that computes at once |
| CUDA devices (reference, cuBLAS, CUTLASS) | cuBLAS handle | kernels with scratch memory | allocation | temporaries and flags; row- or column-major operands; one-pass attention | what the CPU computes; scratch lives until its last queued use |
| NN modules (`nn/`) | parameters by name | `forward`, `named_parameters` | operations | compositions that pack or do not; shared key heads | the definition of the function or layer |
| Qwen3 (`models/qwen3.cpp`) and loader | weights, cached projection | `load_qwen3_weights`, `forward`, `forward_last_token` | NN, safetensors | a load that fails halfway; a hand-written list; a stale cache | what was loaded is what the file says, the cache follows the weight's storage |
| Tokenizer (`models/qwen3_tokenizer.cpp`) | vocabulary, merges | `encode`, `decode`, `encode_chat_prompt` | — | merge order, invalid UTF-8, special tokens | byte pair encoding; decoding gives the text back |
| Safetensors (`safetensors.cpp`) | open file | `load_safetensors` | factory | sizes against offsets, repeated names | the map is the file's |
| 16-bit types (`types.cpp`) | none | float conversions | — | rounding, subnormals | nearest, ties to even |
| decoder_chat (`tools/`) | context | generation loop | Qwen3, tokenizer | stopping | stays within the model's positions |

The interactions are plain calls, except for three places: the OS threads of the
CPU device, the process-wide Metal context, and the CUDA streams. Those have
models of their own with all interleavings. Everything else is sequential, and what is
hard there is that five backends, each with its own idea of which layouts it
reads and which cases it optimises, must give one result.

## 2. Modules

| Module | Role |
|---|---|
| `MetalContext` | host threads, the shared Metal context, the GPU |
| `MetalContextProofs` | its inductive invariant and theorems |
| `CudaStream` | host threads, the context registry, stream and memory of a CUDA device |
| `EagerDevice` | abstract: a device that computes at once; `CudaStream` implements it |
| `CudaStreamProofs` | the inductive invariant of `CudaStream`, its memory theorems, and that it implements `EagerDevice` |
| `RowMajor` | shapes, row-major strides and positions, folds; used by all that follow |
| `TensorViews` | tensors as metadata over storages, with every view function |
| `TensorViewsProofs` | row-major arithmetic, views as maps of coordinates, the inductive invariant of `TensorViews` and its theorems, and that it implements `TensorValues` |
| `TensorValues` | abstract: arrays and NumPy semantics, no metadata; `TensorViews` implements it |
| `LayoutValidation` | `validate_layout()` axis by axis, with the width of its integers |
| `LayoutValidationProofs` | its inductive invariant and theorems |
| `ParallelFor` | `parallel_for()` and the threads it starts |
| `ParallelForProofs` | its inductive invariant and theorems |
| `Floats` | what kernels do with numbers; the arithmetic itself is a parameter |
| `ModularFloats` | an arithmetic that tells operands and orders apart, for TLC |
| `DeviceTensors` | tensors as kernels meet them: storage, layout, transfers, broadcasting, batches |
| `CpuKernels`, `CudaKernels`, `MetalKernels` | what each device's operations check, pack and compute |
| `TensorOps` | the public operations: checks, dispatch, compositions, fused paths |
| `Networks` | functions, layers and the Qwen3 model, composed from `TensorOps` |
| `TensorMath` | the definitions, on plain arrays, that all of the above is compared with |
| `DeviceOps` | a program that makes, views, moves and computes; the properties |
| `Tokenizer` | `encode()` and `decode()` step by step |
| `TokenizerProofs` | lemmas about its operators, its inductive invariant and theorems |
| `Foundations` | lemmas that name nothing of the program: induction without operator parameters, recursive functions exist, folds, mixed bases, sequences |
| `Qwen3Parameters` | the registered parameters, and the list of assignments |
| `Qwen3Loading` | loading, the projection cache, the generation loop |
| `Qwen3LoadingProofs` | its invariants and theorems |
| `MC...` | model values, inputs, symmetry, views for TLC |

### MetalContext

`active`, `count`, `pending` are the members of `MetalExecutionContext::Impl`.
`status`, `work`, `gpu` are the Metal side: life cycle of a command buffer, the
encodings recorded in it per thread, the committed buffers in order. `pc`,
`handle`, `waiting`, `raised` belong to a thread: where it is, the buffer it
fetched, the vector `synchronize()` swapped out, the exception it got. `history`
says whether the execution of any buffer has failed so far; the code has nothing of it.
`command_buffer()`, `submit()` and the locked half of `synchronize()` hold the
mutex throughout, so each is a step (`ShareBuffer`/`OpenBuffer`;
`SubmitCounted`/`SubmitCommits`/`SubmitOutOfOrder`; `Synchronize`). Encoding
(`Encode`) and waiting (`Await`, `AwaitFailed`) happen without it and are steps
of their own. `Observe` is the host's read after `synchronize()`.

Assumed of Metal: buffers of one queue execute in commit order; encoding into a
buffer that was committed, which Metal leaves undefined, records no work; ARC
keeps a buffer alive while some variable names it. One `Encode` stands for one
operation's encoding.

### CudaStream and EagerDevice

`registry` is the map in `cuda_execution_context()`; `context[t]`, `out[t]`,
`scratch[t]`, `host[t]` are locals of a call; `handle[t][x]` is a `Tensor`
variable and shares its storage by reference count (`References`). `queue[c]`
is a stream; `address[s]` is `data_` of an allocation, `memory` and `resident`
what the device holds where. Each CUDA call of an operation is a step, so
operations of different threads interleave in the stream: `AllocateOutput`,
`AllocateScratch`, `Prepare` (the copy of metadata, or of the flag of
`gather_rows`, which is 0 on the host until it is copied back), `Launch`, `CopyToHost`, `Synchronized`, `ReleaseScratch`,
`Return`; and `AllocationFails`, `LaunchFails` with `Unwind` for exceptions. A
`gather_rows` that finds its flag set unwinds as "refusing": `EagerDevice` sees the
`out_of_range` error (`Refuse`), and has it for an index that is out of range and
for no other.
Four kinds of operations stand for the shapes all others have: a blocking upload, a clone
(one asynchronous copy), a broadcast (kernel with metadata freed right behind
it) and `gather_rows` (kernel with a flag the host waits for). `Drop` destroys
and `HandOver` copies a Tensor variable.

Assumed of CUDA: a stream is first-in first-out; `cudaMallocAsync` reuses memory
that a command queued earlier *on the same stream* frees; `cudaMemcpyAsync` from
pageable memory has read its source when it returns. Simplified: one device, all
blocks of one size, `Values == 0..2`, kernels reduced to `Combine`, which tells
operands apart. Threads hand over tensors with proper synchronization. The other
error returns (`cudaMemcpyAsync`, `cudaStreamSynchronize`) are left out, as
is a failing `cudaFreeAsync`, whose status the code ignores.

### TensorViews and TensorValues

A slot is a `Tensor` variable: `Undefined` or shape, strides, offset and storage.
Each function is an action named after it; it computes metadata as the code
does, passes through `Construct` (the validating constructor) and either
`Return`s a tensor or `Throw`s. Operations that materialise write a new
storage. `TensorValues` says what the same call does to an array, with nothing
of the above. `Denoted` is the refinement mapping: the shape and the elements in
row-major order. Both modules have an action for each call and record it in `call`,
so that a wrong result, or an exception where NumPy semantics ask for a
result, is a step `TensorValues` does not have. `ImplementsValues` grants one exception, spelled
out in `EmptySliceRefused`: `slice()` may throw on an empty range behind the end of
an axis that runs backward. `SlicesAreClamped`, without the exception, is a violation run. Arrays have no
storages, so `TensorValues` cannot tell `view()` from `reshape()`, and
`ImplementsValues` says nothing about which of them may copy. `from_vector()` is called with vectors that fill the shape and
with one that does not. One dtype, CPU only; sizes are
far from overflow (`LayoutValidation` deals with that). `InputsAssumption` says
what arguments are: any integers, shapes and subscripts; only the dimensions given to
`from_vector()` are natural numbers, as those of an existing vector.
`UndefinedAssumption` and `OmittedAssumption` say that an empty variable is no
tensor and a missing bound of a slice no number. In `TensorValues` views are three
operators on arrays, `Pick` an index of an axis, `Take` the listed positions of an axis and `WithAxis`,
and `Permuted`; `Positions` of a slice are counted from its definition, a set, where
`normalize_slice()` computes its length; a subscript is read from left to right.

### LayoutValidation

State: the arguments, the axis that is next, the running `minimum` and `maximum`
offset, the empty flag and the verdict. `addresses` is a history variable, the set of
addresses of the axes read so far. The actions are the branches of the loop
body (`RejectNegative`, `ReadEmpty`, `ReadForward`, `ReadBackward`) and the test
behind it (`Decide`). Integers range over `MinInt..MaxInt`, MaxInt a constant;
`NoOverflow` speaks of the products.

### ParallelFor

`NothingToDo`/`Split` plan; `Launch` starts a thread, `LaunchFails` is the
`std::system_error` of its construction (which terminates the process,
since joinable threads are destroyed); `Work` does one item; `OwnDone`, `Join`,
`AllJoined` finish. `written` records who wrote which item. What a body computes
for an item is in `CpuKernels` (`ThreadedAdd`, `ThreadedBatchedMatmul`, ...), where the
items a call fills are those of the workers' `Chunks`: what no chunk covers is never
written (`Filled`). Which order the workers run in does not show there, by `NoSharedItem`.

### DeviceOps and the modules under it

A tensor is a record of shape, strides, offset, dtype, device and the elements of its
storage; an operation is a function from tensors to a tensor or `Refused`, an
exception. Each module follows its source file: a kernel is an operator that
computes one element from its index and pointers (`Start` is the start of a storage,
`First` the pointer advanced by the offset, and reading outside gives `NaN`, which
spreads); a device's method is an operator with the method's checks, what it packs
with `contiguous()`, and the kernel (`CudaGatherRows`, `MetalReduce`); `NotTaken` is
`std::nullopt` of the `try_` methods. `TensorOps` has the checks and the
dispatch of the public functions, `Networks` their compositions in the order of
the code: a module is a record of its kind, parameters and submodules, and `Forward` is
the virtual `Module::forward()` that a module calls on its parts. `DeviceOps` is the program around them: its state is the `tensor` at hand and the
last `call`; `TakeView` and `Move` make the layouts and devices that
computations then meet, each `Compute...` action performs one call of a group with
operands that own their storage, begin inside of one, or are stored by
columns. A call that throws leaves the tensor as it was.

`TensorMath` defines every operation a second time, on arrays without
storages or devices, by the textbook: a product is a sum over pairs, attention a softmax over the
unmasked keys, a layer its equation. `ModuleOf` is the
counterpart of `Forward`. The properties compare.

`Floats` says which numbers meet in which operation; what a sum or a square root
yields is a constant operator. `ModularFloats` is the arithmetic the runs give it: it
replaces floating-point numbers by residues modulo 17², with infinities and NaN: exact, so that different ways to add up agree, and with few
coincidences, so that a wrong operand, sign or order shows. `Exp` satisfies exp(x+y) =
exp(x)exp(y), which the one-pass softmax relies on; comparison is that of small
integers. Rounding is left out, but for conversions to 16-bit types, which round to
the nearest of fewer values with ties to even. Constants of formulas (epsilon, those of GELU) are
constants of the model. A tile of the CUDA matrix product has `TileSize == 2`
columns for 16, a block that searches for the largest element `ArgmaxThreads == 2` threads
for 256, so that partial tiles and ties across threads occur on small tensors.

The registry of device objects and the environment variable that selects a CUDA
backend become the device's name ("cuda" is the reference backend). cuBLAS,
CUTLASS and MPS are external: a product in the layout they are told, and for cuBLAS its
documented check of leading dimensions.

`ReadsRight` lists, per operation and device, which layouts the kernels read right: many CPU and
CUDA kernels take a storage from its start, so what reaches them must be packed. The
properties claim exactness for those layouts; the compositions (`Networks`) pass
whatever their intermediate tensors are, so packing in the right places is
checked there. `RefusalsAgree` compares what devices refuse for tensor operations
only; functions and modules refuse what those do.

### Tokenizer

`Segment` finds the next special token and decodes the plain text before it
(`ReadByte` is `utf8_runes()`); `NextPiece` cuts a piece (`PieceEnd` has the
alternatives of `pretokenize()`); `MergeBest` applies the lowest-ranked rule;
`LookUp` appends ids; `EndSegment` the special token's. `DecodeSpecial`,
`DecodeToken` and `DecodeReturns` are `decode()`. Bytes and code points are
numbers, a symbol of the vocabulary a sequence of the byte encoder's characters.
Of the files and the table of special tokens, the following is assumed. Ids are positions, entries are
distinct and special tokens have ids behind the vocabulary (`VocabularyAssumption`, `TokensAssumption`).
The bytes of inputs and the results of merges are entries (`CoverageAssumption`; a
byte-level vocabulary has all bytes, and the vocabulary was made from the merges). No special token
begins another or begins inside another (`VocabularyAssumption`, `SpecialsAssumption`: each
has its only `<` in front), and they are UTF-8 (`Utf8Assumption`: the table in the constructor is ASCII). `merges.txt` lists the merges in
the order in which they were learnt, so that none joins what itself or a later one
builds (`MergesAssumption`). The last one is what makes "apply the best rank that
fits, again and again" the same as "apply every rule once, in order".
The texts are normalised already (NFC), and the build without Windows' tables is
modelled.

### Qwen3Parameters and Qwen3Loading

`RegisteredParameters` comes from the constructors of the modules,
`Assignments` from the list in `load_qwen3_weights()`, independently. Paths are
sequences of names. `Qwen3Loading` takes both as constants, so that the
theorems hold for any list; `MCQwen3Loading` gives it those of a model with one
layer. `BeginLoad` reads and checks a file (`Accepted`, `TensorMap`);
`AssignAbsent`, `AssignMisshapen`, `AssignTensor` are one call of `assign()`;
`EndLoad` is the check for leftovers. Contents are known by the bytes they were
read from, what they were rounded to and whether a view shows them backwards. `cache` is the Float32 copy of the
embedding and the storage it was made from, which the cache keeps alive; `kept` is a
`Tensor` that a caller copied; `RestoreWeight`, `ReplaceWeight` and `ReverseWeight` assign through
the module's reference: the kept tensor, a new one, and another view of the storage the
weight has (a slice that goes backwards stands for every such view). An address can be handed out again when nobody holds
it (`Fresh`). `BeginGenerate`, `GenerateToken`, `EndGenerate` are the loop of `decoder_chat`,
which computes logits through the cache.

## 3. Runs

| Run | Question | Bounds |
|---|---|---|
| `MetalThreads` | What does the context guarantee when threads share it, do waits end, and does synchronized work run? | 2 threads, 2 buffers, 2 encodings per buffer, GPU errors, fairness |
| `MetalTwoThreadsOutOfOrder` | Do correct operations ever fail in `submit()`? (yes) | as above, no GPU errors |
| `MetalTwoThreadsStale` | Can a host read miss the reader's own work? (yes) | as above, no GPU errors |
| `CudaStream` | Is the asynchronous device indistinguishable from an eager one, and safe with memory? | 2 threads, 1 variable each, 2 contexts, 4 storages in 3 blocks, 2 queued commands |
| `TensorViews` | Do views mean what NumPy says, in chains? | `from_vector` and 3 calls from about 180, on a 2 x 3 matrix |
| `EmptySlices` | Does `slice()` clamp whatever it is given? (no) | as above, one variable, 4 calls |
| `LayoutValidation` | Is the validation sound, complete and free of overflow? | all layouts of up to 2 axes over -6..5, capacity 4 |
| `ParallelFor` | Is every item done once before the return? | all counts 0..9 and an empty and a shifted range, up to 4 threads |
| `DeviceOps` | Do all backends, on all paths, compute the definitions, and refuse the same calls? | 5 devices, 5 shapes of values and 3 of indices, up to 2 views or moves, then one call; 3 CPU threads, 2 elements worth one |
| `GroupedQueryOnCpu` | Is attention on the CPU right when heads share two key heads? (no) | one shape of queries, no views |
| `Tokenizer` | Is nothing lost, are pieces and merges right, does decoding give the text back? | all texts of up to 3 of 11 bytes, some longer ones, 10 rules, 2 special tokens |
| `Qwen3Loading` | What do loads leave behind, and is the projection that of the embedding's storage? | 12 files, 2 loads, 4 addresses, one layer, callers that assign Float32, prompts of 2 and 4 in 4 positions, one new token |

Why these bounds are enough to meet the cases:

* Metal. The races need two threads. Two encodings per buffer suffice for a
  buffer to be shared, to be full, and to be committed by the other thread
  between fetching and submitting. With two buffers one can be open, or pending, while the
  other thread waits for the other, and both are used again and again. `Custody` and
  `SynchronizedUpToOthers` hold until the first failure (`history`): `synchronize()` drops
  the buffers behind a failed one. The proofs cover all other values.
* CUDA. Fewer blocks than storages make the allocator reuse memory whose free is
  still queued, and run out: a `gather_rows` alone needs three blocks. Two
  queued commands let a use be overtaken by a free and a reallocation. Two contexts let a racing thread create a second one.
* Views. The arguments hold for each function the legal boundaries, one value
  beyond each, negative and empty ones. Chains of three reach slices of
  reversed transposed views, and reshapes of those.
* Layouts. Four-bit integers make every product and sum that could overflow do so.
* ParallelFor. Nine items for four threads leave the last thread without an item.
* Devices. Two views reach shifted, strided, and strided-and-shifted tensors, and
  moves behind them meet transfers of each. The shapes have partial tiles, single
  columns, batches that broadcast against each other, ties, and heads that share keys; one layer of
  each kind is enough, since layers only compose. With 3 threads and 2 elements for each, sums
  and products are split into one, two and three chunks, uneven ones and empty ones at the end included.
* Tokenizer. Three bytes reach every pair of alternatives of the pattern and
  every adjacency of special tokens and truncated characters; the longer texts repeat
  merges and overlap them.
* Loading. Two loads leave the second one something to keep. The files have one thing wrong each.
  Four addresses let an address be freed and reused while two others are
  held. A prompt that leaves room for more and one that fills the model end the
  generation loop in its two ways. The proofs cover all other values.

`CHECK_DEADLOCK FALSE` stands where a computation ends (validation,
`parallel_for`, `decode`) or a bound on the calls is reached (`TensorViews`, `DeviceOps`). `MaxCalls`,
`MaxStorages`, `MaxQueue`, `MaxViews`, `MaxLoads`, the pool `Buffers`, `Storages` and `Addresses`, `Uploads`
and the sets of inputs are bounds of the model. `MaxQueue` makes callers
wait when the stream is full, as CUDA does at a (much larger) limit.
Symmetry is used in runs without liveness properties only, over identities that neither
an initial value nor a constant operator distinguishes. `VIEW State` leaves out the last
call, so that a state is explored once; the properties speak of steps, and TLC
checks every step it generates.

### Fairness

`MetalContext!Fairness`: the GPU executes committed buffers, and a thread inside
a call goes on. No thread needs to start a call: liveness here starts with a
`synchronize()` that was called. `ParallelFor!Fairness`: the operating system
schedules the caller and every started thread; nothing says that starting one
succeeds. `Tokenizer!Spec`: the one thread that calls goes on. The other
specifications have safety properties only.

## 4. What the checks found

Violation runs, each a promise of the repository that the code does not keep:

* **Out of order.** `submit()` throws "Metal command buffer submission is out of
  order" when, between an operation's `command_buffer()` and its `submit()`,
  another thread commits the active buffer. Both threads use the API properly.
  In the same window, two threads may have an encoder open on one buffer.
* **Stale observation.** `synchronize()` takes the pending vector along; a
  second thread that synchronizes meanwhile finds it empty, does not wait, and
  reads memory its own work has not written.
* **Grouped attention on the CPU.** For a batch of one, `repeat_heads()` hands
  `concat()` one-head views, which are contiguous and have an offset; the CPU's `concat()`
  copies from the start of the storage, so every query head attends to the first
  key head. CUDA and Metal do not, and `docs/PLAN.md` wants the devices equivalent.
  With one key head, or more than one batch, it does not show.
* **Empty slices.** `slice()` throws on an empty range behind the end of an axis with negative stride, since it
  moves the offset before the storage; `shape_operations.h:15-16` promises clamping and
  `tensor_design.md:164-166` that such an offset is not needed. `index()` does without.

Seen while modelling, without a run:

* `view()` is `reshape()` (`shape_operations.cpp:156-158`) and copies a tensor that is not contiguous, where
  `tensor_design.md:183` says that it never does, and that it throws instead. The model has what
  the code does (`View`): the result of a view of a column has a storage of its own.
* The cached projection compares storages only: after another view of the same storage was assigned
  to the embedding (its rows in reverse, say), logits are those of the view that was copied.
  `ProjectionFollowsStorage` names this case (`AnotherView`) and claims nothing more for it than the storage's data.
  The same would be true of a write into the storage.
* CPU kernels take storages from their start (`tensor_design.md:223` says
  otherwise; `ReadsRight` keeps these cases out of the properties): `mul(x[1], -1)` of a 2 x 2 tensor negates row 0. The same holds of `CudaDeviceImpl::gather_rows`
  and of Metal's `add` and `sub`. `Linear::forward()` builds a matrix from the input's storage and drops
  its offset and strides.
* `Linear` with 16-bit weights works on cuBLAS only: the reference and CUTLASS backends multiply Float32 matrices.
* Matrices of one row or column: cuBLAS is given a stride that means nothing as leading dimension and may refuse it.
* Lines of `merges.txt` that begin with `#` are all taken for comments, rules for `#` included.
* The Metal fused kernels do not check dtypes; their callers do. The kernel `matmul_f32` is compiled, and MPS used.
* After a GPU error `synchronize()` throws at the first failed buffer and forgets the later ones.
* Broadcasting 0 against 1 gives 1; strides are multiplied by slice steps without
  a bound; a dimension product in `resolved_shape()` may wrap around;
  `batched_matmul_out` divides by zero for empty matrices.

## 5. What is proved

All theorems hold for all values of the constants that satisfy the named
assumptions (`NoBuffer` is not a buffer, limits are positive, and so on).

* `MetalContextProofs`, any number of threads, buffers and encodings:
  `TypeCorrect`, `NothingDropped` (`Custody`), `SynchronizeContract`
  (`SynchronizedUpToOthers`), `AcceptedSubmission` (`AcceptedWorkIsRecorded`, an
  action property), and `SingleThreadObservation`: with *one* thread and no GPU
  errors, what the two violation runs refute for two threads is true. The first two
  after `TypeCorrect` hold up to the first failed buffer. None of
  these is inductive: a step of `synchronize()` moves buffers from `pending` to a
  thread, so one must know which buffers are where. `IInv` adds that only the
  active buffer records, that the GPU's queue holds each committed buffer once,
  that only threads inside `synchronize()` hold a vector, that a thread about to
  submit to the active buffer has recorded in it, and that whatever a thread in
  `synchronize()` is owed is being waited for by somebody.
* `LayoutValidationProofs`, any width, rank, capacity and layout: `TypeCorrect`,
  `Soundness` (`AcceptedFits`), `Overflow` (`NoOverflow`). `IInv` is
  `TypeOK /\ Enclosed /\ Decided`: all addresses of the axes read so far lie
  between `minimum` and `maximum`. The arithmetic is in `QuotientBound` (the
  division in the guard bounds the product) and `PartialProduct`.
* `ParallelForProofs`, any range, thread limit and minimum: `TypeCorrect`,
  `Exclusion` (`NoSharedItem`), `Completion` (`CompleteOnReturn`). `IInv` says
  that the planned chunks cover the range, that a thread's position is in its
  chunk, that `written` is exactly what the threads have behind them, and that
  joined threads are done. `RoundedUpReaches`, `ChunksInOrder` and `ChunksCover`
  are the lemmas about the division.
* `Qwen3LoadingProofs`, any parameters, files, addresses, calls and bounds:
  `CacheIsCoherent` (`ProjectionFollowsStorage`) from `Coherent`: holders of one storage agree
  on its data, whatever views of it they are, which is inductive because an address in use is never handed
  out; with which a hit of the cache differs from the embedding at most by the view; `TypeCorrect`; `GenerationTerminatesInBounds`; and, for any list of
  assignments that names every parameter once and by its own name (`ListIsRight`),
  `StrictLoads`, `LenientLoads` and `FailedLoads`: what a load leaves in the
  model however it ends. The invariant `Progress` says that after n assignments the model is
  `before` with the first n taken from the file, and that the map has lost their names.
  That the list in the code is such a list is what the run checks.

* `CudaStreamProofs`, any number of threads, contexts, allocations, blocks and
  queued commands: `MemoryIsSafe` (`NoUseAfterFree`), `MemoryIsNotLost` (`NoLeak`),
  `TypesHold` (`TypeOK`). `NoUseAfterFree` speaks of the commands in the queue, but
  what may be queued next depends on what the host threads hold. So `IInv` has
  two halves. `Streams`: in the queue of the one stream in use an allocation is made
  before it is used and freed after, once each, and two owners of one block
  follow each other. `Operating`, `Private`, `Ownership`: where a thread is in an operation
  decides what it owns, its output and scratch memory belong to nobody else, and
  an allocation exists exactly as long as somebody holds it or its free is
  queued. `LookedUp` connects them: a thread past the lookup uses the registered context, also
  when two threads raced to create one.
* `CudaStreamProofs` also has the refinement, `AsynchronousIsEager` (`ImplementsEager`). A tensor's value is
  what its block will hold when the stream has drained, a fold of the queued
  commands. The lemmas say what a command appended to or executed from the queue
  changes of that value (`Writes`, `Uses`: nothing but what it writes); the invariant
  `VInv`, on top of `IInv`, that every tensor has a value, that the output of a
  finished operation has that of its operands, and that what a thread waits for is still what it
  asked for (`Loaded`), the flag of `gather_rows` included. Every step then is a step of `EagerDevice` or changes nothing of it.
* `MetalContextProofs` also has `BuffersAreBounded` (`EncodingBound`): a buffer gets at most a
  batch, and one encoding per thread that fetched it in time. `Counted`: the encodings in
  the active buffer are those counted plus those of threads about to submit.
* `LayoutValidationProofs` also has `Precision` (`RejectionIsJustified`), if the storage
  is no larger than offsets can express: no legal layout is refused. `Attained` says that the
  two running bounds are offsets of elements, not only bounds.
* `TokenizerProofs`, any text, vocabulary and rules within the assumptions: `TextIsPreserved`
  (`TextPreserved`), `PiecesAreRight` (`PiecesAreWellFormed`), `MergesFollowRanks`
  (`MergesInRankOrder`), and `DecodingRestores`: `decode()` puts out the bytes of its
  ids, which are the text if special tokens are kept. `IInv` says at each step what the
  ids so far, the symbols at hand, the characters and the bytes left make up (`Encoding`), the same for
  `decode()` (`Decoding`), and what each phase leaves behind (`Staged`).
  `Ranked` adds that the symbols are what the rules up to some rank make of the
  piece, and that no rule of a lower rank fits any more.
* `TokenizerProofs` also has `TextRoundTrips` (`RoundTrip`): exactly the texts that are not UTF-8
  are refused, and of the others `decode()` returns the text without its special tokens, if
  it is to skip them. The property speaks of the whole text, by positions; the code sees
  one plain part at a time. Three bridges are needed.
  1. *Characters.* `Needs` counts the bytes that a character still needs, along the whole text. A plain part that starts
     at a character is valid exactly if its characters are whole by that count (`PartIsWhole`), and
     no special token starts inside a character (`TokenStartsCharacter`), so refusing a part is
     refusing the text (`WholeBeforeToken`). `WholeIsFormed` and `FormedIsWhole` relate
     the count to the property's definition by positions.
  2. *Special tokens.* The occurrences that the loop does not see are those across the point it has reached; there are
     none (`Clear`), because the parts end at the first occurrence and tokens do not overlap (`ClearBefore`,
     `ClearBehind`). So the loop finds exactly the tokens whose positions are left out.
  3. *Vocabulary.* Every symbol has an id: bytes do, and a merge makes an entry (`AppliedIsKnown`).

  The invariant is `Faithful`, on top of `IInv`: what is encoded ends at a character, cuts no special token and
  shows what is kept of the text so far.
* `TensorViewsProofs`, any shapes, arguments, number of tensors and length of the chain of
  calls: `TypesHold` (`TypeOK`: the addresses of a tensor lie in its storage and are as many as
  its elements) and `ContiguousIsConsecutive` (`ContiguousMeansConsecutive`). Both
  speak of addresses by element number, and a view renumbers the elements. So `IInv`
  says of every tensor that it is `Sound`: over *coordinates*, its places are in the storage and
  all different. `IsView` says that the coordinates of a result are mapped one to one into
  those of the operand, at the same place; `ViewsAreSound` and `ViewsCompose` turn that into
  soundness, and a lemma for each function gives the map (`SelectionIsView`, `SliceIsView`,
  `PermutationIsView`, `InsertionIsView`). `index()` reads its components one by one:
  what has been read, followed by the axes not yet read, is a view at each
  point (`IsReading`, `ComponentReads`, `ReadingGoesOn`). Functions that may copy need that a new
  storage is used from first to last element (`FreshIsSound`) and that reshaping keeps `numel()`
  (`NumelReplaced`, `NumelJoin`, `SqueezedIs`). Underneath, row-major positions are numbers in a
  mixed base: `RavelOfUnravel` and `UnravelOfRavel` say that division and multiplication invert each other.
* `TensorViewsProofs` also has, under the same conditions, `Refinement` (`ImplementsValues`). The
  refinement mapping `Arrays` gives each slot the array `Shown` by its tensor: its shape and the elements
  at its addresses. The proof has four parts.
  1. *Views.* `ViewsShow`: if `u` is a view of `t` by the map M of coordinates (`IsView`), its array
     is that of `t` read `Through` M. What is left for each function is that `TensorValues` reads
     through the same map: `SelectionShown`, `InsertionShown`, `SliceShown`, `PermutationShown`. For
     slices that is an arithmetic fact: the positions that Python's definition counts are as
     many as the division in `normalize_slice()` says, and start where it says
     (`TakenForward`, `TakenBackward`).
  2. *Refusals.* A step must throw exactly when `TensorValues` refuses, but for `EmptySliceRefused`. The explicit checks compare
     directly, and `reshape()` divides where `TensorValues` asks for a unique dimension. But
     every view also passes the validating constructor, which throws where `TensorValues` has no
     reason to; so one must know that the layouts of the view functions are always valid. It checks
     negative strides even of tensors without elements, of which soundness says
     nothing. The invariant `AllGrounded` does: no tensor's negative strides reach
        below its storage (`GroundedAlways`).
     Each function keeps it (`SelectionGrounds`, `SliceGrounds`, `EmptyGrounds`, ...). What the
     constructor can still reject is a `slice()` that starts at the end of an axis that runs
     backward. It takes nothing, and is the exception.
  3. *Copies.* `contiguous()`, `copy()` and a `reshape()` that must copy write a new storage, whose array is
     the old one; another shape of a contiguous tensor shows the same elements. A storage may be
     freed when its last tensor goes, which no array that is left can tell.
  4. *Subscripts.* `index()` and `Read` both go from left to right. `Agree` relates the view read so far,
     followed by the axes not yet read, to the array read so far, or says that both are
     illegal. `ComponentAgrees` is the step, `ReadingsAgree` the induction,
     with the positions of the subscript in place of a predicate.
  `CallImplements` and `NextImplements` collect the functions; the temporal step follows from `Invariance`.

Recursion over data. The induction theorems of the library take operators,
which the provers cannot instantiate. `Foundations` derives what is needed from
well-foundedness of the naturals, with sets in place of predicates (`LeastNatural`, `UpTo`,
`SequenceInduction`, `SubsetInduction`) and with step functions in place of
operators (`Iterates`, `SetIterates`: the function that a recursive definition
or a library fold chooses exists). A claim about a fold then is one about a function with `f[0]`
and `f[i]` given by `f[i - 1]`.

Model-checked only:

* liveness (`SynchronizeTerminates`, `SynchronizedWorkRuns`, `Returns`, `Terminates`), out of
  the provers' reach as is `ENABLED`;
* `DeviceOps` (`TypeOK`, `ThreadedAgrees`, and what kernels compute): its properties compare whole kernels with definitions
  by sums over arbitrary shapes in an abstract arithmetic, which would have to be assumed to be associative first;
* `Ranked`, which quantifies over functions, is proved only; the rest of the
  invariants were also checked by TLC on the runs' instances.

## 6. Not modelled

* Rounding, and so the accuracy of kernels; subnormals and the bit fields of 16-bit floats.
* Parsing of JSON and of safetensors headers (regular expressions over text), file
  errors, printing, `token_display_name()`, options and logging of `decoder_chat`.
* The registry of device objects, the shared cuBLAS handle, several CUDA devices, and the caches of MPS matrices.
* Moving modules between devices, and modules Qwen3 does not use, beyond their forward functions; dropout, which is the identity here.
* Widths of integers outside of `validate_layout()`: products of dimensions and of strides and steps.
* Build files, benchmarks and examples.

Where one would go on: `resolved_shape()` with fixed-width
integers, as `LayoutValidation` has them; the two CUDA devices of a process; and empty dimensions
in `DeviceOps`, once the library says what broadcasting them means.
