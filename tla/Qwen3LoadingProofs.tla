------------------------- MODULE Qwen3LoadingProofs -------------------------
(***************************************************************************)
(* Proofs about the loading of Qwen3 checkpoints, for every list of        *)
(* parameters, every set of files and any number of storages.              *)
(***************************************************************************)
EXTENDS Qwen3Loading, WellFoundedInduction, TLAPS

(* What the actions have in common: which of them touch what.                *)
LEMMA ProjectedIsCast ==
    Projected = IF Weight.dtype # "Float32" /\ CacheHit THEN cache.contents ELSE Weight.contents
BY DEF Projected, Cast, Tensor, Weight

-----------------------------------------------------------------------------
(* The cache. What a storage holds never changes while a shared_ptr holds    *)
(* the storage, so whatever two of the three holders name the same storage   *)
(* show the same data, each in its own view of them.                         *)
Coherent ==
    /\ parameters = [p \in Parameters |-> parameters[p]]
    /\ cache.source # None /\ cache.source = storage => SameData(cache.contents, Weight.contents)
    /\ kept # None /\ kept.storage = storage => SameData(kept.contents, Weight.contents)
    /\ kept # None /\ cache.source # None /\ kept.storage = cache.source
          => SameData(kept.contents, cache.contents)

LEMMA InitCoherent == Init => Coherent
BY DEF Init, Coherent

LEMMA ProjectCoherent ==
    ASSUME Coherent, Project
    PROVE  Coherent'
<1>1. CASE Weight.dtype # "Float32" /\ ~CacheHit
  <2>1. cache' = [source |-> storage, contents |-> Weight.contents]
    BY <1>1 DEF Project, Cast, Tensor
  <2> QED  BY <2>1 DEF Project, Coherent, Weight, SameData
<1>2. CASE ~(Weight.dtype # "Float32" /\ ~CacheHit)
  <2>1. cache' = cache
    BY <1>2 DEF Project
  <2> QED  BY <2>1 DEF Project, Coherent, Weight
<1> QED  BY <1>1, <1>2

LEMMA FreshStorage ==
    ASSUME NEW a \in Fresh
    PROVE  a # storage /\ a # cache.source /\ (kept # None => a # kept.storage)
BY DEF Fresh, Live

LEMMA NextCoherent ==
    ASSUME Coherent, [Next]_vars
    PROVE  Coherent'
<1> USE DEF Coherent, Weight, SameData
<1>1. CASE UNCHANGED <<parameters, storage, cache, kept>>
  BY <1>1
<1>2. CASE AssignTensor
  <2> DEFINE t == Cast(tensors[Name].tensor, parameters[Destination].dtype)
  <2>1. parameters' = [parameters EXCEPT ![Destination] = t] /\ UNCHANGED <<cache, kept>>
    BY <1>2 DEF AssignTensor
  <2>2. CASE Destination = Embedding
    <3>1. storage' \in Fresh
      BY <1>2, <2>2 DEF AssignTensor
    <3> QED  BY <2>1, <3>1, FreshStorage, EmbeddingAssumption
  <2>3. CASE Destination # Embedding
    <3>1. storage' = storage
      BY <1>2, <2>3 DEF AssignTensor
    <3>2. parameters'[Embedding] = parameters[Embedding]
      BY <2>1, <2>3, EmbeddingAssumption
    <3> QED  BY <2>1, <3>1, <3>2
  <2> QED  BY <2>2, <2>3
<1>3. CASE Forward \/ \E token \in Tokens : GenerateToken(token)
  BY <1>3, ProjectCoherent DEF Forward, GenerateToken
<1>4. CASE KeepWeight
  BY <1>4 DEF KeepWeight
<1>5. CASE RestoreWeight
  <2>1. /\ parameters' = [parameters EXCEPT ![Embedding] = Tensor(kept.dtype, kept.contents)]
        /\ kept # None /\ storage' = kept.storage /\ UNCHANGED <<cache, kept>>
    BY <1>5 DEF RestoreWeight, Replace
  <2>2. parameters'[Embedding].contents = kept.contents
    BY <2>1, EmbeddingAssumption DEF Tensor
  <2> QED  BY <2>1, <2>2
<1>6. CASE \E dtype \in Assigned, address \in Addresses : ReplaceWeight(dtype, address)
  <2>1. /\ storage' \in Fresh /\ UNCHANGED <<cache, kept>>
        /\ \E t : parameters' = [parameters EXCEPT ![Embedding] = t]
    BY <1>6 DEF ReplaceWeight, Replace
  <2> QED  BY <2>1, FreshStorage
<1>7. CASE ReverseWeight
  <2>1. /\ parameters' = [parameters EXCEPT ![Embedding] = Tensor(Weight.dtype, Backwards(Weight.contents))]
        /\ UNCHANGED <<storage, cache, kept>>
    BY <1>7 DEF ReverseWeight, Replace
  <2>2. SameData(parameters'[Embedding].contents, parameters[Embedding].contents)
    BY <2>1, EmbeddingAssumption DEF Tensor, Backwards, SameData
  <2> QED  BY <2>1, <2>2 DEF SameData
<1> QED
  <2>1. CASE \E f \in Files, s \in BOOLEAN : BeginLoad(f, s)
    BY <2>1, <1>1 DEF BeginLoad
  <2>2. CASE AssignAbsent \/ AssignMisshapen \/ EndLoad
    BY <2>2, <1>1 DEF AssignAbsent, AssignMisshapen, EndLoad, Throws, Leaves, Skip
  <2>3. CASE (\E length \in Prompts : BeginGenerate(length)) \/ EndGenerate
    BY <2>3, <1>1 DEF BeginGenerate, EndGenerate
  <2>4. CASE UNCHANGED vars
    BY <2>4, <1>1 DEF vars
  <2> QED  BY <1>2, <1>3, <1>4, <1>5, <1>6, <1>7, <2>1, <2>2, <2>3, <2>4 DEF Next

(* The logits are computed with what the embedding's storage holds: a        *)
(* storage the cache names can be no other tensor's, because the cache       *)
(* itself keeps it alive, and what it holds does not change. They are        *)
(* computed with the embedding itself unless another view of the storage has *)
(* been assigned to it since the copy was made (vocabulary_projection()).    *)
THEOREM CacheIsCoherent == Spec => []ProjectionFollowsStorage
<1>1. Coherent => ProjectionFollowsStorage
  <2> SUFFICES ASSUME Coherent PROVE ProjectionFollowsStorage
    OBVIOUS
  <2>1. CASE Weight.dtype # "Float32" /\ CacheHit
    <3>1. Projected = cache.contents
      BY <2>1, ProjectedIsCast
    <3>2. SameData(cache.contents, Weight.contents)
      BY <2>1 DEF Coherent, CacheHit
    <3> QED  BY <2>1, <3>1, <3>2 DEF ProjectionFollowsStorage, AnotherView
  <2>2. CASE ~(Weight.dtype # "Float32" /\ CacheHit)
    <3>1. Projected = Weight.contents
      BY <2>2, ProjectedIsCast
    <3> QED  BY <3>1 DEF ProjectionFollowsStorage, SameData
  <2> QED  BY <2>1, <2>2
<1> QED  BY <1>1, InitCoherent, NextCoherent, PTL DEF Spec

-----------------------------------------------------------------------------
(* The map load_safetensors() returns has the first entry of each name.      *)
LEMMA LeastNatural ==
    ASSUME NEW T, T \subseteq Nat, T # {}
    PROVE  \E x \in T : \A y \in T : x <= y
<1> DEFINE Less == {pair \in Nat \X Nat : pair[1] < pair[2]}
<1>1. IsWellFoundedOn(Less, Nat)
  BY NatLessThanWellFounded DEF OpToRel
<1>2. \E x \in T : \A y \in T : <<y, x>> \notin Less
  <2> HIDE DEF Less
  <2> QED  BY <1>1, WFMin
<1>3. \A x \in T, y \in T : y < x => <<y, x>> \in Less
  OBVIOUS
<1>4. PICK x \in T : \A y \in T : <<y, x>> \notin Less
  BY <1>2
<1>5. \A y \in T : ~(y < x)
  BY <1>3, <1>4
<1> QED  BY <1>4, <1>5

Held(f, name) == TensorMap(f)[name]
InMap(f, name) == name \in DOMAIN TensorMap(f)

LEMMA HeldIsFirst ==
    ASSUME NEW f \in Files, NEW name, InMap(f, name)
    PROVE  \E i \in FirstEntries(f, name) :
               Held(f, name) = [shape |-> f.header[i].shape,
                                tensor |-> Tensor("Float32", Contents(f, f.header[i]))]
<1> DEFINE h == f.header
           T == {i \in Described(h) : h[i].name = name}
           i == CHOOSE k \in DOMAIN h : IsEntry(f, name, k)
<1>1. DOMAIN h = 1..Len(h) /\ Len(h) \in Nat
  BY FilesAssumption
<1>2. T \subseteq Nat /\ T \subseteq DOMAIN h
  BY <1>1 DEF Described
<1>3. T # {}
  BY DEF InMap, TensorMap
<1>4. \E k \in DOMAIN h : IsEntry(f, name, k)
  BY <1>2, <1>3, LeastNatural DEF IsEntry
<1>5. i \in DOMAIN h /\ IsEntry(f, name, i)
  BY <1>4
<1>6. \A j \in 1..i - 1 : h[j].name # name
  <2> SUFFICES ASSUME NEW j \in 1..i - 1, h[j].name = name PROVE FALSE
    OBVIOUS
  <2>1. j \in DOMAIN h /\ i \in 1..Len(h)
    BY <1>1, <1>5
  <2>2. j \in Described(h)
    BY <1>5, <2>1 DEF IsEntry, Described
  <2> QED  BY <1>1, <1>5, <2>1, <2>2 DEF IsEntry
<1>7. i \in FirstEntries(f, name)
  BY <1>5, <1>6 DEF FirstEntries, IsEntry
<1>8. Held(f, name) = [shape |-> h[i].shape, tensor |-> Tensor("Float32", Contents(f, h[i]))]
  BY DEF Held, InMap, TensorMap
<1> QED  BY <1>7, <1>8

LEMMA InMapIsListed ==
    ASSUME NEW f, NEW name
    PROVE  FirstEntries(f, name) # {} => InMap(f, name)
BY DEF FirstEntries, InMap, TensorMap

LEMMA HeldIsFloat32 ==
    ASSUME NEW f, NEW name, InMap(f, name)
    PROVE  IsTensor(Held(f, name).tensor)
BY DEF Held, InMap, TensorMap, IsTensor, IsContents, Tensor, Contents, Unrounded, FloatingPoint

LEMMA CastIsTensor ==
    ASSUME NEW t, IsTensor(t), NEW dtype \in FloatingPoint
    PROVE  IsTensor(Cast(t, dtype)) /\ Cast(t, dtype).dtype = dtype
BY DEF IsTensor, IsContents, Cast, Tensor, FloatingPoint
-----------------------------------------------------------------------------
(* Types. While a load runs, the map holds tensors of its file.              *)
Drawn ==
    /\ parameters = [p \in Parameters |-> parameters[p]]
    /\ running = "load" =>
           /\ file \in Files
           /\ outcome = "open"
           /\ \A n \in DOMAIN tensors : InMap(file, n) /\ tensors[n] = Held(file, n)

Typed == TypeOK /\ Drawn

LEMMA OrderIsTyped ==
    ASSUME NEW i \in 1..Len(Order)
    PROVE  Order[i].path \in Parameters /\ Order[i].name \in STRING
<1> DEFINE Lines == [name : STRING, path : Parameters]
<1>1. Order \in Seq(Lines)
  BY OrderAssumption
<1>2. Order[i] \in Lines
  <2> HIDE DEF Lines
  <2> QED  BY <1>1
<1> QED  BY <1>2

LEMMA InitTyped == Init => Typed
<1> SUFFICES ASSUME Init PROVE Typed
  OBVIOUS
<1>1. \A p \in Parameters : /\ DTypeOf[p] \in FloatingPoint
                            /\ parameters[p].dtype = DTypeOf[p]
                            /\ IsTensor(parameters[p])
  BY DTypeAssumption DEF Init, IsTensor, IsContents, Tensor, Unrounded
<1>2. next \in 1..Len(Order) + 1
  BY OrderAssumption DEF Init
<1>3. parameters = [p \in Parameters |-> parameters[p]]
  BY DEF Init
<1> QED  BY <1>1, <1>2, <1>3 DEF Init, Typed, TypeOK, Drawn

LEMMA ForgottenTyped ==
    ASSUME Typed, NoLoad, running' # "load", running' \in {"nothing", "load", "generate"}
    PROVE  /\ next' \in 1..Len(Order) + 1
           /\ strict' \in BOOLEAN
           /\ tensors' = <<>>
           /\ file' \in Files \cup {None}
           /\ outcome' = "none"
<1>1. 1 \in 1..Len(Order) + 1
  BY OrderAssumption
<1>2. next' = 1 /\ strict' = FALSE /\ tensors' = <<>> /\ file' = None /\ outcome' = "none"
  BY DEF NoLoad
<1> QED  BY <1>1, <1>2

LEMMA ProjectTyped ==
    ASSUME Typed, Project
    PROVE  /\ cache'.source \in Addresses \cup {None}
           /\ cache'.source # None => IsContents(cache'.contents)
<1>1. IsTensor(Weight) /\ storage \in Addresses
  BY EmbeddingAssumption DEF Typed, TypeOK, Weight
<1>2. CASE Weight.dtype # "Float32" /\ ~CacheHit
  <2>1. cache' = [source |-> storage, contents |-> Weight.contents]
    BY <1>2 DEF Project, Cast, Tensor
  <2> QED  BY <1>1, <2>1 DEF IsTensor
<1>3. CASE ~(Weight.dtype # "Float32" /\ ~CacheHit)
  <2>1. cache' = cache
    BY <1>3 DEF Project
  <2> QED  BY <2>1 DEF Typed, TypeOK
<1> QED  BY <1>2, <1>3

LEMMA NextTyped ==
    ASSUME Typed, [Next]_vars
    PROVE  Typed'
<1>1. ASSUME NEW f \in Files, NEW s \in BOOLEAN, BeginLoad(f, s) PROVE Typed'
  <2>1. file' = f /\ strict' = s /\ next' = 1 /\ UNCHANGED <<parameters, storage, cache, kept>>
    BY <1>1 DEF BeginLoad
  <2>2. CASE Accepted(f)
    <3>1. running' = "load" /\ outcome' = "open" /\ tensors' = TensorMap(f)
      BY <1>1, <2>2 DEF BeginLoad
    <3> QED  BY <2>1, <3>1, OrderAssumption DEF Typed, TypeOK, Drawn, Held, InMap
  <2>3. CASE ~Accepted(f)
    <3>1. running' = "nothing" /\ outcome' = "refused" /\ tensors' = <<>>
      BY <1>1, <2>3 DEF BeginLoad
    <3> QED  BY <2>1, <3>1, OrderAssumption DEF Typed, TypeOK, Drawn
  <2> QED  BY <2>2, <2>3
<1>2. ASSUME NEW how \in {"missing", "misshapen", "unexpected", "returned"},
             running = "load", Leaves(how), tensors' = <<>>, UNCHANGED <<parameters, storage>>
      PROVE  Typed'
  BY <1>2 DEF Typed, TypeOK, Drawn, Leaves
<1>3. CASE AssignAbsent
  <2>1. CASE strict
    BY <1>2, <1>3, <2>1 DEF AssignAbsent, Assigning, Throws
  <2>2. CASE ~strict
    <3>1. Skip /\ Assigning
      BY <1>3, <2>2 DEF AssignAbsent
    <3>2. next' \in 1..Len(Order) + 1
      BY <3>1, OrderAssumption DEF Skip, Assigning, Typed, TypeOK
    <3> QED  BY <3>1, <3>2 DEF Skip, Typed, TypeOK, Drawn
  <2> QED  BY <2>1, <2>2
<1>4. CASE AssignMisshapen
  BY <1>2, <1>4 DEF AssignMisshapen, Assigning, Throws
<1>5. CASE AssignTensor
  <2> DEFINE old == parameters[Destination]
             t == Cast(tensors[Name].tensor, old.dtype)
  <2>1. Assigning /\ Name \in DOMAIN tensors
    BY <1>5 DEF AssignTensor
  <2>2. next \in 1..Len(Order) /\ next' \in 1..Len(Order) + 1
    BY <1>5, <2>1, OrderAssumption DEF AssignTensor, Assigning, Typed, TypeOK
  <2>3. Destination \in Parameters
    BY <2>2, OrderIsTyped DEF Destination
  <2>4. IsTensor(old)
    BY <2>3 DEF Typed, TypeOK
  <2>5. IsTensor(tensors[Name].tensor)
    BY <2>1, HeldIsFloat32 DEF Typed, Drawn, Assigning
  <2>6. IsTensor(t) /\ t.dtype = old.dtype
    BY <2>4, <2>5, CastIsTensor DEF IsTensor
  <2>7. parameters' = [parameters EXCEPT ![Destination] = t]
    BY <1>5 DEF AssignTensor
  <2>8. \A p \in Parameters : IsTensor(parameters'[p]) /\ parameters'[p].dtype = parameters[p].dtype
    <3> HIDE DEF t
    <3> QED  BY <2>3, <2>6, <2>7 DEF Typed, TypeOK, Drawn
  <2>9. storage' \in Addresses
    BY <1>5 DEF AssignTensor, Fresh, Typed, TypeOK
  <2>10. /\ UNCHANGED <<cache, kept, running, file, strict, outcome>>
         /\ tensors' = [n \in DOMAIN tensors \ {Name} |-> tensors[n]]
    BY <1>5 DEF AssignTensor
  <2>11. parameters' = [p \in Parameters |-> parameters'[p]]
    <3> HIDE DEF t
    <3> QED  BY <2>7 DEF Typed, Drawn
  <2>12. TypeOK'
    BY <2>1, <2>2, <2>8, <2>9, <2>10 DEF Typed, TypeOK, Assigning
  <2>13. Drawn'
    BY <2>10, <2>11 DEF Typed, Drawn
  <2> QED  BY <2>12, <2>13 DEF Typed
<1>6. CASE EndLoad
  BY <1>2, <1>6 DEF EndLoad, Throws
<1>7. CASE Forward
  BY <1>7, ProjectTyped, ForgottenTyped DEF Forward, Project, Typed, TypeOK, Drawn
<1>8. CASE KeepWeight
  <2>1. IsTensor(Weight) /\ storage \in Addresses
    BY EmbeddingAssumption DEF Typed, TypeOK, Weight
  <2>2. IsTensor(kept') /\ kept'.storage \in Addresses
    BY <1>8, <2>1 DEF KeepWeight, IsTensor
  <2> QED  BY <1>8, <2>2, ForgottenTyped DEF KeepWeight, Typed, TypeOK, Drawn
<1>9. ASSUME NEW t, NEW a \in Addresses, IsTensor(t), Replace(t, a) PROVE Typed'
  <2>1. \A p \in Parameters : parameters'[p] = IF p = Embedding THEN t ELSE parameters[p]
    BY <1>9 DEF Replace, Typed, Drawn
  <2>2. parameters' = [p \in Parameters |-> parameters'[p]]
    BY <1>9 DEF Replace, Typed, Drawn
  <2> QED  BY <1>9, <2>1, <2>2, ForgottenTyped DEF Replace, Typed, TypeOK, Drawn
<1>10. CASE RestoreWeight
  <2>1. /\ IsTensor(Tensor(kept.dtype, kept.contents))
        /\ kept.storage \in Addresses
    BY <1>10 DEF RestoreWeight, Typed, TypeOK, IsTensor, Tensor
  <2> QED  BY <1>9, <1>10, <2>1 DEF RestoreWeight
<1>11. ASSUME NEW dtype \in Assigned, NEW a \in Addresses, ReplaceWeight(dtype, a)
       PROVE  Typed'
  <2>1. IsTensor(Tensor(dtype, Unrounded(<<"caller", 0, dtype>>)))
    BY DTypeAssumption DEF IsTensor, IsContents, Tensor, Unrounded
  <2> QED  BY <1>9, <1>11, <2>1 DEF ReplaceWeight
<1>12. CASE ReverseWeight
  <2> DEFINE t == Tensor(Weight.dtype, Backwards(Weight.contents))
  <2>1. IsTensor(Weight) /\ storage \in Addresses
    BY EmbeddingAssumption DEF Typed, TypeOK, Weight
  <2>2. IsTensor(t)
    BY <2>1 DEF IsTensor, IsContents, Tensor, Backwards
  <2> HIDE DEF t
  <2> QED  BY <1>9, <1>12, <2>1, <2>2 DEF ReverseWeight, t
<1>13. ASSUME NEW length \in Prompts, BeginGenerate(length) PROVE Typed'
  BY <1>13, ForgottenTyped DEF BeginGenerate, Typed, TypeOK, Drawn
<1>14. ASSUME NEW token \in Tokens, GenerateToken(token) PROVE Typed'
  BY <1>14, ProjectTyped DEF GenerateToken, Project, load, Typed, TypeOK, Drawn
<1>15. CASE EndGenerate
  BY <1>15 DEF EndGenerate, load, Typed, TypeOK, Drawn
<1>16. CASE UNCHANGED vars
  BY <1>16 DEF vars, load, Typed, TypeOK, Drawn
<1> QED
  BY <1>1, <1>3, <1>4, <1>5, <1>6, <1>7, <1>8, <1>10, <1>11, <1>13, <1>14, <1>15, <1>16, <1>12 DEF Next

(* A parameter keeps its dtype whatever the checkpoint stores, and no tensor *)
(* of a file outlives the load (load_qwen3_weights()).                       *)
THEOREM TypeCorrect == Spec => []TypeOK
<1>1. Typed => TypeOK
  BY DEF Typed
<1> QED  BY <1>1, InitTyped, NextTyped, PTL DEF Spec
-----------------------------------------------------------------------------
(* Generation.                                                               *)
Bounded ==
    /\ prompt \in Nat
    /\ generated \in Seq(Tokens)
    /\ running = "load" => generated = <<>>
    /\ GenerationIsBounded

LEMMA InitBounded == Init => Bounded
BY BoundsAssumption DEF Init, Bounded, GenerationIsBounded, context

LEMMA NoGenerationBounded ==
    ASSUME NoGeneration
    PROVE  Bounded'
<1>1. prompt' = 0 /\ generated' = <<>>
  BY DEF NoGeneration
<1> QED  BY <1>1, BoundsAssumption DEF Bounded, GenerationIsBounded, context

LEMMA NextBounded ==
    ASSUME Bounded, [Next]_vars
    PROVE  Bounded'
<1>1. ASSUME UNCHANGED generation, running' = running \/ running' = "nothing" PROVE Bounded'
  BY <1>1 DEF generation, Bounded, GenerationIsBounded, context
<1>2. ASSUME NEW length \in Prompts, BeginGenerate(length) PROVE Bounded'
  <2>1. prompt' = length /\ generated' = <<>> /\ length \in Nat /\ running' = "generate"
    BY <1>2, BoundsAssumption DEF BeginGenerate
  <2> QED  BY <2>1, BoundsAssumption DEF Bounded, GenerationIsBounded, context
<1>3. ASSUME NEW token \in Tokens, GenerateToken(token) PROVE Bounded'
  <2>1. /\ running = "generate" /\ HasRoom /\ prompt' = prompt
        /\ generated' = Append(generated, token)
        /\ running' = IF token = "eos" THEN "nothing" ELSE "generate"
    BY <1>3 DEF GenerateToken
  <2>2. /\ generated' \in Seq(Tokens)
        /\ Len(generated') = Len(generated) + 1
        /\ Len(generated) \in Nat
        /\ \A i \in 1..Len(generated) : generated'[i] = generated[i]
        /\ generated'[Len(generated) + 1] = token
    BY <2>1 DEF Bounded
  <2>3. Len(generated') <= MaxNewTokens /\ context' <= MaxPositions
    BY <2>1, <2>2, BoundsAssumption DEF HasRoom, context, Bounded
  <2>4. \A i \in 1..Len(generated') :
           generated'[i] = "eos" => i = Len(generated') /\ running' # "generate"
    <3> SUFFICES ASSUME NEW i \in 1..Len(generated'), generated'[i] = "eos"
                 PROVE  i = Len(generated') /\ running' # "generate"
      OBVIOUS
    <3>1. CASE i \in 1..Len(generated)
      BY <2>1, <2>2, <3>1 DEF Bounded, GenerationIsBounded
    <3>2. CASE i = Len(generated) + 1
      BY <2>1, <2>2, <3>2
    <3> QED  BY <2>2, <3>1, <3>2
  <2> QED  BY <2>1, <2>2, <2>3, <2>4 DEF Bounded, GenerationIsBounded
<1>4. CASE \E f \in Files, s \in BOOLEAN : BeginLoad(f, s)
  BY <1>4, NoGenerationBounded DEF BeginLoad
<1>5. CASE Forward \/ KeepWeight \/ RestoreWeight \/ ReverseWeight
           \/ \E dtype \in Assigned, a \in Addresses : ReplaceWeight(dtype, a)
  BY <1>5, NoGenerationBounded
  DEF Forward, KeepWeight, RestoreWeight, ReverseWeight, ReplaceWeight, Replace
<1>6. CASE AssignAbsent \/ AssignMisshapen \/ AssignTensor \/ EndLoad
  BY <1>1, <1>6 DEF AssignAbsent, AssignMisshapen, AssignTensor, EndLoad, Throws, Leaves, Skip
<1>7. CASE EndGenerate
  BY <1>1, <1>7 DEF EndGenerate
<1>8. CASE UNCHANGED vars
  BY <1>1, <1>8 DEF vars
<1> QED  BY <1>2, <1>3, <1>4, <1>5, <1>6, <1>7, <1>8 DEF Next

(* generate() stays within the positions of the model and the tokens asked   *)
(* for, and nothing follows the end of the sequence.                         *)
THEOREM GenerationTerminatesInBounds == Spec => []GenerationIsBounded
<1>1. Bounded => GenerationIsBounded
  BY DEF Bounded
<1> QED  BY <1>1, InitBounded, NextBounded, PTL DEF Spec

-----------------------------------------------------------------------------
(* The list of assignments is right: it names every parameter once, by its   *)
(* own name. That is what the code leaves to whoever writes the list; the    *)
(* theorems below say that nothing else is needed.                           *)
ListIsRight ==
    /\ \A i \in 1..Len(Order) : Order[i].name = NameOf[Order[i].path]
    /\ \A i, j \in 1..Len(Order) :
          i # j => Order[i].path # Order[j].path /\ Order[i].name # Order[j].name
    /\ \A p \in Parameters : \E i \in 1..Len(Order) : Order[i].path = p

(* The parameters after n assignments.                                       *)
Taken(i) ==
    LET p == Order[i].path
        held == Held(file, Order[i].name)
    IN  held.shape = ShapeOf[p] /\ parameters[p] = Cast(held.tensor, before[p].dtype)

Upto(n) ==
    \A i \in 1..Len(Order) :
        IF i <= n /\ InMap(file, Order[i].name) THEN Taken(i)
        ELSE parameters[Order[i].path] = before[Order[i].path]

AllIn(n) == strict => \A i \in 1..n : InMap(file, Order[i].name)

Midway ==
    running = "load" =>
        /\ Upto(next - 1)
        /\ AllIn(next - 1)
        /\ DOMAIN tensors = DOMAIN TensorMap(file) \ {Order[i].name : i \in 1..next - 1}

Ended ==
    /\ outcome \in {"returned", "unexpected"} => Upto(Len(Order)) /\ AllIn(Len(Order))
    /\ outcome = "refused" => Upto(0)
    /\ outcome \in {"missing", "misshapen"} => \E n \in 0..Len(Order) : Upto(n)
    /\ outcome \notin {"none", "open"} => file \in Files
    /\ outcome = "open" => running = "load"

Progress == Typed /\ Midway /\ Ended

LEMMA InitProgress == Init => Progress
BY InitTyped DEF Init, Progress, Midway, Ended

(* One assignment moves the border between new and old by one.               *)
LEMMA UptoNext ==
    ASSUME ListIsRight, Progress, AssignTensor
    PROVE  Upto(next - 1)'
<1> DEFINE old == parameters[Destination]
           held == Held(file, Name)
           t == Cast(held.tensor, old.dtype)
<1>1. Assigning /\ Name \in DOMAIN tensors /\ tensors[Name].shape = ShapeOf[Destination]
  BY DEF AssignTensor
<1>2. next \in 1..Len(Order) /\ next' = next + 1 /\ UNCHANGED <<file, before>>
  BY <1>1, OrderAssumption DEF AssignTensor, Assigning, Progress, Typed, TypeOK
<1>3. Destination \in Parameters
  BY <1>2, OrderIsTyped DEF Destination
<1>4. InMap(file, Name) /\ tensors[Name] = held
  BY <1>1 DEF Assigning, Progress, Typed, Drawn
<1>5. Upto(next - 1)
  BY <1>1 DEF Progress, Midway, Assigning
<1>6. old = before[Destination]
  BY <1>2, <1>5 DEF Upto, Destination
<1>7. parameters' = [parameters EXCEPT ![Destination] = t]
  BY <1>4 DEF AssignTensor
<1>8. \A p \in Parameters : parameters'[p] = IF p = Destination THEN t ELSE parameters[p]
  <2> HIDE DEF t
  <2> QED  BY <1>7 DEF Progress, Typed, Drawn
<1>9. ASSUME NEW i \in 1..Len(Order)
      PROVE  IF i <= next' - 1 /\ InMap(file, Order[i].name) THEN Taken(i)'
             ELSE parameters'[Order[i].path] = before[Order[i].path]
  <2>1. CASE i = next
    BY <1>1, <1>2, <1>3, <1>4, <1>6, <1>8, <2>1 DEF Taken, Destination, Name
  <2>2. CASE i # next
    <3>1. Order[i].path \in Parameters /\ Order[i].path # Destination
      BY <1>2, <2>2, OrderIsTyped DEF ListIsRight, Destination
    <3>2. parameters'[Order[i].path] = parameters[Order[i].path]
      BY <1>8, <3>1
    <3>3. i <= next' - 1 <=> i <= next - 1
      BY <1>2, <2>2
    <3>4. Taken(i)' <=> Taken(i)
      BY <1>2, <3>2 DEF Taken, Held
    <3> QED  BY <1>5, <3>2, <3>3, <3>4 DEF Upto
  <2> QED  BY <2>1, <2>2
<1> QED  BY <1>2, <1>9 DEF Upto, InMap

LEMMA UptoSame ==
    ASSUME UNCHANGED <<parameters, before, file>>, NEW n \in Nat
    PROVE  Upto(n)' <=> Upto(n)
BY DEF Upto, Taken, Held, InMap

LEMMA NextProgress ==
    ASSUME ListIsRight, Progress, [Next]_vars
    PROVE  Progress'
<1>1. Typed'
  BY NextTyped DEF Progress
<1>2. Len(Order) \in Nat /\ next \in 1..Len(Order) + 1
  BY OrderAssumption DEF Progress, Typed, TypeOK
<1>3. ASSUME NEW f \in Files, NEW s \in BOOLEAN, BeginLoad(f, s) PROVE Progress'
  <2>1. /\ file' = f /\ next' = 1 /\ before' = parameters /\ parameters' = parameters
        /\ \/ running' = "load" /\ outcome' = "open" /\ tensors' = TensorMap(f)
           \/ running' = "nothing" /\ outcome' = "refused"
    BY <1>3 DEF BeginLoad
  <2>2. Upto(0)'
    <3>1. \A i \in 1..Len(Order) : ~(i <= 0)
      BY <1>2
    <3> QED  BY <2>1, <3>1 DEF Upto
  <2>3. next' - 1 = 0 /\ 1..0 = {}
    BY <2>1
  <2>4. Midway'
    <3>1. Upto(next - 1)'
      BY <2>2, <2>3 DEF Upto
    <3>2. \A i \in 1..next' - 1 : FALSE
      BY <2>3
    <3>3. AllIn(next - 1)'
      BY <3>2 DEF AllIn
    <3>4. {Order[i].name : i \in 1..next' - 1} = {}
      BY <3>2
    <3> QED  BY <2>1, <3>1, <3>3, <3>4 DEF Midway
  <2> QED  BY <1>1, <2>1, <2>2, <2>4 DEF Progress, Ended
<1>4. ASSUME running = "load", NEW how, Leaves(how), UNCHANGED <<parameters, storage>>,
             how \in {"missing", "misshapen"}
             \/ (how \in {"unexpected", "returned"} /\ next = Len(Order) + 1)
      PROVE  Progress'
  <2>1. /\ outcome' = how /\ running' = "nothing"
        /\ UNCHANGED <<parameters, before, file, strict, next>>
    BY <1>4 DEF Leaves
  <2>2. Upto(next - 1) /\ AllIn(next - 1) /\ file \in Files
    BY <1>4 DEF Progress, Midway, Typed, Drawn
  <2>3. PICK n \in 0..Len(Order) : n = next - 1
    BY <1>2
  <2>4. Upto(n)' /\ AllIn(n)'
    <3>1. Upto(n) /\ AllIn(n)
      BY <2>2, <2>3
    <3>2. Upto(n)'
      BY <1>2, <2>1, <3>1, UptoSame
    <3> QED  BY <2>1, <3>1, <3>2 DEF AllIn, InMap
  <2>5. CASE how \in {"missing", "misshapen"}
    <3>1. \E k \in 0..Len(Order) : Upto(k)'
      BY <2>4
    <3> QED  BY <1>1, <2>1, <2>2, <2>5, <3>1 DEF Progress, Midway, Ended
  <2>6. CASE how \in {"unexpected", "returned"} /\ next = Len(Order) + 1
    <3>1. n = Len(Order)
      BY <1>2, <2>3, <2>6
    <3>2. Upto(Len(Order))' /\ AllIn(Len(Order))'
      BY <2>4, <3>1
    <3> QED  BY <1>1, <2>1, <2>2, <2>6, <3>2 DEF Progress, Midway, Ended
  <2> QED  BY <1>4, <2>5, <2>6
<1>5. CASE AssignAbsent
  <2>1. CASE strict
    BY <1>4, <1>5, <2>1 DEF AssignAbsent, Assigning, Throws
  <2>2. CASE ~strict
    <3>1. /\ Assigning /\ Name \notin DOMAIN tensors /\ next' = next + 1
          /\ UNCHANGED <<parameters, running, file, strict, tensors, before, outcome>>
      BY <1>5, <2>2 DEF AssignAbsent, Skip
    <3>2. next \in 1..Len(Order)
      BY <1>2, <3>1 DEF Assigning
    <3>3. ~InMap(file, Name)
      <4>1. \A i \in 1..next - 1 : Order[i].name # Name
        BY <3>2 DEF ListIsRight, Name
      <4> QED  BY <3>1, <4>1 DEF Progress, Midway, Assigning, InMap
    <3>4. Upto(next)
      <4>1. \A i \in 1..Len(Order) : i <= next /\ i # next => i <= next - 1
        BY <3>2
      <4>2. Upto(next - 1)
        BY <3>1 DEF Progress, Midway, Assigning
      <4>3. \A i \in 1..Len(Order) : i <= next - 1 => i <= next
        BY <3>2
      <4> QED  BY <3>3, <4>1, <4>2, <4>3 DEF Upto, Name
    <3>5. next' - 1 = next
      BY <3>1, <3>2
    <3>6. DOMAIN tensors' = DOMAIN TensorMap(file) \ {Order[i].name : i \in 1..next}
      BY <3>1, <3>2, <3>3 DEF Progress, Midway, Assigning, InMap, Name
    <3>7. Upto(next - 1)'
      <4>1. PICK n \in Nat : n = next
        BY <3>2
      <4>2. Upto(n)'
        BY <3>1, <3>4, <4>1, UptoSame
      <4> QED  BY <3>5, <4>1, <4>2 DEF Upto
    <3> QED  BY <1>1, <2>2, <3>1, <3>5, <3>6, <3>7 DEF Progress, Midway, Ended, AllIn, Typed, Drawn, Assigning
  <2> QED  BY <2>1, <2>2
<1>6. CASE AssignMisshapen
  BY <1>4, <1>6 DEF AssignMisshapen, Assigning, Throws
<1>7. CASE AssignTensor
  <2>1. /\ Assigning /\ Name \in DOMAIN tensors /\ next' = next + 1
        /\ tensors' = [n \in DOMAIN tensors \ {Name} |-> tensors[n]]
        /\ UNCHANGED <<running, file, strict, before, outcome>>
    BY <1>7 DEF AssignTensor
  <2>2. next \in 1..Len(Order) /\ next' - 1 = next
    BY <1>2, <2>1 DEF Assigning
  <2>3. Upto(next - 1)'
    BY <1>7, UptoNext
  <2>4. AllIn(next)
    <3>1. \A i \in 1..next : i # next => i \in 1..next - 1
      BY <2>2
    <3>2. AllIn(next - 1) /\ InMap(file, Name)
      BY <2>1 DEF Progress, Midway, Typed, Drawn, Assigning
    <3> QED  BY <3>1, <3>2 DEF AllIn, Name
  <2>5. DOMAIN tensors' = DOMAIN TensorMap(file) \ {Order[i].name : i \in 1..next}
    BY <2>1, <2>2 DEF Progress, Midway, Assigning, Name
  <2> QED
    BY <1>1, <2>1, <2>2, <2>3, <2>4, <2>5
    DEF Progress, Midway, Ended, AllIn, InMap, Typed, Drawn, Assigning
<1>8. CASE EndLoad
  <2>1. next = Len(Order) + 1
    BY <1>2, <1>8 DEF EndLoad
  <2> QED  BY <1>4, <1>8, <2>1 DEF EndLoad, Throws
<1>9. ASSUME NoLoad, running' # "load" PROVE Progress'
  BY <1>1, <1>9 DEF NoLoad, Progress, Midway, Ended
<1>10. CASE Forward \/ KeepWeight \/ RestoreWeight \/ ReverseWeight
            \/ (\E dtype \in Assigned, a \in Addresses : ReplaceWeight(dtype, a))
            \/ (\E length \in Prompts : BeginGenerate(length))
  BY <1>9, <1>10
  DEF Forward, KeepWeight, RestoreWeight, ReverseWeight, ReplaceWeight, Replace, BeginGenerate
<1>11. ASSUME UNCHANGED <<parameters, load>>, running' # "load", running # "load" PROVE Progress'
  <2>1. UNCHANGED <<parameters, before, file, strict, outcome>>
    BY <1>11 DEF load
  <2>2. Ended'
    <3>1. \A n \in 0..Len(Order) : Upto(n)' <=> Upto(n)
      BY <2>1, UptoSame
    <3>2. AllIn(Len(Order))' <=> AllIn(Len(Order))
      BY <2>1 DEF AllIn, InMap
    <3>3. Len(Order) \in 0..Len(Order) /\ 0 \in 0..Len(Order)
      BY <1>2
    <3> QED  BY <1>11, <2>1, <3>1, <3>2, <3>3 DEF Progress, Ended
  <2> QED  BY <1>1, <1>11, <2>2 DEF Progress, Midway
<1>12. CASE EndGenerate \/ \E token \in Tokens : GenerateToken(token)
  BY <1>11, <1>12 DEF EndGenerate, GenerateToken, Project
<1>13. CASE UNCHANGED vars
  <2>1. UNCHANGED <<parameters, before, file, strict, outcome, running, next, tensors>>
    BY <1>13 DEF vars, load
  <2> QED  BY <1>1, <2>1 DEF Progress, Midway, Ended, Upto, Taken, Held, InMap, AllIn
<1> QED  BY <1>3, <1>5, <1>6, <1>7, <1>8, <1>10, <1>12, <1>13 DEF Next

LEMMA InFileIsInMap ==
    ASSUME NEW p, file \in Files
    PROVE  InFile(p) <=> InMap(file, NameOf[p])
BY HeldIsFirst, InMapIsListed DEF InFile

LEMMA TakenIsFromFile ==
    ASSUME ListIsRight, NEW i \in 1..Len(Order), file \in Files,
           InMap(file, Order[i].name), Taken(i)
    PROVE  FromFile(Order[i].path)
<1>1. Order[i].name = NameOf[Order[i].path]
  BY DEF ListIsRight
<1>2. PICK k \in FirstEntries(file, NameOf[Order[i].path]) :
         Held(file, Order[i].name)
             = [shape |-> file.header[k].shape,
                tensor |-> Tensor("Float32", Contents(file, file.header[k]))]
  BY <1>1, HeldIsFirst
<1> QED  BY <1>2 DEF FromFile, Taken

LEMMA UptoIsFromFile ==
    ASSUME ListIsRight, NEW n \in Nat, Upto(n), file \in Files, NEW i \in 1..Len(Order)
    PROVE  LET p == Order[i].path
           IN  IF i <= n /\ InFile(p) THEN FromFile(p) ELSE parameters[p] = before[p]
<1>1. InFile(Order[i].path) <=> InMap(file, Order[i].name)
  BY InFileIsInMap DEF ListIsRight
<1> QED  BY <1>1, TakenIsFromFile DEF Upto

LEMMA ProgressIsEnough ==
    ASSUME ListIsRight, Progress
    PROVE  StrictLoadIsComplete /\ AbsentParametersAreKept /\ ExceptionLeavesAPrefix
<1>1. Len(Order) \in Nat
  BY OrderAssumption
<1>2. AbsentParametersAreKept
  <2> SUFFICES ASSUME outcome = "returned", NEW p \in Parameters
               PROVE  IF InFile(p) THEN FromFile(p) ELSE parameters[p] = before[p]
    BY DEF AbsentParametersAreKept
  <2>1. PICK i \in 1..Len(Order) : Order[i].path = p
    BY DEF ListIsRight
  <2>2. Upto(Len(Order)) /\ file \in Files
    BY DEF Progress, Ended
  <2>3. i <= Len(Order)
    BY <1>1
  <2> QED  BY <1>1, <2>1, <2>2, <2>3, UptoIsFromFile
<1>3. StrictLoadIsComplete
  <2> SUFFICES ASSUME outcome = "returned", strict, NEW p \in Parameters
               PROVE  FromFile(p)
    BY DEF StrictLoadIsComplete
  <2>1. PICK i \in 1..Len(Order) : Order[i].path = p
    BY DEF ListIsRight
  <2>2. AllIn(Len(Order)) /\ file \in Files
    BY DEF Progress, Ended
  <2>3. InMap(file, NameOf[p])
    BY <2>1, <2>2 DEF AllIn, ListIsRight
  <2>4. InFile(p)
    BY <2>2, <2>3, InFileIsInMap
  <2> QED  BY <1>2, <2>4 DEF AbsentParametersAreKept
<1>4. ExceptionLeavesAPrefix
  <2> SUFFICES ASSUME outcome \in {"refused", "missing", "misshapen", "unexpected"}
               PROVE  \E n \in 0..Len(Order) :
                          /\ outcome = "refused" => n = 0
                          /\ outcome = "unexpected" => n = Len(Order)
                          /\ \A i \in 1..Len(Order) :
                                 LET p == Order[i].path
                                 IN  IF i <= n /\ InFile(p) THEN FromFile(p)
                                     ELSE parameters[p] = before[p]
    BY DEF ExceptionLeavesAPrefix
  <2>1. \E n \in 0..Len(Order) : /\ outcome = "refused" => n = 0
                                 /\ outcome = "unexpected" => n = Len(Order)
                                 /\ Upto(n)
    BY <1>1 DEF Progress, Ended
  <2>2. file \in Files
    BY DEF Progress, Ended
  <2> QED  BY <2>1, <2>2, UptoIsFromFile
<1> QED  BY <1>2, <1>3, <1>4

(* If the list of assignments is right, a strict load that returns has given *)
(* every parameter the checkpoint's tensor of its name.                      *)
THEOREM StrictLoads == ASSUME ListIsRight PROVE Spec => []StrictLoadIsComplete
<1>1. Init => Progress
  BY InitProgress
<1>2. Progress /\ [Next]_vars => Progress'
  BY NextProgress
<1>3. Progress => StrictLoadIsComplete
  BY ProgressIsEnough
<1> QED  BY <1>1, <1>2, <1>3, PTL DEF Spec

(* A load that returns keeps the parameters its file does not have, and them *)
(* only.                                                                     *)
THEOREM LenientLoads == ASSUME ListIsRight PROVE Spec => []AbsentParametersAreKept
<1>1. Init => Progress
  BY InitProgress
<1>2. Progress /\ [Next]_vars => Progress'
  BY NextProgress
<1>3. Progress => AbsentParametersAreKept
  BY ProgressIsEnough
<1> QED  BY <1>1, <1>2, <1>3, PTL DEF Spec

(* A load that throws leaves the parameters new up to one line of the list   *)
(* and old behind it, and all of them old if it cannot read the file.        *)
THEOREM FailedLoads == ASSUME ListIsRight PROVE Spec => []ExceptionLeavesAPrefix
<1>1. Init => Progress
  BY InitProgress
<1>2. Progress /\ [Next]_vars => Progress'
  BY NextProgress
<1>3. Progress => ExceptionLeavesAPrefix
  BY ProgressIsEnough
<1> QED  BY <1>1, <1>2, <1>3, PTL DEF Spec
=============================================================================
