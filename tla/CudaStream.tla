----------------------------- MODULE CudaStream -----------------------------
(***************************************************************************)
(* The asynchronous CUDA backend on one device: host threads enqueue       *)
(* allocations, copies, kernels and frees on the stream of the device's    *)
(* execution context and go on; the device executes a stream's commands in *)
(* order, at some later time. Memory is owned by storages (CudaAllocation, *)
(* shared by tensors) and by the scratch allocations of operations.        *)
(*                                                                         *)
(* Every CUDA call of an operation is one action here, so the commands of  *)
(* operations in different threads interleave in the stream.               *)
(***************************************************************************)
EXTENDS Naturals, Sequences, SequencesExt

CONSTANTS
    Threads, Names, Undefined, Nothing,   \* as in EagerDevice
    Contexts,     \* CudaExecutionContext objects, each with a stream of its own
    Storages,     \* CudaAllocation objects (bounds how many live at a time)
    Addresses,    \* blocks of device memory, all of one size
    None,         \* a null pointer
    Uploads,      \* the values callers upload (a bound)
    MaxQueue,     \* commands a stream holds before its callers block (a bound)
    MayFail       \* can a launch fail?

ASSUME NoneAssumption == None \notin Contexts \cup Storages \cup Addresses
ASSUME ContextsAssumption == Contexts # {}
ASSUME UndefinedAssumption == Undefined \notin 0..2
ASSUME UploadsAssumption == Uploads \subseteq 0..2
ASSUME MaxQueueAssumption == MaxQueue \in Nat \ {0}
ASSUME MayFailAssumption == MayFail \in BOOLEAN

VARIABLES
    registry,   \* contexts[device_index] of cuda_execution_context()
    context,    \* the context_ of the device object thread t uses
    queue,      \* commands a stream has not executed
    address,    \* address[s]: the data_ of storage s, None when it does not exist
    origin,     \* origin[s]: its context_
    memory,     \* what the device's memory holds
    resident,   \* resident[a]: the allocation the device has at address a
    handle,     \* handle[t][x]: the storage of Tensor variable x
    pc,         \* where thread t is in its operation
    op,         \* which operation that is: kind, operands x and y, result d, value
    out, scratch,   \* its locals: the output storage, the metadata or flag
    awaiting,   \* commands in front of a thread that synchronizes
    host        \* host[t]: the host memory that copies of thread t go to

registered == <<registry, context>>
device == <<queue, address, origin, memory, resident>>
local == <<pc, op, out, scratch, awaiting>>
vars == <<registry, context, queue, address, origin, memory, resident, handle,
          pc, op, out, scratch, awaiting, host>>

Values == 0..2
Garbage == 3
OutOfRange == 2
Combine(a, b) == IF Garbage \in {a, b} THEN Garbage ELSE (2 * a + b + 1) % 3

-----------------------------------------------------------------------------
(* Streams                                                                   *)

Allocate(s) == [kind |-> "allocate", to |-> s]
Free(s) == [kind |-> "free", to |-> s]
Store(s, value) == [kind |-> "store", to |-> s, value |-> value]
Kernel(kind, s, x, y, extra) == [kind |-> kind, to |-> s, x |-> x, y |-> y, extra |-> extra]
Load(s, t) == [kind |-> "load", x |-> s, by |-> t]

\* The allocations a command reads or writes.
Touched(command) ==
    CASE command.kind \in {"allocate"} -> {}
      [] command.kind \in {"free", "store"} -> {command.to}
      [] command.kind = "load" -> {command.x}
      [] command.kind = "clone" -> {command.to, command.x}
      [] OTHER -> {command.to, command.x, command.y, command.extra}

\* What a command does to device memory.
Effect(m, command) ==
    LET at(s) == m[address[s]]
        write(s, value) == [m EXCEPT ![address[s]] = value]
    IN  CASE command.kind \in {"allocate", "free"} -> write(command.to, Garbage)
          [] command.kind = "store" -> write(command.to, command.value)
          [] command.kind = "clone" -> write(command.to, at(command.x))
          [] command.kind = "broadcast" ->
                write(command.to, IF at(command.extra) = 0
                                  THEN Combine(at(command.x), at(command.y)) ELSE Garbage)
          [] command.kind = "gather" ->
                IF at(command.y) = OutOfRange THEN write(command.extra, 1)
                ELSE write(command.to, Combine(at(command.x), at(command.y)))
          [] OTHER -> m

\* A stream executes its next command. Executing a free returns the memory.
Execute(c) ==
    /\ queue[c] # <<>>
    /\ LET command == Head(queue[c])
       IN  /\ memory' = Effect(memory, command)
           /\ resident' =
                CASE command.kind = "allocate" -> [resident EXCEPT ![address[command.to]] = command.to]
                  [] command.kind = "free" -> [resident EXCEPT ![address[command.to]] = None]
                  [] OTHER -> resident
           /\ address' = IF command.kind = "free" THEN [address EXCEPT ![command.to] = None]
                         ELSE address
           /\ host' = IF command.kind = "load"
                      THEN [host EXCEPT ![command.by] = memory[address[command.x]]] ELSE host
    /\ queue' = [queue EXCEPT ![c] = Tail(@)]
    /\ awaiting' = [t \in Threads |-> IF awaiting[t] > 0 /\ context[t] = c
                                      THEN awaiting[t] - 1 ELSE awaiting[t]]
    /\ UNCHANGED <<registered, origin, handle, pc, op, out, scratch>>

Enqueue(c, command) ==
    /\ Len(queue[c]) < MaxQueue
    /\ queue' = [queue EXCEPT ![c] = Append(@, command)]

\* cudaMallocAsync hands out memory that is free, or that an earlier command of
\* the same stream frees.
Queued(c, command) == \E i \in 1..Len(queue[c]) : queue[c][i] = command
Available(c) ==
    {a \in Addresses : \A s \in Storages : address[s] = a => Queued(c, Free(s))}

\* CudaAllocation(): a new allocation on the thread's stream. Which object it
\* is makes no difference.
Unused == {s \in Storages : address[s] = None}
NewObject == CHOOSE s \in Storages : s \in Unused
NewAllocation(t) ==
    /\ Unused # {}
    /\ \E a \in Available(context[t]) : address' = [address EXCEPT ![NewObject] = a]
    /\ origin' = [origin EXCEPT ![NewObject] = context[t]]
    /\ Enqueue(context[t], Allocate(NewObject))

\* Mutant: reset() frees the memory at once, with cudaFree().
Reset_AtOnce(s) ==
    /\ address' = [address EXCEPT ![s] = None]
    /\ resident' = [resident EXCEPT ![address[s]] = None]
    /\ UNCHANGED <<queue, origin, memory>>

\* CudaAllocation::reset(): the free takes its place behind every queued use.
Reset(s) ==
    /\ Enqueue(origin[s], Free(s))
    /\ UNCHANGED <<address, origin, memory, resident>>

\* A Tensor variable is overwritten; the last one destroys the storage.
References(s) == {v \in Threads \X Names : handle[v[1]][v[2]] = s}
Overwrite(t, d, s) ==
    /\ handle' = [handle EXCEPT ![t][d] = s]
    /\ IF handle[t][d] # None /\ References(handle[t][d]) = {<<t, d>>} /\ s # handle[t][d]
       THEN Reset(handle[t][d])
       ELSE UNCHANGED device

-----------------------------------------------------------------------------
(* Host threads                                                              *)

Init ==
    /\ registry = None
    /\ context = [t \in Threads |-> None]
    /\ queue = [c \in Contexts |-> <<>>]
    /\ address = [s \in Storages |-> None]
    /\ origin = [s \in Storages |-> None]
    /\ memory = [a \in Addresses |-> Garbage]
    /\ resident = [a \in Addresses |-> None]
    /\ handle = [t \in Threads |-> [x \in Names |-> None]]
    /\ pc = [t \in Threads |-> "idle"]
    /\ op = [t \in Threads |-> None]
    /\ out = [t \in Threads |-> None]
    /\ scratch = [t \in Threads |-> None]
    /\ awaiting = [t \in Threads |-> 0]
    /\ host = [t \in Threads |-> Garbage]

Goto(t, label) == pc' = [pc EXCEPT ![t] = label]

Operations(t) ==
    LET defined == {x \in Names : handle[t][x] # None}
    IN  [kind : {"upload"}, d : Names, value : Uploads]
        \cup [kind : {"clone"}, x : defined, d : Names]
        \cup [kind : {"broadcast", "gather"}, x : defined, y : defined, d : Names]
        \cup [kind : {"read"}, x : defined]

\* A call ends, and with it its locals.
End(t) ==
    /\ pc' = [pc EXCEPT ![t] = "idle"]
    /\ op' = [op EXCEPT ![t] = None]
    /\ out' = [out EXCEPT ![t] = None]
    /\ context' = [context EXCEPT ![t] = None]
    /\ host' = [host EXCEPT ![t] = Garbage]

FirstStep(kind) == IF kind = "read" THEN "load" ELSE "output"

\* A call begins: the context is looked up under the shared lock.
Begin(t) ==
    /\ pc[t] = "idle"
    /\ \E o \in Operations(t) :
        /\ op' = [op EXCEPT ![t] = o]
        /\ Goto(t, IF registry = None THEN "creating" ELSE FirstStep(o.kind))
    /\ context' = [context EXCEPT ![t] = registry]
    /\ UNCHANGED <<registry, device, handle, out, scratch, awaiting, host>>

\* Which object the new context is makes no difference.
NewContext == CHOOSE c \in Contexts : \A t \in Threads : context[t] # c

\* Mutant: the context is created although another thread was faster.
FoundOrCreated_Unchecked == NewContext

\* Under the exclusive lock the registry is searched again.
FoundOrCreated == IF registry # None THEN registry ELSE NewContext
CreateContext(t) ==
    /\ pc[t] = "creating"
    /\ registry' = FoundOrCreated
    /\ context' = [context EXCEPT ![t] = FoundOrCreated]
    /\ Goto(t, FirstStep(op[t].kind))
    /\ UNCHANGED <<device, handle, op, out, scratch, awaiting, host>>

\* empty(): the storage of the result.
AllocateOutput(t) ==
    /\ pc[t] = "output"
    /\ NewAllocation(t)
    /\ out' = [out EXCEPT ![t] = NewObject]
    /\ Goto(t, IF op[t].kind \in {"broadcast", "gather"} THEN "scratch" ELSE "launch")
    /\ UNCHANGED <<registered, memory, resident, handle, op, scratch, awaiting, host>>

\* The metadata of a broadcast, the invalid_index flag of gather_rows.
AllocateScratch(t) ==
    /\ pc[t] = "scratch"
    /\ NewAllocation(t)
    /\ scratch' = [scratch EXCEPT ![t] = NewObject]
    /\ Goto(t, "prepare")
    /\ UNCHANGED <<registered, memory, resident, handle, op, out, awaiting, host>>

\* cudaMallocAsync fails when no memory is left.
AllocationFails(t) ==
    /\ pc[t] \in {"output", "scratch"}
    /\ Available(context[t]) = {}
    /\ Goto(t, "unwinding")
    /\ UNCHANGED <<registered, device, handle, op, out, scratch, awaiting, host>>

\* The source of this copy is pageable host memory, which CUDA reads before it
\* returns; so the copy does not depend on the vector or local it is made from.
\* That of gather_rows is the zero that the flag is later copied back to.
Prepare(t) ==
    /\ pc[t] = "prepare"
    /\ Enqueue(context[t], Store(scratch[t], 0))
    /\ host' = [host EXCEPT ![t] = IF op[t].kind = "gather" THEN 0 ELSE @]
    /\ Goto(t, "launch")
    /\ UNCHANGED <<registered, address, origin, memory, resident, handle, op, out, scratch,
                   awaiting>>

Launch(t) ==
    LET o == op[t]
    IN  /\ pc[t] = "launch"
        /\ \/ /\ o.kind = "upload"
              /\ Enqueue(context[t], Store(out[t], o.value))
              /\ awaiting' = [awaiting EXCEPT ![t] = Len(queue[context[t]]) + 1]
              /\ Goto(t, "synchronizing")
           \/ /\ o.kind = "clone"
              /\ Enqueue(context[t], Kernel("clone", out[t], handle[t][o.x], None, None))
              /\ Goto(t, "returning")
              /\ UNCHANGED awaiting
           \/ /\ o.kind \in {"broadcast", "gather"}
              /\ Enqueue(context[t],
                         Kernel(o.kind, out[t], handle[t][o.x], handle[t][o.y], scratch[t]))
              /\ Goto(t, IF o.kind = "gather" THEN "load" ELSE "releasing")
              /\ UNCHANGED awaiting
        /\ UNCHANGED <<registered, address, origin, memory, resident, handle, op, out, scratch,
                       host>>

LaunchFails(t) ==
    /\ MayFail
    /\ pc[t] = "launch"
    /\ Goto(t, "unwinding")
    /\ UNCHANGED <<registered, device, handle, op, out, scratch, awaiting, host>>

\* copy_to_host_async(), then synchronize(): wait for what is queued by now.
CopyToHost(t) ==
    /\ pc[t] = "load"
    /\ Enqueue(context[t], Load(IF op[t].kind = "read" THEN handle[t][op[t].x] ELSE scratch[t], t))
    /\ awaiting' = [awaiting EXCEPT ![t] = Len(queue[context[t]]) + 1]
    /\ Goto(t, "synchronizing")
    /\ UNCHANGED <<registered, address, origin, memory, resident, handle, op, out, scratch,
                   host>>

\* Mutant: gather_rows looks at its flag without waiting for the copy.
Synchronized_ReadsFlagEarly(t) ==
    /\ pc[t] = "synchronizing"
    /\ awaiting[t] = 0 \/ op[t].kind = "gather"
    /\ Goto(t, CASE op[t].kind = "upload" -> "returning"
                 [] op[t].kind = "read" -> "observing"
                 [] op[t].kind = "gather" -> IF host[t] = 0 THEN "releasing" ELSE "refusing")
    /\ UNCHANGED <<registered, device, handle, op, out, scratch, awaiting, host>>

\* cudaStreamSynchronize() returns; gather_rows throws when its flag is set.
Synchronized(t) ==
    /\ pc[t] = "synchronizing"
    /\ awaiting[t] = 0
    /\ Goto(t, CASE op[t].kind = "upload" -> "returning"
                 [] op[t].kind = "read" -> "observing"
                 [] op[t].kind = "gather" -> IF host[t] = 0 THEN "releasing" ELSE "refusing")
    /\ UNCHANGED <<registered, device, handle, op, out, scratch, awaiting, host>>

\* The value is on the host: copy_to_host() has returned and the caller reads it.
Observed(t) ==
    /\ pc[t] = "observing"
    /\ End(t)
    /\ UNCHANGED <<registry, device, handle, scratch, awaiting>>

\* The scratch allocation goes out of scope.
ReleaseScratch(t) ==
    /\ pc[t] \in {"releasing", "unwinding", "refusing"}
    /\ scratch[t] # None
    /\ Reset(scratch[t])
    /\ scratch' = [scratch EXCEPT ![t] = None]
    /\ Goto(t, IF pc[t] = "releasing" THEN "returning" ELSE pc[t])
    /\ UNCHANGED <<registered, handle, op, out, awaiting, host>>

\* The caller assigns the result to d.
Return(t) ==
    /\ pc[t] = "returning"
    /\ Overwrite(t, op[t].d, out[t])
    /\ End(t)
    /\ UNCHANGED <<registry, scratch, awaiting>>

\* Mutant: the exception leaves the output behind.
Unwind_Leaks(t) ==
    /\ pc[t] \in {"unwinding", "refusing"}
    /\ scratch[t] = None
    /\ End(t)
    /\ UNCHANGED <<registry, device, handle, scratch, awaiting>>

\* The exception destroys the output, after the scratch.
Unwind(t) ==
    /\ pc[t] \in {"unwinding", "refusing"}
    /\ scratch[t] = None
    /\ IF out[t] # None THEN Reset(out[t]) ELSE UNCHANGED device
    /\ End(t)
    /\ UNCHANGED <<registry, handle, scratch, awaiting>>

\* A Tensor variable is destroyed, or copied to another thread.
Drop(t, d) ==
    /\ pc[t] = "idle"
    /\ handle[t][d] # None
    /\ Overwrite(t, d, None)
    /\ UNCHANGED <<registered, local, host>>
HandOver(t, x, u, d) ==
    /\ pc[t] = "idle"
    /\ pc[u] = "idle"
    /\ handle[t][x] # None
    /\ Overwrite(u, d, handle[t][x])
    /\ UNCHANGED <<registered, local, host>>

Continue(t) ==
    \/ CreateContext(t) \/ AllocateOutput(t) \/ AllocateScratch(t) \/ AllocationFails(t)
    \/ Prepare(t) \/ Launch(t) \/ LaunchFails(t) \/ CopyToHost(t) \/ Synchronized(t)
    \/ Observed(t) \/ ReleaseScratch(t) \/ Return(t) \/ Unwind(t)

Next ==
    \/ \E t \in Threads : Begin(t) \/ Continue(t)
    \/ \E t \in Threads, d \in Names : Drop(t, d)
    \/ \E t, u \in Threads, x, d \in Names : HandOver(t, x, u, d)
    \/ \E c \in Contexts : Execute(c)

Spec == Init /\ [][Next]_vars

-----------------------------------------------------------------------------
(* Types; in particular every queued command names storages that have been   *)
(* allocated for it, never a null pointer, and however threads race for the  *)
(* first use of a device, everything on it is ordered by one stream.         *)
TypeOK ==
    /\ \A s \in Storages : address[s] # None => origin[s] = registry
    /\ registry \in Contexts \cup {None}
    /\ context \in [Threads -> Contexts \cup {None}]
    /\ \A c \in Contexts :
        /\ Len(queue[c]) <= MaxQueue
        /\ \A i \in 1..Len(queue[c]) : Touched(queue[c][i]) \subseteq Storages
    /\ address \in [Storages -> Addresses \cup {None}]
    /\ origin \in [Storages -> Contexts \cup {None}]
    /\ memory \in [Addresses -> Values \cup {Garbage}]
    /\ resident \in [Addresses -> Storages \cup {None}]
    /\ handle \in [Threads -> [Names -> Storages \cup {None}]]
    /\ pc \in [Threads -> {"idle", "creating", "output", "scratch", "prepare", "launch", "load",
                           "synchronizing", "observing", "releasing", "returning", "unwinding",
                           "refusing"}]
    /\ out \in [Threads -> Storages \cup {None}]
    /\ scratch \in [Threads -> Storages \cup {None}]
    /\ awaiting \in [Threads -> 0..MaxQueue]
    /\ host \in [Threads -> Values \cup {Garbage}]

(* A command never touches memory before its allocation or after its free,   *)
(* and memory is not handed out twice at a time, although the host destroys  *)
(* tensors and temporaries while the kernels that use them are still queued  *)
(* (docs/PLAN.md: "guarantee temporary storage lifetime through the final queued  *)
(* consumer").                                                               *)
NoUseAfterFree ==
    \A c \in Contexts : queue[c] # <<>> =>
        LET command == Head(queue[c])
        IN  /\ \A s \in Touched(command) : address[s] # None /\ resident[address[s]] = s
            /\ command.kind = "allocate" =>
                 address[command.to] # None /\ resident[address[command.to]] = None

(* No device memory is lost, whatever fails: an allocation belongs to some   *)
(* tensor or to an operation in progress, or its free is queued.             *)
NoLeak ==
    \A s \in Storages : address[s] # None =>
        \/ References(s) # {}
        \/ \E t \in Threads : s \in {out[t], scratch[t]}
        \/ Queued(origin[s], Free(s))

\* Memory once the stream has drained, and the value of a tensor then.
Drained == [c \in Contexts |-> FoldLeft(Effect, memory, queue[c])]
ValueOf(s) == IF s = None THEN Undefined ELSE Drained[origin[s]][address[s]]
Refused == 4   \* as in EagerDevice
Eager == INSTANCE EagerDevice WITH
    tensor <- [t \in Threads |-> [x \in Names |-> ValueOf(handle[t][x])]],
    seen <- [t \in Threads |->
                IF pc[t] = "observing" THEN host[t]
                ELSE IF pc[t] = "refusing" THEN Refused ELSE Nothing]

(* Callers cannot tell the asynchronous device from one that computes at     *)
(* once: the value of a tensor is what its memory holds when the stream has  *)
(* drained, what a thread observes on the host is that value, and gather_rows*)
(* returns or throws for its index as it would at once, although it learns   *)
(* of the index from a flag that the device sets later.                      *)
ImplementsEager == Eager!Spec
=============================================================================
