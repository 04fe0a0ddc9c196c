---------------------------- MODULE MetalContext ----------------------------
(***************************************************************************)
(* The process-wide Metal execution context: host threads record work in   *)
(* one shared active command buffer, which is committed to the GPU when it *)
(* holds MaxEncodings submissions or when some thread synchronizes.        *)
(*                                                                         *)
(* submission_mutex is held for the whole of command_buffer(), of submit() *)
(* and of the first block of synchronize(), so each is one action here.    *)
(* Recording into the buffer (Encode) and waiting for the GPU (Await)      *)
(* happen outside the mutex and interleave with everything else.           *)
(***************************************************************************)
EXTENDS Naturals, Sequences, FiniteSets

CONSTANTS
    Threads,       \* host threads that share the context
    Buffers,       \* identities of MTLCommandBuffer objects (bounds the pool)
    NoBuffer,      \* nil
    MaxEncodings,  \* max_encodings_per_command_buffer, 64 in the code
    MayFail        \* can the execution of a buffer end with an error?

ASSUME ThreadsAssumption == IsFiniteSet(Threads)
ASSUME NoBufferAssumption == NoBuffer \notin Buffers
ASSUME MaxEncodingsAssumption == MaxEncodings \in Nat \ {0}
ASSUME MayFailAssumption == MayFail \in BOOLEAN

VARIABLES
    active,    \* active_command_buffer
    count,     \* active_encoding_count
    pending,   \* pending_command_buffers
    status,    \* MTLCommandBuffer.status of each buffer
    work,      \* work[b][t]: encodings of thread t recorded in buffer b
    gpu,       \* committed buffers the command queue has not finished
    history,   \* "clean" until the execution of some buffer fails
    pc,        \* where each thread is
    handle,    \* the command_buffer local of an operation in progress
    waiting,   \* the command_buffers local of synchronize()
    raised     \* exception that ended the thread's last call

shared == <<active, count, pending>>
device == <<status, work, gpu, history>>
local  == <<pc, handle, waiting, raised>>
vars   == <<active, count, pending, status, work, gpu, history, pc, handle, waiting, raised>>

Elements(s) == {s[i] : i \in 1..Len(s)}
NoWork == [t \in Threads |-> 0]

Finished(b) == status[b] \in {"completed", "error"}

\* ARC keeps a buffer alive while the context or a thread still names it.
Referenced(b) ==
    \/ b = active
    \/ b \in Elements(pending)
    \/ \E t \in Threads : b = handle[t] \/ b \in Elements(waiting[t])

\* Objects the command queue can return: never used, or finished and released.
Reusable == {b \in Buffers : ~Referenced(b) /\ (status[b] = "unused" \/ Finished(b))}

-----------------------------------------------------------------------------
(* Mutants: plausible bugs in the code, each the target of one "mutants"     *)
(* entry of PROJECT.json. Nothing below uses them.                           *)

\* The [command_buffer commit] call is missing.
CommitActive_NeverCommits ==
    /\ active' = NoBuffer
    /\ count' = 0
    /\ UNCHANGED device

\* submit() compares the limit with > where it should use >=.
SubmitCounted_OneTooMany(t) ==
    /\ pc[t] = "submitting"
    /\ handle[t] = active
    /\ count + 1 <= MaxEncodings
    /\ count' = count + 1
    /\ pc' = [pc EXCEPT ![t] = "idle"]
    /\ handle' = [handle EXCEPT ![t] = NoBuffer]
    /\ raised' = [raised EXCEPT ![t] = "none"]
    /\ UNCHANGED <<active, pending, device, waiting>>

\* submit() does not check that the buffer is the active one.
SubmitCounted_Unchecked(t) ==
    /\ pc[t] = "submitting"
    /\ count + 1 < MaxEncodings
    /\ count' = count + 1
    /\ pc' = [pc EXCEPT ![t] = "idle"]
    /\ handle' = [handle EXCEPT ![t] = NoBuffer]
    /\ raised' = [raised EXCEPT ![t] = "none"]
    /\ UNCHANGED <<active, pending, device, waiting>>

\* synchronize() commits the active buffer but does not push it to the vector.
Synchronize_ForgetsActive(t) ==
    /\ pc[t] = "idle"
    /\ waiting' = [waiting EXCEPT ![t] = pending]
    /\ IF active = NoBuffer THEN UNCHANGED <<active, count, device>>
       ELSE /\ status' = [status EXCEPT ![active] = "committed"]
            /\ gpu' = Append(gpu, active)
            /\ active' = NoBuffer
            /\ count' = 0
            /\ UNCHANGED <<work, history>>
    /\ pending' = <<>>
    /\ pc' = [pc EXCEPT ![t] = "waiting"]
    /\ raised' = [raised EXCEPT ![t] = "none"]
    /\ UNCHANGED handle

\* synchronize() waits for the pending buffers and leaves the active one open.
Synchronize_LeavesActive(t) ==
    /\ pc[t] = "idle"
    /\ waiting' = [waiting EXCEPT ![t] = pending]
    /\ pending' = <<>>
    /\ pc' = [pc EXCEPT ![t] = "waiting"]
    /\ raised' = [raised EXCEPT ![t] = "none"]
    /\ UNCHANGED <<active, count, device, handle>>

-----------------------------------------------------------------------------
Init ==
    /\ active = NoBuffer
    /\ count = 0
    /\ pending = <<>>
    /\ status = [b \in Buffers |-> "unused"]
    /\ work = [b \in Buffers |-> NoWork]
    /\ gpu = <<>>
    /\ history = "clean"
    /\ pc = [t \in Threads |-> "idle"]
    /\ handle = [t \in Threads |-> NoBuffer]
    /\ waiting = [t \in Threads |-> <<>>]
    /\ raised = [t \in Threads |-> "none"]

\* command_buffer() when a buffer is already being recorded.
ShareBuffer(t) ==
    /\ pc[t] = "idle"
    /\ active # NoBuffer
    /\ pc' = [pc EXCEPT ![t] = "recording"]
    /\ handle' = [handle EXCEPT ![t] = active]
    /\ raised' = [raised EXCEPT ![t] = "none"]
    /\ UNCHANGED <<shared, device, waiting>>

\* command_buffer() when active_command_buffer is nil: [queue commandBuffer].
OpenBuffer(t) ==
    /\ pc[t] = "idle"
    /\ active = NoBuffer
    /\ \E b \in Reusable :
        /\ active' = b
        /\ status' = [status EXCEPT ![b] = "recording"]
        /\ work' = [work EXCEPT ![b] = NoWork]
        /\ handle' = [handle EXCEPT ![t] = b]
    /\ pc' = [pc EXCEPT ![t] = "recording"]
    /\ raised' = [raised EXCEPT ![t] = "none"]
    /\ UNCHANGED <<count, pending, gpu, history, waiting>>

\* The operation's encoder, outside the mutex. A buffer that another thread
\* has committed in the meantime takes no more work.
Encode(t) ==
    /\ pc[t] = "recording"
    /\ work' = IF status[handle[t]] = "recording"
               THEN [work EXCEPT ![handle[t]][t] = @ + 1]
               ELSE work
    /\ pc' = [pc EXCEPT ![t] = "submitting"]
    /\ UNCHANGED <<shared, status, gpu, history, handle, waiting, raised>>

EndOperation(t, exception) ==
    /\ pc' = [pc EXCEPT ![t] = "idle"]
    /\ handle' = [handle EXCEPT ![t] = NoBuffer]
    /\ raised' = [raised EXCEPT ![t] = exception]
    /\ UNCHANGED waiting

\* Commit the active buffer: it leaves the context's hands for the GPU's.
CommitActive ==
    /\ status' = [status EXCEPT ![active] = "committed"]
    /\ gpu' = Append(gpu, active)
    /\ active' = NoBuffer
    /\ count' = 0
    /\ UNCHANGED <<work, history>>

\* submit(): counted, the buffer stays open for more encodings.
SubmitCounted(t) ==
    /\ pc[t] = "submitting"
    /\ handle[t] = active
    /\ count + 1 < MaxEncodings
    /\ count' = count + 1
    /\ EndOperation(t, "none")
    /\ UNCHANGED <<active, pending, device>>

\* submit(): the encoding that fills the buffer commits it.
SubmitCommits(t) ==
    /\ pc[t] = "submitting"
    /\ handle[t] = active
    /\ count + 1 >= MaxEncodings
    /\ pending' = Append(pending, active)
    /\ CommitActive
    /\ EndOperation(t, "none")

\* submit(): the buffer is no longer the active one; the operation throws.
SubmitOutOfOrder(t) ==
    /\ pc[t] = "submitting"
    /\ handle[t] # active
    /\ EndOperation(t, "outOfOrder")
    /\ UNCHANGED <<shared, device>>

\* synchronize(), the block under the mutex: commit what is being recorded and
\* take every pending buffer.
Synchronize(t) ==
    /\ pc[t] = "idle"
    /\ \/ /\ active # NoBuffer
          /\ CommitActive
          /\ waiting' = [waiting EXCEPT ![t] = Append(pending, active)]
       \/ /\ active = NoBuffer
          /\ waiting' = [waiting EXCEPT ![t] = pending]
          /\ UNCHANGED <<active, count, device>>
    /\ pending' = <<>>
    /\ pc' = [pc EXCEPT ![t] = "waiting"]
    /\ raised' = [raised EXCEPT ![t] = "none"]
    /\ UNCHANGED handle

\* waitUntilCompleted on the next buffer returns and its status is not error.
Await(t) ==
    /\ pc[t] = "waiting"
    /\ waiting[t] # <<>>
    /\ status[Head(waiting[t])] = "completed"
    /\ waiting' = [waiting EXCEPT ![t] = Tail(@)]
    /\ UNCHANGED <<shared, device, pc, handle, raised>>

\* The first failed buffer throws; the rest of the local vector is destroyed.
AwaitFailed(t) ==
    /\ pc[t] = "waiting"
    /\ waiting[t] # <<>>
    /\ status[Head(waiting[t])] = "error"
    /\ waiting' = [waiting EXCEPT ![t] = <<>>]
    /\ pc' = [pc EXCEPT ![t] = "idle"]
    /\ raised' = [raised EXCEPT ![t] = "gpuError"]
    /\ UNCHANGED <<shared, device, handle>>

\* synchronize() returns: copy_to_host, copy_from_host, clone or gather_rows
\* goes on to touch the shared memory of a buffer from the host.
SynchronizeReturns(t) ==
    /\ pc[t] = "waiting"
    /\ waiting[t] = <<>>
    /\ pc' = [pc EXCEPT ![t] = "observing"]
    /\ UNCHANGED <<shared, device, handle, waiting, raised>>

Observe(t) ==
    /\ pc[t] = "observing"
    /\ pc' = [pc EXCEPT ![t] = "idle"]
    /\ UNCHANGED <<shared, device, handle, waiting, raised>>

\* The command queue runs buffers in the order they were committed.
GpuFinish ==
    /\ gpu # <<>>
    /\ \E outcome \in IF MayFail THEN {"completed", "error"} ELSE {"completed"} :
        /\ status' = [status EXCEPT ![Head(gpu)] = outcome]
        /\ history' = IF outcome = "error" THEN "failed" ELSE history
    /\ gpu' = Tail(gpu)
    /\ UNCHANGED <<shared, work, local>>

Submit(t) == SubmitCounted(t) \/ SubmitCommits(t) \/ SubmitOutOfOrder(t)
Continue(t) == Encode(t) \/ Submit(t) \/ Await(t) \/ AwaitFailed(t)
               \/ SynchronizeReturns(t) \/ Observe(t)

Next ==
    \/ \E t \in Threads : ShareBuffer(t) \/ OpenBuffer(t) \/ Synchronize(t) \/ Continue(t)
    \/ GpuFinish

Spec == Init /\ [][Next]_vars

\* A thread inside a call keeps running and the GPU keeps executing committed
\* work; nothing obliges a thread to start another operation.
Fairness == WF_vars(GpuFinish) /\ \A t \in Threads : WF_vars(Continue(t))
FairSpec == Spec /\ Fairness

-----------------------------------------------------------------------------
(* Types; in particular the active buffer always has room for one encoding   *)
(* more: submit() commits it at the limit.                                   *)
TypeOK ==
    /\ active \in Buffers \cup {NoBuffer}
    /\ count \in 0..MaxEncodings - 1
    /\ pending \in Seq(Buffers)
    /\ status \in [Buffers -> {"unused", "recording", "committed", "completed", "error"}]
    /\ work \in [Buffers -> [Threads -> Nat]]
    /\ gpu \in Seq(Buffers)
    /\ history \in {"clean", "failed"}
    /\ pc \in [Threads -> {"idle", "recording", "submitting", "waiting", "observing"}]
    /\ handle \in [Threads -> Buffers \cup {NoBuffer}]
    /\ waiting \in [Threads -> Seq(Buffers)]
    /\ raised \in [Threads -> {"none", "outOfOrder", "gpuError"}]

\* Work of thread t in buffer b that the GPU has not finished.
Outstanding(b, t) == work[b][t] > 0 /\ ~Finished(b)

(* Custody. Until the execution of some buffer has failed, no committed      *)
(* buffer is forgotten before it finishes: it is still pending or some       *)
(* synchronize() is waiting for it.                                          *)
(* (synchronize swaps the pending vector out before it waits.)               *)
Custody ==
    history = "clean" => \A b \in Buffers : status[b] = "committed" =>
        b \in Elements(pending) \/ \E t \in Threads : b \in Elements(waiting[t])

(* What synchronize() really promises the thread it returns to, however many *)
(* threads there are: of that thread's own submissions, only those in a      *)
(* buffer that another thread's synchronize() took first can be unfinished.  *)
(* A failed buffer ends the promise: the throw drops the buffers behind it.  *)
SynchronizedUpToOthers ==
    history = "clean" => \A t \in Threads, b \in Buffers :
        pc[t] = "observing" /\ Outstanding(b, t) =>
            \E u \in Threads \ {t} : b \in Elements(waiting[u])

(* When host code observes device memory after synchronize(), everything the *)
(* observing thread submitted has finished on the GPU (tensor_design.md,     *)
(* materialization boundaries).                                              *)
ObservedWorkIsFinished ==
    \A t \in Threads, b \in Buffers : pc[t] = "observing" => ~Outstanding(b, t)

(* The buffer being submitted is the active one: submit()'s own check.       *)
SubmissionInOrder == \A t \in Threads : raised[t] # "outOfOrder"

\* The sum of a function's values.
SumOf(f) ==
    LET sum[S \in SUBSET Threads] ==
            IF S = {} THEN 0 ELSE LET t == CHOOSE x \in S : TRUE IN f[t] + sum[S \ {t}]
    IN  sum[Threads]

(* A buffer can hold more encodings than the limit only by those of threads  *)
(* that were between command_buffer() and submit() when it was committed.    *)
EncodingBound ==
    \A b \in Buffers : SumOf(work[b]) <= MaxEncodings + Cardinality(Threads) - 1

(* An accepted submission is never lost: submit() returns normally only if   *)
(* the thread's encoding is in the buffer it submitted, although other       *)
(* threads may have committed and replaced the active buffer in between.     *)
AcceptedWorkIsRecorded ==
    [][\A t \in Threads :
         pc[t] = "submitting" /\ pc'[t] = "idle" /\ raised'[t] = "none" =>
             work'[handle[t]][t] > 0 /\ status[handle[t]] = "recording"]_vars

(* A thread that called synchronize() gets control back.                     *)
SynchronizeTerminates == \A t \in Threads : pc[t] = "waiting" ~> pc[t] # "waiting"

(* Calling synchronize() is enough to get the caller's recorded work run,    *)
(* whether the buffer was open, pending or taken by another thread.          *)
SynchronizedWorkRuns ==
    \A t \in Threads, b \in Buffers :
        (pc[t] = "waiting" /\ Outstanding(b, t)) ~> Finished(b)
=============================================================================
