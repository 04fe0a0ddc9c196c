------------------------- MODULE MetalContextProofs -------------------------
(***************************************************************************)
(* Proofs about MetalContext, for any number of threads and buffers and    *)
(* any batch limit.                                                        *)
(*                                                                         *)
(* IInv is the inductive invariant. Its parts say where a command buffer   *)
(* can be at each stage of its life: the one being recorded is the active  *)
(* one; the GPU's queue holds committed buffers, each once; committed      *)
(* buffers are in the pending vector or in some thread's local vector, and *)
(* a thread that is not inside synchronize() holds none.                   *)
(***************************************************************************)
EXTENDS MetalContext, Foundations, FiniteSetTheorems, TLAPS

OnlyActiveRecords == \A b \in Buffers : status[b] = "recording" => b = active

ActiveRecords == active # NoBuffer => status[active] = "recording"

GpuQueue ==
    /\ \A i \in 1..Len(gpu) : status[gpu[i]] = "committed"
    /\ \A i, j \in 1..Len(gpu) : gpu[i] = gpu[j] => i = j

HoldsBuffer ==
    \A t \in Threads : pc[t] \in {"recording", "submitting"} => handle[t] \in Buffers

WaitsInSynchronize == \A t \in Threads : pc[t] # "waiting" => waiting[t] = <<>>

UnusedIsEmpty ==
    \A b \in Buffers, t \in Threads : status[b] = "unused" => work[b][t] = 0

NoErrors ==
    /\ history = "clean" => \A b \in Buffers : status[b] # "error"
    /\ ~MayFail => history = "clean"

\* A thread about to submit to the active buffer has recorded its work there.
Recorded ==
    \A t \in Threads :
        pc[t] = "submitting" /\ handle[t] = active => work[active][t] > 0

\* Whatever a thread in or just after synchronize() is owed is being waited for.
Owed ==
    history = "clean" => \A t \in Threads, b \in Buffers :
        pc[t] \in {"waiting", "observing"} /\ Outstanding(b, t) =>
            \E u \in Threads : b \in Elements(waiting[u])

\* With a single thread nobody replaces the active buffer under an operation.
Alone ==
    \A t \in Threads : Threads = {t} =>
        /\ pc[t] \in {"recording", "submitting"} => handle[t] = active
        /\ raised[t] # "outOfOrder"

IInv ==
    /\ TypeOK
    /\ OnlyActiveRecords
    /\ ActiveRecords
    /\ GpuQueue
    /\ HoldsBuffer
    /\ WaitsInSynchronize
    /\ UnusedIsEmpty
    /\ NoErrors
    /\ Recorded
    /\ Custody
    /\ Owed
    /\ Alone

-----------------------------------------------------------------------------
\* The elements of the sequences the code builds: a vector that grew by one ...
LEMMA AppendElements ==
    ASSUME NEW S, NEW s \in Seq(S), NEW e \in S
    PROVE  /\ Append(s, e) \in Seq(S)
           /\ Elements(Append(s, e)) = Elements(s) \cup {e}
<1>1. /\ Append(s, e) \in Seq(S)
      /\ Len(Append(s, e)) = Len(s) + 1
      /\ \A i \in 1..Len(s) : Append(s, e)[i] = s[i]
      /\ Append(s, e)[Len(s) + 1] = e
      /\ Len(s) \in Nat
    OBVIOUS
<1>2. ASSUME NEW x \in Elements(Append(s, e)) PROVE x \in Elements(s) \cup {e}
    <2>1. PICK i \in 1..Len(Append(s, e)) : x = Append(s, e)[i]
        BY DEF Elements
    <2>2. CASE i = Len(s) + 1
        BY <1>1, <2>1, <2>2
    <2>3. CASE i \in 1..Len(s)
        BY <1>1, <2>1, <2>3 DEF Elements
    <2>4. QED
        BY <1>1, <2>1, <2>2, <2>3
<1>3. ASSUME NEW x \in Elements(s) \cup {e} PROVE x \in Elements(Append(s, e))
    <2>1. CASE x = e
        BY <1>1, <2>1 DEF Elements
    <2>2. CASE x \in Elements(s)
        <3>1. PICK i \in 1..Len(s) : x = s[i]
            BY <2>2 DEF Elements
        <3>2. i \in 1..Len(Append(s, e)) /\ x = Append(s, e)[i]
            BY <1>1, <3>1
        <3>3. QED
            BY <3>2 DEF Elements
    <2>3. QED
        BY <2>1, <2>2
<1>4. QED
    BY <1>1, <1>2, <1>3

\* ... and one that lost its first element.
LEMMA TailElements ==
    ASSUME NEW S, NEW s \in Seq(S), s # <<>>
    PROVE  /\ Tail(s) \in Seq(S)
           /\ Head(s) \in S
           /\ Len(s) \in Nat \ {0} /\ Len(Tail(s)) = Len(s) - 1
           /\ Head(s) = s[1] /\ \A i \in 1..Len(Tail(s)) : Tail(s)[i] = s[i + 1]
           /\ Elements(s) = {Head(s)} \cup Elements(Tail(s))
<1>1. /\ Tail(s) \in Seq(S)
      /\ Len(s) \in Nat \ {0} /\ Len(Tail(s)) = Len(s) - 1
      /\ Head(s) = s[1] /\ Head(s) \in S
      /\ \A i \in 1..Len(Tail(s)) : Tail(s)[i] = s[i + 1]
    OBVIOUS
<1>2. ASSUME NEW x \in Elements(s) PROVE x \in {Head(s)} \cup Elements(Tail(s))
    <2>1. PICK i \in 1..Len(s) : x = s[i]
        BY DEF Elements
    <2>2. CASE i = 1
        BY <1>1, <2>1, <2>2
    <2>3. CASE i # 1
        <3>1. i - 1 \in 1..Len(Tail(s)) /\ x = Tail(s)[i - 1]
            BY <1>1, <2>1, <2>3
        <3>2. QED
            BY <3>1 DEF Elements
    <2>4. QED
        BY <2>2, <2>3
<1>3. ASSUME NEW x \in {Head(s)} \cup Elements(Tail(s)) PROVE x \in Elements(s)
    <2>1. CASE x = Head(s)
        BY <1>1, <2>1 DEF Elements
    <2>2. CASE x \in Elements(Tail(s))
        <3>1. PICK i \in 1..Len(Tail(s)) : x = Tail(s)[i]
            BY <2>2 DEF Elements
        <3>2. i + 1 \in 1..Len(s) /\ x = s[i + 1]
            BY <1>1, <3>1
        <3>3. QED
            BY <3>2 DEF Elements
    <2>3. QED
        BY <2>1, <2>2
<1>4. QED
    BY <1>1, <1>2, <1>3

LEMMA EmptyElements == Elements(<<>>) = {}
BY DEF Elements

LEMMA InitEstablishes == Init => IInv
<1>1. SUFFICES ASSUME Init PROVE IInv
    OBVIOUS
<1>2. TypeOK
    BY <1>1, MaxEncodingsAssumption DEF Init, TypeOK, NoWork
<1>3. OnlyActiveRecords /\ ActiveRecords /\ GpuQueue /\ HoldsBuffer
    BY <1>1 DEF Init, OnlyActiveRecords, ActiveRecords, GpuQueue, HoldsBuffer
<1>4. WaitsInSynchronize /\ UnusedIsEmpty /\ NoErrors /\ Recorded
    BY <1>1 DEF Init, WaitsInSynchronize, UnusedIsEmpty, NoErrors, Recorded, NoWork
<1>5. Custody /\ Owed /\ Alone
    BY <1>1 DEF Init, Custody, Owed, Alone
<1>6. QED
    BY <1>2, <1>3, <1>4, <1>5 DEF IInv

LEMMA ShareBufferPreserves ==
    ASSUME IInv, NEW t \in Threads, ShareBuffer(t) PROVE IInv'
<1> USE DEF IInv, ShareBuffer, shared, device
<1>1. TypeOK'
    BY DEF TypeOK
<1>2. (OnlyActiveRecords /\ ActiveRecords /\ GpuQueue /\ HoldsBuffer)'
    BY DEF TypeOK, OnlyActiveRecords, ActiveRecords, GpuQueue, HoldsBuffer
<1>3. (WaitsInSynchronize /\ UnusedIsEmpty /\ NoErrors /\ Recorded)'
    BY DEF TypeOK, WaitsInSynchronize, UnusedIsEmpty, NoErrors, Recorded
<1>4. Custody'
    BY DEF Custody, Elements
<1>5. Owed'
    <2>1. \A u \in Threads :
            pc'[u] \in {"waiting", "observing"} => pc[u] \in {"waiting", "observing"}
        BY DEF TypeOK
    <2>2. QED
        BY <2>1 DEF Owed, Outstanding, Finished, Elements
<1>6. Alone'
    BY DEF TypeOK, Alone
<1>7. QED
    BY <1>1, <1>2, <1>3, <1>4, <1>5, <1>6

LEMMA OpenBufferPreserves ==
    ASSUME IInv, NEW t \in Threads, OpenBuffer(t) PROVE IInv'
<1>1. PICK b \in Reusable :
        /\ active' = b
        /\ status' = [status EXCEPT ![b] = "recording"]
        /\ work' = [work EXCEPT ![b] = NoWork]
        /\ handle' = [handle EXCEPT ![t] = b]
    BY DEF OpenBuffer
<1>2. /\ b \in Buffers
      /\ b \notin Elements(pending)
      /\ \A u \in Threads : b # handle[u] /\ b \notin Elements(waiting[u])
      /\ status[b] \in {"unused", "completed", "error"}
    BY <1>1 DEF Reusable, Referenced, Finished
<1> USE DEF IInv, OpenBuffer
<1>3. TypeOK'
    BY <1>1, <1>2 DEF TypeOK, NoWork
<1>4. (OnlyActiveRecords /\ ActiveRecords)'
    BY <1>1, <1>2, NoBufferAssumption DEF TypeOK, OnlyActiveRecords, ActiveRecords
<1>5. (HoldsBuffer /\ GpuQueue)'
    BY <1>1, <1>2 DEF TypeOK, HoldsBuffer, GpuQueue
<1>6. (WaitsInSynchronize /\ UnusedIsEmpty /\ NoErrors)'
    BY <1>1, <1>2 DEF TypeOK, WaitsInSynchronize, UnusedIsEmpty, NoErrors
<1>7. Recorded'
    BY <1>1, <1>2 DEF TypeOK, Recorded
<1>8. Custody'
    <2>1. \A c \in Buffers : status'[c] = "committed" => status[c] = "committed"
        BY <1>1, <1>2 DEF TypeOK
    <2>2. QED
        BY <2>1 DEF Custody, Elements
<1>9. Owed'
    BY <1>1, <1>2 DEF TypeOK, Owed, Outstanding, Finished, Elements, NoWork
<1>10. Alone'
    BY <1>1, <1>2 DEF TypeOK, Alone
<1>11. QED
    BY <1>3, <1>4, <1>5, <1>6, <1>7, <1>8, <1>9, <1>10

LEMMA EncodePreserves ==
    ASSUME IInv, NEW t \in Threads, Encode(t) PROVE IInv'
<1> USE DEF IInv, Encode, shared
<1>1. handle[t] \in Buffers
    BY DEF HoldsBuffer
<1>2. TypeOK'
    BY <1>1 DEF TypeOK
<1>3. (OnlyActiveRecords /\ ActiveRecords /\ GpuQueue /\ HoldsBuffer)'
    BY <1>1 DEF TypeOK, OnlyActiveRecords, ActiveRecords, GpuQueue, HoldsBuffer
<1>4. (WaitsInSynchronize /\ NoErrors)'
    BY DEF TypeOK, WaitsInSynchronize, NoErrors
<1>5. UnusedIsEmpty'
    BY <1>1 DEF TypeOK, UnusedIsEmpty
<1>6. Recorded'
    BY <1>1, NoBufferAssumption DEF TypeOK, Recorded, ActiveRecords
<1>7. Custody'
    BY DEF Custody, Elements
<1>8. Owed'
    BY <1>1 DEF TypeOK, Owed, Outstanding, Finished, Elements
<1>9. Alone'
    BY DEF TypeOK, Alone
<1>10. QED
    BY <1>2, <1>3, <1>4, <1>5, <1>6, <1>7, <1>8, <1>9

LEMMA SubmitCountedPreserves ==
    ASSUME IInv, NEW t \in Threads, SubmitCounted(t) PROVE IInv'
<1> USE DEF IInv, SubmitCounted, EndOperation, device
<1>1. TypeOK'
    BY MaxEncodingsAssumption DEF TypeOK
<1>2. (OnlyActiveRecords /\ ActiveRecords /\ GpuQueue /\ HoldsBuffer)'
    BY DEF TypeOK, OnlyActiveRecords, ActiveRecords, GpuQueue, HoldsBuffer
<1>3. (WaitsInSynchronize /\ UnusedIsEmpty /\ NoErrors /\ Recorded)'
    BY DEF TypeOK, WaitsInSynchronize, UnusedIsEmpty, NoErrors, Recorded
<1>4. Custody'
    BY DEF Custody, Elements
<1>5. Owed'
    BY DEF TypeOK, Owed, Outstanding, Finished, Elements
<1>6. Alone'
    BY DEF TypeOK, Alone
<1>7. QED
    BY <1>1, <1>2, <1>3, <1>4, <1>5, <1>6

\* Committing the active buffer keeps the invariant's parts about the GPU.
LEMMA CommitFacts ==
    ASSUME IInv, active \in Buffers, CommitActive
    PROVE  /\ status' \in [Buffers -> {"unused", "recording", "committed", "completed", "error"}]
           /\ gpu' \in Seq(Buffers) /\ count' \in 0..MaxEncodings - 1
           /\ OnlyActiveRecords' /\ ActiveRecords' /\ GpuQueue'
           /\ UnusedIsEmpty' /\ NoErrors' /\ history' = history
<1> USE DEF IInv, CommitActive
<1>1. /\ gpu' \in Seq(Buffers)
      /\ Len(gpu') = Len(gpu) + 1
      /\ \A i \in 1..Len(gpu) : gpu'[i] = gpu[i]
      /\ gpu'[Len(gpu) + 1] = active
      /\ Len(gpu) \in Nat
      /\ \A i \in 1..Len(gpu) : gpu[i] \in Buffers
    BY DEF TypeOK
<1>2. \A i \in 1..Len(gpu) : gpu[i] # active
    BY NoBufferAssumption DEF GpuQueue, ActiveRecords
<1>3. \A i \in 1..Len(gpu') : status'[gpu'[i]] = "committed"
    BY <1>1 DEF TypeOK, GpuQueue
<1>4. ASSUME NEW i \in 1..Len(gpu'), NEW j \in 1..Len(gpu'), gpu'[i] = gpu'[j]
      PROVE  i = j
    <2>1. CASE i \in 1..Len(gpu) /\ j \in 1..Len(gpu)
        BY <1>1, <1>4, <2>1 DEF GpuQueue
    <2>2. CASE i = Len(gpu) + 1 /\ j \in 1..Len(gpu)
        BY <1>1, <1>2, <1>4, <2>2
    <2>3. CASE j = Len(gpu) + 1 /\ i \in 1..Len(gpu)
        BY <1>1, <1>2, <1>4, <2>3
    <2>4. QED
        BY <1>1, <2>1, <2>2, <2>3
<1>5. GpuQueue'
    BY <1>3, <1>4 DEF GpuQueue
<1>6. (OnlyActiveRecords /\ ActiveRecords)'
    BY NoBufferAssumption DEF TypeOK, OnlyActiveRecords, ActiveRecords
<1>7. (UnusedIsEmpty /\ NoErrors)'
    BY DEF TypeOK, UnusedIsEmpty, NoErrors
<1>8. QED
    BY <1>1, <1>5, <1>6, <1>7, MaxEncodingsAssumption DEF TypeOK

LEMMA SubmitCommitsPreserves ==
    ASSUME IInv, NEW t \in Threads, SubmitCommits(t) PROVE IInv'
<1>1. active \in Buffers
    BY DEF IInv, SubmitCommits, HoldsBuffer
<1>2. CommitActive
    BY DEF SubmitCommits
<1>3. /\ status' \in [Buffers -> {"unused", "recording", "committed", "completed", "error"}]
      /\ gpu' \in Seq(Buffers) /\ count' \in 0..MaxEncodings - 1
      /\ OnlyActiveRecords' /\ ActiveRecords' /\ GpuQueue'
      /\ UnusedIsEmpty' /\ NoErrors' /\ history' = history
    BY <1>1, <1>2, CommitFacts
<1> USE DEF IInv, SubmitCommits, EndOperation
<1>4. pending' \in Seq(Buffers) /\ Elements(pending') = Elements(pending) \cup {active}
    BY <1>1, AppendElements DEF TypeOK
<1>5. TypeOK'
    BY <1>2, <1>3, <1>4 DEF TypeOK, CommitActive
<1>6. (HoldsBuffer /\ WaitsInSynchronize)'
    BY DEF TypeOK, HoldsBuffer, WaitsInSynchronize
<1>7. Recorded'
    BY <1>2, NoBufferAssumption, <1>6 DEF Recorded, CommitActive, HoldsBuffer
<1>8. Custody'
    BY <1>2, <1>4 DEF TypeOK, Custody, CommitActive
<1>9. Owed'
    <2>1. \A u \in Threads :
            pc'[u] \in {"waiting", "observing"} => pc[u] \in {"waiting", "observing"}
        BY DEF TypeOK
    <2>2. \A b \in Buffers, u \in Threads : Outstanding(b, u)' => Outstanding(b, u)
        BY <1>1, <1>2, NoBufferAssumption
           DEF TypeOK, Outstanding, Finished, CommitActive, ActiveRecords
    <2>3. QED
        BY <2>1, <2>2, <1>3 DEF Owed, Elements
<1>10. Alone'
    BY DEF TypeOK, Alone
<1>11. QED
    BY <1>3, <1>5, <1>6, <1>7, <1>8, <1>9, <1>10

LEMMA SubmitOutOfOrderPreserves ==
    ASSUME IInv, NEW t \in Threads, SubmitOutOfOrder(t) PROVE IInv'
<1> USE DEF IInv, SubmitOutOfOrder, EndOperation, shared, device
<1>1. TypeOK'
    BY DEF TypeOK
<1>2. (OnlyActiveRecords /\ ActiveRecords /\ GpuQueue /\ HoldsBuffer)'
    BY DEF TypeOK, OnlyActiveRecords, ActiveRecords, GpuQueue, HoldsBuffer
<1>3. (WaitsInSynchronize /\ UnusedIsEmpty /\ NoErrors /\ Recorded)'
    BY DEF TypeOK, WaitsInSynchronize, UnusedIsEmpty, NoErrors, Recorded
<1>4. Custody'
    BY DEF Custody, Elements
<1>5. Owed'
    <2>1. \A u \in Threads :
            pc'[u] \in {"waiting", "observing"} => pc[u] \in {"waiting", "observing"}
        BY DEF TypeOK
    <2>2. QED
        BY <2>1 DEF Owed, Outstanding, Finished, Elements
<1>6. Alone'
    BY DEF TypeOK, Alone
<1>7. QED
    BY <1>1, <1>2, <1>3, <1>4, <1>5, <1>6

LEMMA SynchronizePreserves ==
    ASSUME IInv, NEW t \in Threads, Synchronize(t) PROVE IInv'
<1>1. /\ pc[t] = "idle" /\ pending' = <<>>
      /\ pc' = [pc EXCEPT ![t] = "waiting"]
      /\ raised' = [raised EXCEPT ![t] = "none"]
      /\ UNCHANGED <<handle, work>>
    BY DEF Synchronize, CommitActive, device
<1>2. waiting[t] = <<>>
    BY <1>1 DEF IInv, WaitsInSynchronize
\* The thread's local vector takes over everything that was pending, and active.
<1>3. /\ active' = NoBuffer
      /\ status' \in [Buffers -> {"unused", "recording", "committed", "completed", "error"}]
      /\ gpu' \in Seq(Buffers) /\ count' \in 0..MaxEncodings - 1
      /\ waiting' \in [Threads -> Seq(Buffers)]
      /\ \A u \in Threads : u # t => waiting'[u] = waiting[u]
      /\ Elements(pending) \subseteq Elements(waiting'[t])
      /\ \A b \in Buffers :
            \/ status'[b] = status[b]
            \/ status'[b] = "committed" /\ b \in Elements(waiting'[t])
      /\ \A b \in Buffers : status[b] = "recording" => status'[b] = "committed"
      /\ OnlyActiveRecords' /\ ActiveRecords' /\ GpuQueue'
      /\ UnusedIsEmpty' /\ NoErrors' /\ history' = history
    <2>1. CASE active # NoBuffer
        <3>1. active \in Buffers
            BY <2>1 DEF IInv, TypeOK
        <3>2. CommitActive /\ waiting' = [waiting EXCEPT ![t] = Append(pending, active)]
            BY <2>1 DEF Synchronize
        <3>3. /\ status' \in [Buffers -> {"unused", "recording", "committed", "completed", "error"}]
              /\ gpu' \in Seq(Buffers) /\ count' \in 0..MaxEncodings - 1
              /\ OnlyActiveRecords' /\ ActiveRecords' /\ GpuQueue'
              /\ UnusedIsEmpty' /\ NoErrors' /\ history' = history
            BY <3>1, <3>2, CommitFacts
        <3>4. /\ Append(pending, active) \in Seq(Buffers)
              /\ Elements(Append(pending, active)) = Elements(pending) \cup {active}
            BY <3>1, AppendElements DEF IInv, TypeOK
        <3>5. waiting'[t] = Append(pending, active)
            BY <3>2 DEF IInv, TypeOK
        <3>6. status' = [status EXCEPT ![active] = "committed"] /\ active' = NoBuffer
            BY <3>2 DEF CommitActive
        <3>7. \A b \in Buffers : status'[b] = IF b = active THEN "committed" ELSE status[b]
            BY <3>6 DEF IInv, TypeOK
        <3>8. \A b \in Buffers : status[b] = "recording" => b = active
            BY DEF IInv, OnlyActiveRecords
        <3>9. /\ waiting' \in [Threads -> Seq(Buffers)]
              /\ \A u \in Threads : u # t => waiting'[u] = waiting[u]
            BY <3>2, <3>4 DEF IInv, TypeOK
        <3>10. QED
            BY <3>3, <3>4, <3>5, <3>6, <3>7, <3>8, <3>9
    <2>2. CASE active = NoBuffer
        <3>1. /\ waiting' = [waiting EXCEPT ![t] = pending]
              /\ UNCHANGED <<active, count, status, work, gpu, history>>
            BY <2>2 DEF Synchronize, device
        <3>2. \A b \in Buffers : status[b] # "recording"
            BY <2>2, NoBufferAssumption DEF IInv, OnlyActiveRecords
        <3>3. /\ waiting' \in [Threads -> Seq(Buffers)]
              /\ waiting'[t] = pending
              /\ \A u \in Threads : u # t => waiting'[u] = waiting[u]
            BY <3>1 DEF IInv, TypeOK
        <3>4. OnlyActiveRecords' /\ ActiveRecords' /\ GpuQueue' /\ UnusedIsEmpty' /\ NoErrors'
            BY <3>1 DEF IInv, OnlyActiveRecords, ActiveRecords, GpuQueue, UnusedIsEmpty, NoErrors
        <3>5. QED
            BY <2>2, <3>1, <3>2, <3>3, <3>4 DEF IInv, TypeOK
    <2>3. QED
        BY <2>1, <2>2
<1>4. TypeOK'
    <2>1. pending' \in Seq(Buffers)
        BY <1>1
    <2>2. /\ pc' \in [Threads -> {"idle", "recording", "submitting", "waiting", "observing"}]
          /\ raised' \in [Threads -> {"none", "outOfOrder", "gpuError"}]
        BY <1>1 DEF IInv, TypeOK
    <2>3. QED
        BY <1>1, <1>3, <2>1, <2>2 DEF IInv, TypeOK
<1>5. HoldsBuffer'
    BY <1>1 DEF IInv, TypeOK, HoldsBuffer
<1>6. WaitsInSynchronize'
    BY <1>1, <1>3 DEF IInv, TypeOK, WaitsInSynchronize
<1>7. Recorded'
    BY <1>1, <1>3, <1>5, NoBufferAssumption DEF Recorded, HoldsBuffer
<1>8. Custody'
    <2>1. SUFFICES ASSUME history = "clean", NEW b \in Buffers, status'[b] = "committed"
                   PROVE  \E u \in Threads : b \in Elements(waiting'[u])
        BY <1>3 DEF Custody, Elements
    <2>2. CASE b \in Elements(waiting'[t])
        BY <2>2
    <2>3. CASE b \notin Elements(waiting'[t])
        <3>1. status[b] = "committed" /\ b \notin Elements(pending)
            BY <1>3, <2>1, <2>3
        <3>2. PICK u \in Threads : b \in Elements(waiting[u])
            BY <2>1, <3>1 DEF IInv, Custody
        <3>3. u # t
            BY <1>2, <3>2, EmptyElements
        <3>4. QED
            BY <1>3, <3>2, <3>3
    <2>4. QED
        BY <2>2, <2>3
<1>9. Owed'
    <2>1. SUFFICES ASSUME history = "clean", NEW u \in Threads, NEW b \in Buffers,
                          Outstanding(b, u)'
                   PROVE  \E w \in Threads : b \in Elements(waiting'[w])
        BY <1>3 DEF Owed, Elements
    <2>2. status'[b] \notin {"unused", "completed", "error", "recording"}
        BY <1>1, <1>3, <1>4, <2>1, NoBufferAssumption
           DEF Outstanding, Finished, UnusedIsEmpty, OnlyActiveRecords, TypeOK
    <2>3. status'[b] = "committed"
        BY <1>3, <2>2
    <2>4. b \notin Elements(pending')
        BY <1>1, EmptyElements
    <2>5. QED
        BY <1>3, <1>8, <2>1, <2>3, <2>4 DEF Custody, Elements
<1>10. Alone'
    BY <1>1, <1>3 DEF IInv, TypeOK, Alone
<1>11. QED
    BY <1>3, <1>4, <1>5, <1>6, <1>7, <1>8, <1>9, <1>10 DEF IInv

LEMMA AwaitPreserves ==
    ASSUME IInv, NEW t \in Threads, Await(t) PROVE IInv'
<1>1. /\ waiting[t] \in Seq(Buffers) /\ waiting[t] # <<>>
      /\ status[Head(waiting[t])] = "completed"
    BY DEF IInv, Await, TypeOK
<1>2. /\ Tail(waiting[t]) \in Seq(Buffers)
      /\ Elements(waiting[t]) = {Head(waiting[t])} \cup Elements(Tail(waiting[t]))
    BY <1>1, TailElements
<1>3. /\ waiting'[t] = Tail(waiting[t])
      /\ \A u \in Threads : u # t => waiting'[u] = waiting[u]
    BY DEF IInv, Await, TypeOK
<1>4. \A b \in Buffers : \A u \in Threads :
        b \in Elements(waiting[u]) /\ ~Finished(b) => b \in Elements(waiting'[u])
    BY <1>1, <1>2, <1>3 DEF Finished
<1> USE DEF IInv, Await, shared, device
<1>5. TypeOK'
    BY <1>2 DEF TypeOK
<1>6. (OnlyActiveRecords /\ ActiveRecords /\ GpuQueue /\ HoldsBuffer)'
    BY DEF OnlyActiveRecords, ActiveRecords, GpuQueue, HoldsBuffer
<1>7. (WaitsInSynchronize /\ UnusedIsEmpty /\ NoErrors /\ Recorded /\ Alone)'
    BY <1>3 DEF WaitsInSynchronize, UnusedIsEmpty, NoErrors, Recorded, Alone
<1>8. Custody'
    <2>1. SUFFICES ASSUME history = "clean", NEW b \in Buffers, status[b] = "committed",
                          b \notin Elements(pending)
                   PROVE  \E u \in Threads : b \in Elements(waiting'[u])
        BY DEF Custody, Elements
    <2>2. QED
        BY <1>4, <2>1 DEF Custody, Finished
<1>9. Owed'
    <2>1. SUFFICES ASSUME history = "clean", NEW u \in Threads, NEW b \in Buffers,
                          pc[u] \in {"waiting", "observing"}, Outstanding(b, u)
                   PROVE  \E w \in Threads : b \in Elements(waiting'[w])
        BY DEF Owed, Elements, Outstanding, Finished
    <2>2. QED
        BY <1>4, <2>1 DEF Owed, Outstanding
<1>10. QED
    BY <1>5, <1>6, <1>7, <1>8, <1>9

LEMMA AwaitFailedPreserves ==
    ASSUME IInv, NEW t \in Threads, AwaitFailed(t) PROVE IInv'
<1>1. history # "clean"
    <2>1. Head(waiting[t]) \in Buffers
        BY TailElements DEF IInv, AwaitFailed, TypeOK
    <2>2. QED
        BY <2>1 DEF IInv, AwaitFailed, NoErrors
<1> USE DEF IInv, AwaitFailed, shared, device
<1>2. TypeOK'
    BY DEF TypeOK
<1>3. (OnlyActiveRecords /\ ActiveRecords /\ GpuQueue /\ HoldsBuffer)'
    BY DEF TypeOK, OnlyActiveRecords, ActiveRecords, GpuQueue, HoldsBuffer
<1>4. (WaitsInSynchronize /\ UnusedIsEmpty /\ NoErrors /\ Recorded /\ Alone)'
    BY DEF TypeOK, WaitsInSynchronize, UnusedIsEmpty, NoErrors, Recorded, Alone
<1>5. (Custody /\ Owed)'
    BY <1>1 DEF Custody, Owed
<1>6. QED
    BY <1>2, <1>3, <1>4, <1>5

LEMMA ObservePreserves ==
    ASSUME IInv, NEW t \in Threads, SynchronizeReturns(t) \/ Observe(t) PROVE IInv'
<1> USE DEF IInv, SynchronizeReturns, Observe, shared, device
<1>1. TypeOK'
    BY DEF TypeOK
<1>2. (OnlyActiveRecords /\ ActiveRecords /\ GpuQueue /\ HoldsBuffer)'
    BY DEF TypeOK, OnlyActiveRecords, ActiveRecords, GpuQueue, HoldsBuffer
<1>3. (WaitsInSynchronize /\ UnusedIsEmpty /\ NoErrors /\ Recorded /\ Alone)'
    BY DEF TypeOK, WaitsInSynchronize, UnusedIsEmpty, NoErrors, Recorded, Alone
<1>4. Custody'
    BY DEF Custody, Elements
<1>5. Owed'
    <2>1. \A u \in Threads :
            pc'[u] \in {"waiting", "observing"} => pc[u] \in {"waiting", "observing"}
        BY DEF TypeOK
    <2>2. QED
        BY <2>1 DEF Owed, Outstanding, Finished, Elements
<1>6. QED
    BY <1>1, <1>2, <1>3, <1>4, <1>5

LEMMA GpuFinishPreserves == ASSUME IInv, GpuFinish PROVE IInv'
<1>1. PICK outcome \in {"completed", "error"} :
        /\ status' = [status EXCEPT ![Head(gpu)] = outcome]
        /\ history' = IF outcome = "error" THEN "failed" ELSE history
        /\ ~MayFail => outcome = "completed"
    BY DEF GpuFinish
<1>2. /\ gpu' \in Seq(Buffers) /\ Head(gpu) \in Buffers /\ Head(gpu) = gpu[1]
      /\ Len(gpu) \in Nat \ {0} /\ Len(gpu') = Len(gpu) - 1
      /\ \A i \in 1..Len(gpu') : gpu'[i] = gpu[i + 1]
    BY TailElements DEF IInv, GpuFinish, TypeOK
<1>3. status[Head(gpu)] = "committed"
    BY <1>2 DEF IInv, GpuQueue
<1>4. UNCHANGED <<active, count, pending, work, pc, handle, waiting, raised>>
    BY DEF GpuFinish, shared, local
<1> USE DEF IInv
<1>5. TypeOK'
    BY <1>1, <1>2, <1>4 DEF TypeOK
<1>6. (OnlyActiveRecords /\ ActiveRecords)'
    BY <1>1, <1>2, <1>3, <1>4 DEF TypeOK, OnlyActiveRecords, ActiveRecords
<1>7. GpuQueue'
    <2>1. ASSUME NEW i \in 1..Len(gpu') PROVE status'[gpu'[i]] = "committed"
        <3>1. i + 1 \in 1..Len(gpu) /\ 1 \in 1..Len(gpu) /\ i + 1 # 1
            BY <1>2
        <3>2. gpu[i + 1] # gpu[1] /\ status[gpu[i + 1]] = "committed"
            BY <3>1 DEF GpuQueue
        <3>3. gpu[i + 1] \in Buffers
            BY <3>1 DEF TypeOK
        <3>4. QED
            BY <1>1, <1>2, <3>2, <3>3 DEF TypeOK
    <2>2. ASSUME NEW i \in 1..Len(gpu'), NEW j \in 1..Len(gpu'), gpu'[i] = gpu'[j]
          PROVE  i = j
        <3>1. i + 1 \in 1..Len(gpu) /\ j + 1 \in 1..Len(gpu) /\ gpu[i + 1] = gpu[j + 1]
            BY <1>2, <2>2
        <3>2. QED
            BY <3>1 DEF GpuQueue
    <2>3. QED
        BY <2>1, <2>2 DEF GpuQueue
<1>8. (HoldsBuffer /\ WaitsInSynchronize /\ Recorded /\ Alone)'
    BY <1>4 DEF HoldsBuffer, WaitsInSynchronize, Recorded, Alone
<1>9. (UnusedIsEmpty /\ NoErrors)'
    BY <1>1, <1>2, <1>4 DEF TypeOK, UnusedIsEmpty, NoErrors
<1>10. \A b \in Buffers :
        /\ Finished(b) => Finished(b)'
        /\ status'[b] = "committed" => status[b] = "committed"
    BY <1>1, <1>2 DEF TypeOK, Finished
<1>11. history' = "clean" => history = "clean"
    BY <1>1
<1>12. (Custody /\ Owed)'
    BY <1>4, <1>10, <1>11 DEF Custody, Owed, Outstanding, Elements
<1>13. QED
    BY <1>5, <1>6, <1>7, <1>8, <1>9, <1>12

LEMMA StutterPreserves == ASSUME IInv, UNCHANGED vars PROVE IInv'
<1> USE DEF vars, IInv
<1>1. TypeOK'
    BY DEF TypeOK
<1>2. (OnlyActiveRecords /\ ActiveRecords /\ GpuQueue /\ HoldsBuffer)'
    BY DEF OnlyActiveRecords, ActiveRecords, GpuQueue, HoldsBuffer
<1>3. (WaitsInSynchronize /\ UnusedIsEmpty /\ NoErrors /\ Recorded /\ Alone)'
    BY DEF WaitsInSynchronize, UnusedIsEmpty, NoErrors, Recorded, Alone
<1>4. (Custody /\ Owed)'
    BY DEF Custody, Owed, Outstanding, Finished, Elements
<1>5. QED
    BY <1>1, <1>2, <1>3, <1>4

LEMMA NextPreserves == IInv /\ [Next]_vars => IInv'
<1>1. SUFFICES ASSUME IInv, [Next]_vars PROVE IInv'
    OBVIOUS
<1>2. ASSUME NEW t \in Threads,
             ShareBuffer(t) \/ OpenBuffer(t) \/ Synchronize(t) \/ Continue(t)
      PROVE  IInv'
    BY <1>1, <1>2, ShareBufferPreserves, OpenBufferPreserves, SynchronizePreserves,
       EncodePreserves, SubmitCountedPreserves, SubmitCommitsPreserves,
       SubmitOutOfOrderPreserves, AwaitPreserves, AwaitFailedPreserves,
       ObservePreserves
       DEF Continue, Submit
<1>3. QED
    BY <1>1, <1>2, GpuFinishPreserves, StutterPreserves DEF Next

LEMMA Invariance == Spec => []IInv
<1>1. IInv /\ [Next]_vars => IInv'
    BY NextPreserves
<1>2. QED
    BY <1>1, InitEstablishes, PTL DEF Spec

-----------------------------------------------------------------------------
(* Every variable stays in its type; in particular the encoding count never  *)
(* reaches the limit between two calls.                                      *)
THEOREM TypeCorrect == Spec => []TypeOK
<1>1. IInv => TypeOK
    BY DEF IInv
<1>2. QED
    BY <1>1, Invariance, PTL

(* No committed buffer is dropped before the GPU has finished it, for any    *)
(* number of threads, until the execution of some buffer fails.              *)
THEOREM NothingDropped == Spec => []Custody
<1>1. IInv => Custody
    BY DEF IInv
<1>2. QED
    BY <1>1, Invariance, PTL

(* What synchronize() promises with any number of threads.                   *)
THEOREM SynchronizeContract == Spec => []SynchronizedUpToOthers
<1>1. IInv => SynchronizedUpToOthers
    <2>1. SUFFICES ASSUME IInv, history = "clean", NEW t \in Threads, NEW b \in Buffers,
                          pc[t] = "observing", Outstanding(b, t)
                   PROVE  \E u \in Threads \ {t} : b \in Elements(waiting[u])
        BY DEF SynchronizedUpToOthers
    <2>2. waiting[t] = <<>>
        BY <2>1 DEF IInv, WaitsInSynchronize
    <2>3. PICK u \in Threads : b \in Elements(waiting[u])
        BY <2>1 DEF IInv, Owed
    <2>4. u # t
        BY <2>2, <2>3, EmptyElements
    <2>5. QED
        BY <2>3, <2>4
<1>2. QED
    BY <1>1, Invariance, PTL

(* With one host thread and no GPU failure, host code that synchronized sees *)
(* all of its work finished, and no submission is out of order.              *)
THEOREM SingleThreadObservation ==
    ASSUME NEW t, Threads = {t}, ~MayFail
    PROVE  Spec => [](ObservedWorkIsFinished /\ SubmissionInOrder)
<1>1. IInv => ObservedWorkIsFinished /\ SubmissionInOrder
    <2>1. SUFFICES ASSUME IInv PROVE ObservedWorkIsFinished /\ SubmissionInOrder
        OBVIOUS
    <2>2. SubmissionInOrder
        BY <2>1 DEF IInv, Alone, SubmissionInOrder
    <2>3. ASSUME NEW b \in Buffers, pc[t] = "observing", Outstanding(b, t) PROVE FALSE
        <3>1. waiting[t] = <<>>
            BY <2>1, <2>3 DEF IInv, WaitsInSynchronize
        <3>2. b \in Elements(waiting[t])
            BY <2>1, <2>3 DEF IInv, NoErrors, Owed
        <3>3. QED
            BY <3>1, <3>2, EmptyElements
    <2>4. QED
        BY <2>2, <2>3 DEF ObservedWorkIsFinished
<1>2. QED
    BY <1>1, Invariance, PTL

(* submit() accepts only encodings that really are in the active buffer.     *)
THEOREM AcceptedSubmission == Spec => AcceptedWorkIsRecorded
<1>1. IInv /\ [Next]_vars => [\A t \in Threads :
        pc[t] = "submitting" /\ pc'[t] = "idle" /\ raised'[t] = "none" =>
            work'[handle[t]][t] > 0 /\ status[handle[t]] = "recording"]_vars
    <2>1. SUFFICES ASSUME IInv, Next, NEW t \in Threads,
                          pc[t] = "submitting", pc'[t] = "idle", raised'[t] = "none"
                   PROVE  work'[handle[t]][t] > 0 /\ status[handle[t]] = "recording"
        OBVIOUS
    <2>2. SubmitCounted(t) \/ SubmitCommits(t)
        <3>1. ~GpuFinish
            BY <2>1 DEF GpuFinish, local
        <3>2. PICK u \in Threads :
                ShareBuffer(u) \/ OpenBuffer(u) \/ Synchronize(u) \/ Continue(u)
            BY <2>1, <3>1 DEF Next
        <3>3. u = t
            BY <2>1, <3>2 DEF IInv, TypeOK, ShareBuffer, OpenBuffer, Synchronize, Continue,
               Submit, SubmitCounted, SubmitCommits, SubmitOutOfOrder, EndOperation, Encode,
               Await, AwaitFailed, SynchronizeReturns, Observe
        <3>4. ~SubmitOutOfOrder(t)
            BY <2>1 DEF IInv, TypeOK, SubmitOutOfOrder, EndOperation
        <3>5. QED
            BY <2>1, <3>2, <3>3, <3>4 DEF ShareBuffer, OpenBuffer, Synchronize, Continue,
               Submit, Encode, Await, AwaitFailed, SynchronizeReturns, Observe
    <2>3. handle[t] = active /\ work' = work
        BY <2>2 DEF SubmitCounted, SubmitCommits, CommitActive, device
    <2>4. active # NoBuffer
        BY <2>1, <2>3, NoBufferAssumption DEF IInv, HoldsBuffer
    <2>5. QED
        BY <2>1, <2>3, <2>4 DEF IInv, Recorded, ActiveRecords
<1>2. QED
    BY <1>1, Invariance, PTL DEF Spec, AcceptedWorkIsRecorded

-----------------------------------------------------------------------------
(* Sums over the threads.                                                    *)

Chosen(S) == CHOOSE x \in S : TRUE

Sums(sum, f) ==
    /\ \A S \in SUBSET Threads : sum[S] \in Nat
    /\ sum[{}] = 0
    /\ \A S \in SUBSET Threads : S # {} => sum[S] = f[Chosen(S)] + sum[S \ {Chosen(S)}]

LEMMA ChosenIn ==
    ASSUME NEW S, S # {}
    PROVE  Chosen(S) \in S
BY DEF Chosen

\* The recursion that SumOf is defined by has a solution.
LEMMA SumOfSums ==
    ASSUME NEW f \in [Threads -> Nat]
    PROVE  \E sum : Sums(sum, f) /\ SumOf(f) = sum[Threads]
<1> DEFINE All == SUBSET Threads
           upTo(k) == {S \in All : Cardinality(S) <= k}
           next(g, S) == IF S = {} THEN 0 ELSE f[Chosen(S)] + g[S \ {Chosen(S)}]
           level(g, k) == \A S \in upTo(k) : g[S] = next(g, S) /\ g[S] \in Nat
           n == Cardinality(Threads)
           T == {k \in 0..n : ~ \E g : level(g, k)}
<1>1. /\ n \in Nat
      /\ \A S \in All : IsFiniteSet(S) /\ Cardinality(S) \in 0..n
    <2>1. \A S \in All : IsFiniteSet(S) /\ Cardinality(S) <= n
        BY ThreadsAssumption, FS_Subset
    <2>2. \A S \in All : Cardinality(S) \in Nat
        BY <2>1, FS_CardinalityType
    <2>3. n \in Nat
        BY ThreadsAssumption, FS_CardinalityType
    <2>4. QED
        BY <2>1, <2>2, <2>3
<1>2. \A S \in All : S # {} =>
        /\ Chosen(S) \in Threads
        /\ S \ {Chosen(S)} \in All
        /\ Cardinality(S \ {Chosen(S)}) = Cardinality(S) - 1
    <2>1. SUFFICES ASSUME NEW S \in All, S # {}
                   PROVE  /\ Chosen(S) \in Threads
                          /\ S \ {Chosen(S)} \in All
                          /\ Cardinality(S \ {Chosen(S)}) = Cardinality(S) - 1
        OBVIOUS
    <2>2. Chosen(S) \in S
        BY <2>1, ChosenIn
    <2>3. IsFiniteSet(S)
        BY <1>1
    <2>4. Cardinality(S \ {Chosen(S)}) = Cardinality(S) - 1
        BY <2>2, <2>3, FS_RemoveElement
    <2>5. QED
        BY <2>2, <2>4
<1>3. T = {}
    <2>1. SUFFICES ASSUME T # {}
                   PROVE  FALSE
        OBVIOUS
    <2>2. PICK k \in T : \A j \in T : k <= j
        <3>1. T \subseteq Nat
            OBVIOUS
        <3> HIDE DEF T
        <3>2. QED
            BY <2>1, <3>1, LeastNatural
    <2>3. k # 0
        <3>1. SUFFICES ASSUME k = 0
                       PROVE  \E g : level(g, 0)
            BY <2>2
        <3> DEFINE g == [S \in All |-> 0]
        <3>2. \A S \in upTo(0) : S = {} /\ S \in All
            <4>1. SUFFICES ASSUME NEW S \in upTo(0) PROVE S = {}
                OBVIOUS
            <4>2. Cardinality(S) = 0 /\ IsFiniteSet(S)
                BY <1>1
            <4>3. QED
                BY <4>2, FS_EmptySet
        <3>3. level(g, 0)
            BY <3>2
        <3>4. QED
            BY <3>3
    <2>4. k \in 1..n /\ k - 1 \in 0..n /\ k - 1 \notin T
        <3>1. k \in 0..n
            BY <2>2
        <3>2. k \in 1..n /\ k - 1 \in 0..n /\ ~(k <= k - 1)
            BY <1>1, <2>3, <3>1
        <3> HIDE DEF T
        <3>3. QED
            BY <2>2, <3>2
    <2>5. PICK g : level(g, k - 1)
        BY <2>4
    <2> DEFINE h == [S \in All |-> next(g, S)]
    <2>6. \A S \in upTo(k - 1) : S \in All /\ h[S] = g[S]
        BY <2>5
    <2>7. ASSUME NEW S \in upTo(k), S # {}
          PROVE  /\ Chosen(S) \in Threads
                 /\ S \ {Chosen(S)} \in upTo(k - 1)
        <3>1. S \in All /\ Cardinality(S) \in Nat /\ Cardinality(S) <= k /\ k \in Nat
            BY <1>1, <2>4
        <3>2. S \ {Chosen(S)} \in All /\ Cardinality(S \ {Chosen(S)}) = Cardinality(S) - 1
            BY <1>2, <2>7, <3>1
        <3>3. QED
            BY <1>2, <2>7, <3>1, <3>2
    <2>8. ASSUME NEW S \in upTo(k)
          PROVE  h[S] = next(h, S) /\ h[S] \in Nat
        <3>1. CASE S = {}
            BY <3>1
        <3>2. CASE S # {}
            <4>1. Chosen(S) \in Threads /\ S \ {Chosen(S)} \in upTo(k - 1)
                BY <2>7, <3>2
            <4>2. h[S \ {Chosen(S)}] = g[S \ {Chosen(S)}] /\ g[S \ {Chosen(S)}] \in Nat
                BY <2>5, <2>6, <4>1
            <4>3. h[S] = f[Chosen(S)] + g[S \ {Chosen(S)}]
                BY <3>2
            <4>4. f[Chosen(S)] \in Nat
                BY <4>1
            <4> HIDE DEF h
            <4>5. QED
                BY <3>2, <4>2, <4>3, <4>4
        <3>3. QED
            BY <3>1, <3>2
    <2>9. level(h, k)
        <3> HIDE DEF h, next
        <3>1. QED
            BY <2>8
    <2> HIDE DEF level, h
    <2>10. QED
        BY <2>2, <2>9
<1>4. PICK g : \A S \in All : g[S] = next(g, S) /\ g[S] \in Nat
    <2>1. \E g : level(g, n)
        <3>1. n \in 0..n
            BY <1>1
        <3>2. QED
            BY <1>3, <3>1
    <2>2. upTo(n) = All
        BY <1>1
    <2>3. QED
        BY <2>1, <2>2
<1> DEFINE solves(s) == s = [S \in SUBSET Threads |->
                 IF S = {} THEN 0
                 ELSE LET t == CHOOSE x \in S : TRUE IN f[t] + s[S \ {t}]]
           solution == CHOOSE s : solves(s)
           restricted == [S \in SUBSET Threads |-> g[S]]
<1>5. solves(restricted)
    <2>1. \A S \in All : S # {} => S \ {Chosen(S)} \in All
        OBVIOUS
    <2>2. \A S \in All : restricted[S] = next(restricted, S)
        BY <1>4, <2>1
    <2> HIDE DEF restricted
    <2>3. \A S \in All : next(restricted, S) =
                IF S = {} THEN 0
                ELSE LET t == CHOOSE x \in S : TRUE IN f[t] + restricted[S \ {t}]
        BY DEF Chosen
    <2>4. restricted = [S \in SUBSET Threads |-> restricted[S]]
        BY DEF restricted
    <2> HIDE DEF next
    <2>5. QED
        BY <2>2, <2>3, <2>4
<1>6. solves(solution)
    <2> HIDE DEF solves
    <2>1. QED
        BY <1>5
<1>7. SumOf(f) = solution[Threads]
    BY DEF SumOf
<1> HIDE DEF solution
<1>8. \A S \in All : solution[S] = next(solution, S)
    BY <1>6 DEF Chosen
<1>9. \A S \in All : solution[S] \in Nat
    <2> DEFINE P == {S \in All : solution[S] \in Nat}
    <2>1. ASSUME NEW S \in All, \A x \in S : S \ {x} \in P
          PROVE  S \in P
        <3>1. CASE S = {}
            <4>1. solution[S] = 0
                BY <1>8, <3>1
            <4>2. QED
                BY <4>1
        <3>2. CASE S # {}
            <4>1. Chosen(S) \in S /\ f[Chosen(S)] \in Nat
                BY <3>2, ChosenIn
            <4>2. solution[S \ {Chosen(S)}] \in Nat
                BY <2>1, <4>1
            <4>3. QED
                BY <1>8, <3>2, <4>1, <4>2
        <3>3. QED
            BY <3>1, <3>2
    <2> HIDE DEF P
    <2>2. All \subseteq P
        BY <2>1, ThreadsAssumption, SubsetInduction
    <2>3. QED
        BY <2>2 DEF P
<1>10. Sums(solution, f)
    <2>1. {} \in All
        OBVIOUS
    <2>2. QED
        BY <1>8, <1>9, <2>1 DEF Sums
<1>11. QED
    BY <1>7, <1>10

LEMMA SumOfNoWork == SumOf(NoWork) = 0
<1>1. NoWork \in [Threads -> Nat] /\ \A t \in Threads : NoWork[t] = 0
    BY DEF NoWork
<1>2. PICK sum : Sums(sum, NoWork) /\ SumOf(NoWork) = sum[Threads]
    BY <1>1, SumOfSums
<1> DEFINE P == {S \in SUBSET Threads : sum[S] = 0}
<1>3. ASSUME NEW S \in SUBSET Threads, \A x \in S : S \ {x} \in P
      PROVE  S \in P
    <2>1. CASE S = {}
        BY <1>2, <2>1 DEF Sums
    <2>2. CASE S # {}
        <3>1. Chosen(S) \in S
            BY <2>2, ChosenIn
        <3>2. sum[S \ {Chosen(S)}] = 0 /\ NoWork[Chosen(S)] = 0
            BY <1>1, <1>3, <3>1
        <3>3. sum[S] = NoWork[Chosen(S)] + sum[S \ {Chosen(S)}]
            BY <1>2, <2>2 DEF Sums
        <3>4. QED
            BY <3>2, <3>3
    <2>3. QED
        BY <2>1, <2>2
<1>4. Threads \in P
    <2> HIDE DEF P
    <2>1. SUBSET Threads \subseteq P
        BY <1>3, ThreadsAssumption, SubsetInduction
    <2>2. QED
        BY <2>1
<1>5. QED
    BY <1>2, <1>4

\* One encoding more.
LEMMA SumOfOneMore ==
    ASSUME NEW f \in [Threads -> Nat], NEW t \in Threads
    PROVE  /\ SumOf([f EXCEPT ![t] = @ + 1]) = SumOf(f) + 1
           /\ SumOf(f) \in Nat
<1> DEFINE h == [f EXCEPT ![t] = @ + 1]
<1>1. /\ h \in [Threads -> Nat]
      /\ h[t] = f[t] + 1
      /\ \A u \in Threads \ {t} : h[u] = f[u]
    OBVIOUS
<1> HIDE DEF h
<1>2. PICK sum : Sums(sum, f) /\ SumOf(f) = sum[Threads]
    BY SumOfSums
<1>3. PICK more : Sums(more, h) /\ SumOf(h) = more[Threads]
    BY <1>1, SumOfSums
<1>4. /\ sum[{}] = 0 /\ more[{}] = 0
      /\ \A S \in SUBSET Threads : S # {} =>
            /\ sum[S] = f[Chosen(S)] + sum[S \ {Chosen(S)}]
            /\ more[S] = h[Chosen(S)] + more[S \ {Chosen(S)}]
      /\ \A S \in SUBSET Threads : sum[S] \in Nat /\ more[S] \in Nat
    BY <1>2, <1>3 DEF Sums
<1> DEFINE extra(S) == IF t \in S THEN 1 ELSE 0
           P == {S \in SUBSET Threads : more[S] = sum[S] + extra(S)}
<1>5. ASSUME NEW S \in SUBSET Threads, \A x \in S : S \ {x} \in P
      PROVE  S \in P
    <2>1. CASE S = {}
        BY <1>4, <2>1
    <2>2. CASE S # {}
        <3>1. Chosen(S) \in S
            BY <2>2, ChosenIn
        <3>2. PICK x \in S : x = Chosen(S)
            BY <3>1
        <3>3. /\ sum[S] = f[x] + sum[S \ {x}]
              /\ more[S] = h[x] + more[S \ {x}]
            BY <1>4, <2>2, <3>2
        <3>4. /\ sum[S \ {x}] \in Nat /\ more[S \ {x}] \in Nat
              /\ f[x] \in Nat /\ h[x] \in Nat
            BY <1>1, <1>4
        <3>5. more[S \ {x}] = sum[S \ {x}] + extra(S \ {x})
            BY <1>5
        <3>6. h[x] + extra(S \ {x}) = f[x] + extra(S)
            BY <1>1, <3>4
        <3>7. extra(S) \in Nat /\ extra(S \ {x}) \in Nat
            OBVIOUS
        <3> HIDE DEF extra
        <3>8. more[S] = sum[S] + extra(S)
            BY <3>3, <3>4, <3>5, <3>6, <3>7
        <3>9. QED
            BY <3>8
    <2>3. QED
        BY <2>1, <2>2
<1>6. Threads \in P
    <2> HIDE DEF P
    <2>1. SUBSET Threads \subseteq P
        BY <1>5, ThreadsAssumption, SubsetInduction
    <2>2. QED
        BY <2>1
<1>7. more[Threads] = sum[Threads] + 1
    BY <1>6
<1>8. QED
    BY <1>2, <1>3, <1>4, <1>7 DEF h

-----------------------------------------------------------------------------
(* How many encodings a buffer holds. The encodings in the active buffer are *)
(* those that were counted and those of the threads that have recorded and   *)
(* are about to submit; a committed buffer gets no more.                     *)

Late == {t \in Threads : pc[t] = "submitting" /\ handle[t] = active}

Counted ==
    /\ active = NoBuffer => count = 0
    /\ active # NoBuffer => SumOf(work[active]) = count + Cardinality(Late)

EInv == Counted /\ EncodingBound

LEMMA LateBound == IsFiniteSet(Late) /\ Cardinality(Late) \in 0..Cardinality(Threads)
<1>1. Late \subseteq Threads
    BY DEF Late
<1>2. IsFiniteSet(Late) /\ Cardinality(Late) <= Cardinality(Threads)
    BY <1>1, ThreadsAssumption, FS_Subset
<1>3. Cardinality(Late) \in Nat /\ Cardinality(Threads) \in Nat
    BY <1>2, ThreadsAssumption, FS_CardinalityType
<1>4. QED
    BY <1>2, <1>3

LEMMA InitEInv == Init => EInv
<1>1. SUFFICES ASSUME Init PROVE EInv
    OBVIOUS
<1>2. Counted
    BY <1>1 DEF Init, Counted
<1>3. EncodingBound
    <2>1. Cardinality(Threads) \in Nat
        BY ThreadsAssumption, FS_CardinalityType
    <2>2. \A b \in Buffers : SumOf(work[b]) = 0
        BY <1>1, SumOfNoWork DEF Init
    <2>3. QED
        BY <2>1, <2>2, MaxEncodingsAssumption DEF EncodingBound
<1>4. QED
    BY <1>2, <1>3 DEF EInv

\* Whatever happens, the active buffer is within the bound.
LEMMA ActiveBound ==
    ASSUME TypeOK, Counted
    PROVE  active # NoBuffer => SumOf(work[active]) <= MaxEncodings + Cardinality(Threads) - 1
<1>1. Cardinality(Late) \in 0..Cardinality(Threads) /\ Cardinality(Threads) \in Nat
    BY LateBound, ThreadsAssumption, FS_CardinalityType
<1>2. QED
    BY <1>1, MaxEncodingsAssumption DEF TypeOK, Counted

\* A step that records nothing keeps the bound.
LEMMA NothingRecorded ==
    ASSUME EInv, UNCHANGED work, Counted'
    PROVE  EInv'
BY DEF EInv, EncodingBound

\* ... and what was counted, unless it opens, counts or commits.
LEMMA NothingCounted ==
    ASSUME EInv, UNCHANGED <<active, count, work>>,
           \A t \in Threads : t \in Late' <=> t \in Late
    PROVE  EInv'
<1>1. Late' = Late
    BY DEF Late
<1>2. Counted'
    BY <1>1 DEF EInv, Counted
<1>3. QED
    BY <1>2, NothingRecorded

LEMMA OpenBufferEInv ==
    ASSUME IInv, EInv, NEW t \in Threads, OpenBuffer(t) PROVE EInv'
<1>1. PICK b \in Reusable :
        /\ active' = b
        /\ work' = [work EXCEPT ![b] = NoWork]
        /\ handle' = [handle EXCEPT ![t] = b]
    BY DEF OpenBuffer
<1>2. b \in Buffers /\ \A u \in Threads : b # handle[u]
    BY DEF Reusable, Referenced
<1>3. work'[b] = NoWork /\ \A c \in Buffers \ {b} : work'[c] = work[c]
    BY <1>1, <1>2 DEF IInv, TypeOK
<1>4. Late' = {}
    BY <1>1, <1>2 DEF OpenBuffer, IInv, TypeOK, Late
<1>5. Counted'
    <2>1. count' = 0
        BY DEF OpenBuffer, EInv, Counted
    <2>2. Cardinality(Late') = 0
        BY <1>4, FS_EmptySet
    <2>3. QED
        BY <1>1, <1>2, <1>3, <2>1, <2>2, SumOfNoWork, NoBufferAssumption DEF Counted
<1>6. EncodingBound'
    <2>1. Cardinality(Threads) \in Nat
        BY ThreadsAssumption, FS_CardinalityType
    <2>2. SumOf(work'[b]) <= MaxEncodings + Cardinality(Threads) - 1
        BY <1>3, <2>1, SumOfNoWork, MaxEncodingsAssumption
    <2>3. QED
        BY <1>3, <2>2 DEF EInv, EncodingBound
<1>7. QED
    BY <1>5, <1>6 DEF EInv

LEMMA EncodeEInv ==
    ASSUME IInv, EInv, NEW t \in Threads, Encode(t) PROVE EInv'
<1>1. /\ pc[t] = "recording" /\ pc' = [pc EXCEPT ![t] = "submitting"]
      /\ UNCHANGED <<active, count, handle>>
      /\ handle[t] \in Buffers
    BY DEF Encode, shared, IInv, HoldsBuffer
<1>2. CASE status[handle[t]] = "recording"
    <2>1. handle[t] = active
        BY <1>1, <1>2 DEF IInv, OnlyActiveRecords
    <2>2. Late' = Late \cup {t} /\ t \notin Late
        BY <1>1, <2>1 DEF Late, IInv, TypeOK
    <2>3. Cardinality(Late') = Cardinality(Late) + 1 /\ Cardinality(Late) \in Nat
        BY <2>2, LateBound, FS_AddElement, FS_CardinalityType
    <2>4. /\ work[active] \in [Threads -> Nat]
          /\ work'[active] = [work[active] EXCEPT ![t] = @ + 1]
          /\ \A b \in Buffers \ {active} : work'[b] = work[b]
        BY <1>1, <1>2, <2>1 DEF Encode, IInv, TypeOK
    <2>5. SumOf(work'[active]) = SumOf(work[active]) + 1 /\ SumOf(work[active]) \in Nat
        BY <2>4, SumOfOneMore
    <2>6. Counted'
        <3>1. SumOf(work[active]) = count + Cardinality(Late)
            BY <1>1, <2>1, NoBufferAssumption DEF EInv, Counted
        <3>2. count \in Nat
            BY MaxEncodingsAssumption DEF IInv, TypeOK
        <3>3. SumOf(work'[active]) = count + Cardinality(Late')
            BY <2>3, <2>5, <3>1, <3>2
        <3>4. QED
            BY <1>1, <2>1, <3>3, NoBufferAssumption DEF Counted
    <2>7. TypeOK'
        BY EncodePreserves DEF IInv
    <2>8. SumOf(work[active])' <= MaxEncodings + Cardinality(Threads) - 1
        <3>1. (TypeOK /\ Counted => (active # NoBuffer =>
                SumOf(work[active]) <= MaxEncodings + Cardinality(Threads) - 1))'
            BY ActiveBound, PTL
        <3>2. QED
            BY <1>1, <2>1, <2>6, <2>7, <3>1, NoBufferAssumption
    <2>9. EncodingBound'
        BY <1>1, <2>4, <2>8 DEF EInv, EncodingBound
    <2>10. QED
        BY <2>6, <2>9 DEF EInv
<1>3. CASE status[handle[t]] # "recording"
    <2>1. handle[t] # active
        BY <1>1, <1>3, NoBufferAssumption DEF IInv, ActiveRecords
    <2>2. \A u \in Threads : u \in Late' <=> u \in Late
        BY <1>1, <2>1 DEF Late, IInv, TypeOK
    <2>3. work' = work
        BY <1>3 DEF Encode
    <2>4. QED
        BY <1>1, <2>2, <2>3, NothingCounted
<1>4. QED
    BY <1>2, <1>3

LEMMA SubmitCountedEInv ==
    ASSUME IInv, EInv, NEW t \in Threads, SubmitCounted(t) PROVE EInv'
<1>1. /\ pc[t] = "submitting" /\ handle[t] = active /\ active \in Buffers
      /\ pc' = [pc EXCEPT ![t] = "idle"] /\ handle' = [handle EXCEPT ![t] = NoBuffer]
      /\ count' = count + 1 /\ UNCHANGED <<active, work>>
    BY DEF SubmitCounted, EndOperation, device, IInv, HoldsBuffer
<1>2. Late' = Late \ {t} /\ t \in Late
    BY <1>1 DEF Late, IInv, TypeOK
<1>3. Cardinality(Late') = Cardinality(Late) - 1 /\ Cardinality(Late) \in Nat
    BY <1>2, LateBound, FS_RemoveElement, FS_CardinalityType
<1>4. Counted'
    <2>1. SumOf(work[active]) = count + Cardinality(Late) /\ count \in Nat
        BY <1>1, NoBufferAssumption, MaxEncodingsAssumption DEF EInv, Counted, IInv, TypeOK
    <2>2. QED
        BY <1>1, <1>3, <2>1, NoBufferAssumption DEF Counted
<1>5. QED
    BY <1>1, <1>4, NothingRecorded

LEMMA CommitEInv ==
    ASSUME EInv, CommitActive
    PROVE  EInv'
<1>1. Counted'
    BY DEF CommitActive, Counted
<1>2. QED
    BY <1>1, NothingRecorded DEF CommitActive

LEMMA NextEInv == IInv /\ EInv /\ [Next]_vars => EInv'
<1>1. SUFFICES ASSUME IInv, EInv, [Next]_vars PROVE EInv'
    OBVIOUS
<1>2. ASSUME NEW t \in Threads,
             \/ ShareBuffer(t) \/ SubmitOutOfOrder(t) \/ Await(t) \/ AwaitFailed(t)
             \/ SynchronizeReturns(t) \/ Observe(t)
             \/ (Synchronize(t) /\ active = NoBuffer)
      PROVE  EInv'
    <2>1. UNCHANGED <<active, count, work>>
        BY <1>2 DEF ShareBuffer, SubmitOutOfOrder, Await, AwaitFailed, SynchronizeReturns,
                    Observe, Synchronize, shared, device
    <2>2. ASSUME NEW u \in Threads
          PROVE  u \in Late' <=> u \in Late
        <3>1. /\ pc[t] # "submitting" \/ handle[t] # active
              /\ pc'[t] # "submitting"
              /\ u # t => pc'[u] = pc[u] /\ handle'[u] = handle[u]
              /\ active' = active
            BY <1>1, <1>2 DEF ShareBuffer, SubmitOutOfOrder, Await, AwaitFailed,
               SynchronizeReturns, Observe, Synchronize, EndOperation, shared, device, IInv, TypeOK
        <3>2. QED
            BY <3>1 DEF Late
    <2>3. QED
        BY <1>1, <2>1, <2>2, NothingCounted
<1>3. ASSUME NEW t \in Threads, SubmitCommits(t) \/ (Synchronize(t) /\ active # NoBuffer)
      PROVE  EInv'
    <2>1. CommitActive
        BY <1>3 DEF SubmitCommits, Synchronize
    <2>2. QED
        BY <1>1, <2>1, CommitEInv
<1>4. CASE GpuFinish \/ UNCHANGED vars
    <2>1. UNCHANGED <<active, count, work, pc, handle>>
        BY <1>4 DEF GpuFinish, vars, shared, local
    <2>2. \A u \in Threads : u \in Late' <=> u \in Late
        BY <2>1 DEF Late
    <2>3. QED
        BY <1>1, <2>1, <2>2, NothingCounted
<1>5. QED
    BY <1>1, <1>2, <1>3, <1>4, OpenBufferEInv, EncodeEInv, SubmitCountedEInv
       DEF Next, Continue, Submit

(* However many threads record at once, a buffer holds at most the limit and *)
(* the encodings of the threads that were still to submit.                   *)
THEOREM BuffersAreBounded == Spec => []EncodingBound
<1>1. IInv /\ [Next]_vars => IInv'
    BY NextPreserves
<1>2. Init => IInv /\ EInv
    BY InitEstablishes, InitEInv
<1>3. IInv /\ EInv /\ [Next]_vars => EInv'
    BY NextEInv
<1>4. EInv => EncodingBound
    BY DEF EInv
<1>5. QED
    BY <1>1, <1>2, <1>3, <1>4, PTL DEF Spec
=============================================================================
