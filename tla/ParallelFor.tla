----------------------------- MODULE ParallelFor -----------------------------
(***************************************************************************)
(* parallel_for(), the multi-threaded CPU device's loop: the calling       *)
(* thread splits [begin, end) into chunks, starts a thread for every chunk *)
(* but the first, runs the first one itself and joins the others. Bodies   *)
(* write the output element (or row) of their item without any lock.       *)
(***************************************************************************)
EXTENDS Integers

CONSTANTS
    Bounds,        \* the [begin, end) pairs that are asked for
    MaxThreads,    \* maximum_threads, thread_count() of the device
    MinItems,      \* minimum_items_per_thread
    StartMayFail   \* can the creation of a thread fail?

ASSUME BoundsAssumption == Bounds \subseteq Int \X Int
ASSUME MaxThreadsAssumption == MaxThreads \in Nat \ {0}
ASSUME MinItemsAssumption == MinItems \in Nat \ {0}
ASSUME StartMayFailAssumption == StartMayFail \in BOOLEAN

VARIABLES
    begin, end,   \* the arguments
    workers,      \* threads that take part, the caller (0) included
    chunk,        \* items per worker
    pc,           \* where the calling thread is
    launched,     \* workers below this number have been started
    joined,       \* workers from 1 to this number have been joined
    next,         \* next[w]: the next item of a started worker
    written       \* <<w, i>>: worker w wrote the output of item i

vars == <<begin, end, workers, chunk, pc, launched, joined, next, written>>
arguments == <<begin, end>>
plan == <<workers, chunk>>

Least(a, b) == IF a < b THEN a ELSE b
RoundedUp(a, b) == (a + b - 1) \div b

Ids == 0..MaxThreads - 1

\* The chunk of worker w. For the last workers it may be empty, even reversed.
FirstOf(w) == begin + w * chunk

\* Mutant: the last chunk is not cut off at the end.
LastOf_Uncut(w) == FirstOf(w) + chunk

\* Mutant: the end of a chunk is taken to be its last item.
LastOf_Inclusive(w) == Least(end, FirstOf(w) + chunk + 1)

LastOf(w) == Least(end, FirstOf(w) + chunk)

Running(w) == w < launched /\ next[w] < LastOf(w)

-----------------------------------------------------------------------------
Init ==
    /\ \E b \in Bounds : begin = b[1] /\ end = b[2]
    /\ workers = 0
    /\ chunk = 0
    /\ pc = "called"
    /\ launched = 0
    /\ joined = 0
    /\ next = [w \in Ids |-> 0]
    /\ written = {}

NothingToDo ==
    /\ pc = "called"
    /\ end - begin <= 0
    /\ pc' = "returned"
    /\ UNCHANGED <<arguments, plan, launched, joined, next, written>>

\* One worker means the calling thread itself, with everything.
Split ==
    /\ pc = "called"
    /\ end - begin > 0
    /\ workers' = Least(MaxThreads, RoundedUp(end - begin, MinItems))
    /\ chunk' = RoundedUp(end - begin, workers')
    /\ launched' = 1
    /\ next' = [next EXCEPT ![0] = begin]
    /\ pc' = IF workers' <= 1 THEN "own" ELSE "launching"
    /\ UNCHANGED <<arguments, joined, written>>

\* threads.emplace_back()
Launch ==
    /\ pc = "launching"
    /\ launched < workers
    /\ next' = [next EXCEPT ![launched] = FirstOf(launched)]
    /\ launched' = launched + 1
    /\ UNCHANGED <<arguments, plan, pc, joined, written>>

\* std::thread throws; the vector of joinable threads is destroyed, which
\* calls std::terminate.
LaunchFails ==
    /\ StartMayFail
    /\ pc = "launching"
    /\ launched < workers
    /\ pc' = "terminated"
    /\ UNCHANGED <<arguments, plan, launched, joined, next, written>>

AllLaunched ==
    /\ pc = "launching"
    /\ launched = workers
    /\ pc' = "own"
    /\ UNCHANGED <<arguments, plan, launched, joined, next, written>>

\* One iteration of the body, in whichever thread; the caller comes to its own
\* chunk when the others are started.
Work(w) ==
    /\ pc # "terminated"
    /\ Running(w)
    /\ w = 0 => pc = "own"
    /\ written' = written \cup {<<w, next[w]>>}
    /\ next' = [next EXCEPT ![w] = @ + 1]
    /\ UNCHANGED <<arguments, plan, pc, launched, joined>>

OwnDone ==
    /\ pc = "own"
    /\ ~Running(0)
    /\ pc' = "joining"
    /\ UNCHANGED <<arguments, plan, launched, joined, next, written>>

\* Mutant: join() does not wait for the thread.
Join_Detaches ==
    /\ pc = "joining"
    /\ joined + 1 < workers
    /\ joined' = joined + 1
    /\ UNCHANGED <<arguments, plan, pc, launched, next, written>>

Join ==
    /\ pc = "joining"
    /\ joined + 1 < workers
    /\ ~Running(joined + 1)
    /\ joined' = joined + 1
    /\ UNCHANGED <<arguments, plan, pc, launched, next, written>>

\* Mutant: as many joins as workers, although the caller is one of them.
AllJoined_CountsCaller ==
    /\ pc = "joining"
    /\ joined >= workers
    /\ pc' = "returned"
    /\ UNCHANGED <<arguments, plan, launched, joined, next, written>>

AllJoined ==
    /\ pc = "joining"
    /\ joined + 1 >= workers
    /\ pc' = "returned"
    /\ UNCHANGED <<arguments, plan, launched, joined, next, written>>

Caller == \/ NothingToDo \/ Split \/ Launch \/ LaunchFails \/ AllLaunched
          \/ OwnDone \/ Join \/ AllJoined

Next == Caller \/ \E w \in Ids : Work(w)

Spec == Init /\ [][Next]_vars

\* The operating system runs every thread; thread creation may always fail.
Fairness == WF_vars(Caller) /\ \A w \in Ids : WF_vars(Work(w))
FairSpec == Spec /\ Fairness

-----------------------------------------------------------------------------
Items == begin..end - 1
WrittenItems == {x[2] : x \in written}

(* Types; in particular no body runs on an item outside of the range.        *)
TypeOK ==
    /\ begin \in Int
    /\ end \in Int
    /\ workers \in 0..MaxThreads
    /\ chunk \in Nat
    /\ pc \in {"called", "launching", "own", "joining", "returned", "terminated"}
    /\ launched \in 0..MaxThreads
    /\ joined \in 0..MaxThreads - 1
    /\ next \in [Ids -> Int]
    /\ written \subseteq Ids \X Items

(* The bodies share the output without a lock, so no two threads may ever    *)
(* write the same item; the chunks must not overlap.                         *)
NoSharedItem == \A x, y \in written : x[2] = y[2] => x = y

(* When parallel_for() returns, every item has been worked on, and no thread *)
(* is left that could still write or use the captured function.              *)
CompleteOnReturn ==
    pc = "returned" => WrittenItems = Items /\ \A w \in Ids : ~Running(w)

(* The caller gets control back unless the process is terminated.            *)
Returns == <>(pc \in {"returned", "terminated"})
=============================================================================
