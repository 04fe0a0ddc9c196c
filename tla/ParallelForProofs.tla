-------------------------- MODULE ParallelForProofs --------------------------
(***************************************************************************)
(* Proofs about parallel_for() for every range and every number of threads *)
(* and items: the chunks cover the range without overlapping, so lock-free *)
(* bodies never meet, and nothing is left to do when the call returns.     *)
(***************************************************************************)
EXTENDS ParallelFor, TLAPS

(* Rounded up, a quotient times its divisor reaches the dividend.            *)
LEMMA RoundedUpReaches ==
    ASSUME NEW a \in Nat, NEW b \in Nat, a > 0, b > 0
    PROVE  /\ RoundedUp(a, b) \in Nat
           /\ RoundedUp(a, b) >= 1
           /\ RoundedUp(a, b) * b >= a
<1> DEFINE q == RoundedUp(a, b)
           r == (a + b - 1) % b
<1>1. q \in Int /\ r \in 0..b - 1 /\ a + b - 1 = b * q + r
  BY DEF RoundedUp
<1>2. b * q \in Int /\ b * q >= a
  <2> DEFINE product == b * q
  <2>1. product \in Int /\ r \in 0..b - 1 /\ a + b - 1 = product + r
    BY <1>1
  <2>2. product \in Int /\ product >= a
    <3> HIDE DEF product, r
    <3> QED  BY <2>1
  <2> QED  BY <2>2
<1>3. q >= 1
  <2>1. ASSUME q <= 0 PROVE FALSE
    <3>1. PICK k \in Nat : q = -k
      <4>1. -q \in Nat /\ q = -(-q)
        BY <1>1, <2>1
      <4> QED  BY <4>1
    <3>2. b * k \in Nat /\ b * q = -(b * k)
      BY <3>1
    <3> QED  BY <3>2, <1>2
  <2> QED  BY <2>1, <1>1
<1>4. q * b = b * q
  BY <1>1
<1> QED  BY <1>1, <1>2, <1>3, <1>4

(* A worker's chunk ends before the chunks of later workers begin.           *)
LEMMA ChunksInOrder ==
    ASSUME NEW size \in Nat, NEW w \in Nat, NEW v \in Nat, w < v
    PROVE  w * size \in Nat /\ v * size \in Nat /\ w * size + size <= v * size
<1>1. PICK k \in Nat : v = w + 1 + k
  <2>1. v - w - 1 \in Nat /\ v = w + 1 + (v - w - 1)
    OBVIOUS
  <2> QED  BY <2>1
<1>2. v * size = w * size + size + k * size
  BY <1>1
<1>3. w * size \in Nat /\ k * size \in Nat
  BY <1>1
<1> QED  BY <1>2, <1>3

(* Every position below the sum of the chunks is in one of them.             *)
LEMMA ChunksCover ==
    ASSUME NEW size \in Nat, size > 0, NEW count \in Nat, NEW total \in Nat,
           count * size >= total, NEW p \in 0..total - 1
    PROVE  \E w \in 0..count - 1 : w * size <= p /\ p < w * size + size
<1> DEFINE w == p \div size
           product == w * size
<1>1. w \in Nat /\ product \in Nat /\ product <= p /\ p < product + size
  <2>1. w \in Nat /\ p % size \in 0..size - 1 /\ p = size * w + (p % size)
    OBVIOUS
  <2>2. product = size * w /\ product \in Nat
    BY <2>1
  <2> HIDE DEF product
  <2> QED  BY <2>1, <2>2
<1>2. w < count
  <2>1. CASE w = count
    <3>1. product >= total
      BY <2>1
    <3> HIDE DEF product
    <3> QED  BY <3>1, <1>1
  <2>2. CASE count < w
    <3>1. count * size \in Nat /\ count * size + size <= w * size
      <4> HIDE DEF w
      <4> QED  BY <2>2, <1>1, ChunksInOrder
    <3>2. product >= total
      <4> DEFINE all == count * size
      <4>1. all \in Nat /\ all >= total /\ all + size <= product
        BY <3>1
      <4> HIDE DEF product, all
      <4> QED  BY <4>1, <1>1
    <3> HIDE DEF product
    <3> QED  BY <3>2, <1>1
  <2> HIDE DEF w
  <2> QED  BY <2>1, <2>2, <1>1
<1> HIDE DEF w
<1> QED  BY <1>1, <1>2

-----------------------------------------------------------------------------
(* The inductive invariant.                                                  *)

\* The plan covers the range; without a range there is no plan.
Planned ==
    /\ pc = "called" => launched = 0 /\ written = {}
    /\ launched = 0 => pc \in {"called", "returned"} /\ written = {} 
    /\ launched = 0 => workers = 0
    /\ launched = 0 /\ pc = "returned" => end <= begin
    /\ launched > 0 =>
        /\ begin < end
        /\ workers \in 1..MaxThreads
        /\ chunk > 0
        /\ workers * chunk >= end - begin
        /\ launched <= workers
        /\ pc \in {"own", "joining", "returned"} => launched = workers

\* A worker goes through its chunk from the first item on.
InChunk ==
    \A w \in Ids : w < launched =>
        /\ FirstOf(w) <= next[w]
        /\ next[w] = FirstOf(w) \/ next[w] <= LastOf(w)

\* What has been written is exactly what the workers have behind them.
WrittenIsPast ==
    \A w \in Ids, i \in Int :
        <<w, i>> \in written <=> w < launched /\ FirstOf(w) <= i /\ i < next[w]

\* The calling thread has passed only threads that are done.
PassedAreDone ==
    /\ pc \in {"joining", "returned"} => ~Running(0)
    /\ pc \in {"joining", "returned"} => \A w \in 1..joined : ~Running(w)
    /\ pc = "returned" => joined + 1 >= workers
    /\ pc \in {"called", "launching", "own"} => joined = 0

IInv == TypeOK /\ Planned /\ InChunk /\ WrittenIsPast /\ PassedAreDone

USE BoundsAssumption, MaxThreadsAssumption, MinItemsAssumption

LEMMA LastOfInRange ==
    ASSUME TypeOK, NEW w \in Ids
    PROVE  FirstOf(w) \in Int /\ FirstOf(w) >= begin
           /\ LastOf(w) \in Int /\ LastOf(w) <= end /\ LastOf(w) <= FirstOf(w) + chunk
<1>1. w * chunk \in Nat
  BY DEF TypeOK, Ids
<1>2. FirstOf(w) \in Int /\ FirstOf(w) >= begin
  <2> DEFINE product == w * chunk
  <2>1. product \in Nat /\ begin \in Int /\ FirstOf(w) = begin + product
    BY <1>1 DEF TypeOK, FirstOf
  <2> HIDE DEF product
  <2> QED  BY <2>1
<1> QED  BY <1>2 DEF LastOf, Least, TypeOK

LEMMA InitIInv == Init => IInv
<1> SUFFICES ASSUME Init PROVE IInv
  OBVIOUS
<1>1. begin \in Int /\ end \in Int
  BY DEF Init
<1>2. TypeOK
  BY <1>1 DEF Init, TypeOK, Ids
<1>3. Planned /\ InChunk /\ WrittenIsPast /\ PassedAreDone
  BY DEF Init, Planned, InChunk, WrittenIsPast, PassedAreDone, Ids
<1> QED  BY <1>2, <1>3 DEF IInv

LEMMA SplitIInv == ASSUME IInv, Split PROVE IInv'
<1> DEFINE count == end - begin
           useful == RoundedUp(count, MinItems)
<1>1. count \in Nat /\ count > 0 /\ begin \in Int /\ end \in Int
  BY DEF IInv, TypeOK, Split
<1>2. useful \in Nat /\ useful >= 1
  <2> HIDE DEF count
  <2> QED  BY <1>1, RoundedUpReaches
<1>3. workers' = Least(MaxThreads, useful) /\ chunk' = RoundedUp(count, workers')
  BY DEF Split
<1>4. workers' \in 1..MaxThreads
  <2> HIDE DEF useful
  <2> QED  BY <1>2, <1>3 DEF Least
<1>5. chunk' \in Nat /\ chunk' >= 1 /\ chunk' * workers' >= count
  <2> HIDE DEF count
  <2> QED  BY <1>1, <1>3, <1>4, RoundedUpReaches
<1>6. workers' * chunk' = chunk' * workers'
  BY <1>4, <1>5
<1>7. /\ UNCHANGED <<begin, end, joined, written>> /\ launched' = 1
      /\ next' = [next EXCEPT ![0] = begin] /\ pc' \in {"own", "launching"}
      /\ written = {} /\ 0 \in Ids
  BY DEF Split, arguments, IInv, Planned, Ids
<1>8. TypeOK'
  BY <1>4, <1>5, <1>7 DEF IInv, TypeOK, Ids, Items
<1>9. Planned'
  <2>1. (pc' = "own") => workers' = 1
    BY <1>4 DEF Split
  <2>2. workers' * chunk' >= end' - begin'
    BY <1>5, <1>6, <1>7
  <2>3. pc' # "called" /\ pc' # "returned" /\ pc' # "joining" /\ launched' = 1
    BY <1>7
  <2>4. begin' < end' /\ chunk' > 0 /\ launched' <= workers'
    BY <1>1, <1>4, <1>5, <1>7
  <2> QED  BY <1>4, <2>1, <2>2, <2>3, <2>4 DEF Planned
<1>10. FirstOf(0)' = begin
  <2>1. \A n \in Nat : 0 * n = 0
    OBVIOUS
  <2>2. FirstOf(0)' = begin' + 0 * chunk'
    BY DEF FirstOf
  <2>3. begin' + 0 = begin
    BY <1>1, <1>7
  <2> QED  BY <2>1, <2>2, <2>3, <1>5
<1>11. ASSUME NEW w \in Ids, w < 1 PROVE w = 0
  BY <1>11 DEF Ids
<1>12. next'[0] = begin
  BY <1>7 DEF IInv, TypeOK
<1>13. InChunk'
  BY <1>1, <1>7, <1>10, <1>11, <1>12 DEF InChunk
<1>14. WrittenIsPast'
  BY <1>1, <1>7, <1>10, <1>11, <1>12 DEF WrittenIsPast
<1>15. PassedAreDone'
  BY <1>7 DEF Split, IInv, PassedAreDone
<1> QED  BY <1>8, <1>9, <1>13, <1>14, <1>15 DEF IInv

LEMMA LaunchIInv == ASSUME IInv, Launch PROVE IInv'
<1>1. launched \in Ids /\ launched \in Nat /\ workers \in 1..MaxThreads /\ launched + 1 <= workers /\ launched > 0
  BY DEF IInv, TypeOK, Planned, Launch, Ids
<1>2. /\ UNCHANGED <<begin, end, workers, chunk, joined, written, pc>>
      /\ pc = "launching" /\ launched' = launched + 1
      /\ next' = [next EXCEPT ![launched] = FirstOf(launched)]
  BY DEF Launch, arguments, plan
<1>3. FirstOf(launched) \in Int
  BY <1>1, LastOfInRange DEF IInv
<1>4. TypeOK'
  BY <1>1, <1>2, <1>3 DEF IInv, TypeOK, Items
<1>5. Planned'
  BY <1>1, <1>2 DEF IInv, Planned
<1>6. ASSUME NEW w \in Ids
      PROVE  FirstOf(w)' = FirstOf(w) /\ LastOf(w)' = LastOf(w) /\ FirstOf(w) \in Int
  BY <1>2, LastOfInRange DEF FirstOf, LastOf, IInv
<1>7. ASSUME NEW w \in Ids, w < launched PROVE next'[w] = next[w] /\ w < launched'
  BY <1>1, <1>2, <1>7 DEF IInv, TypeOK, Ids
<1>8. ASSUME NEW w \in Ids, w < launched', ~(w < launched) PROVE w = launched
  BY <1>1, <1>2, <1>8 DEF Ids
<1>9. next'[launched] = FirstOf(launched)
  BY <1>1, <1>2 DEF IInv, TypeOK
<1>10. InChunk'
  BY <1>1, <1>3, <1>6, <1>7, <1>8, <1>9 DEF IInv, InChunk
<1>11. WrittenIsPast'
  <2> SUFFICES ASSUME NEW w \in Ids, NEW i \in Int
               PROVE  <<w, i>> \in written <=> w < launched' /\ FirstOf(w) <= i /\ i < next'[w]
    BY <1>2, <1>6 DEF WrittenIsPast
  <2>1. CASE w < launched
    BY <2>1, <1>7 DEF IInv, WrittenIsPast
  <2>2. CASE ~(w < launched)
    <3>1. <<w, i>> \notin written
      BY <2>2 DEF IInv, WrittenIsPast
    <3>2. w < launched' => ~(FirstOf(w) <= i /\ i < next'[w])
      BY <2>2, <1>3, <1>8, <1>9
    <3> QED  BY <3>1, <3>2
  <2> QED  BY <2>1, <2>2
<1>12. PassedAreDone'
  BY <1>2 DEF IInv, PassedAreDone
<1> QED  BY <1>4, <1>5, <1>10, <1>11, <1>12 DEF IInv

LEMMA WorkIInv == ASSUME IInv, NEW w \in Ids, Work(w) PROVE IInv'
<1> DEFINE i == next[w]
<1>1. /\ UNCHANGED <<begin, end, workers, chunk, pc, launched, joined>>
      /\ written' = written \cup {<<w, i>>} /\ next' = [next EXCEPT ![w] = i + 1]
      /\ w < launched /\ i < LastOf(w) /\ (w = 0 => pc = "own") /\ Running(w)
  BY DEF Work, Running, arguments, plan
<1>2. /\ FirstOf(w) \in Int /\ LastOf(w) \in Int /\ begin \in Int /\ end \in Int
      /\ FirstOf(w) >= begin /\ LastOf(w) <= end /\ i \in Int /\ FirstOf(w) <= i
  BY <1>1, LastOfInRange DEF IInv, TypeOK, InChunk
<1>3. i \in Items
  BY <1>1, <1>2 DEF Items
<1>4. next' \in [Ids -> Int] /\ next'[w] = i + 1
      /\ \A v \in Ids \ {w} : next'[v] = next[v]
  BY <1>1, <1>2 DEF IInv, TypeOK
<1>5. TypeOK'
  BY <1>1, <1>3, <1>4 DEF IInv, TypeOK, Items
<1>6. Planned'
  BY <1>1 DEF IInv, Planned, TypeOK, Ids
<1>7. \A v \in Ids : FirstOf(v)' = FirstOf(v) /\ LastOf(v)' = LastOf(v)
  BY <1>1 DEF FirstOf, LastOf
<1>8. InChunk'
  BY <1>1, <1>2, <1>4, <1>7 DEF IInv, InChunk
<1>9. WrittenIsPast'
  <2> SUFFICES ASSUME NEW v \in Ids, NEW j \in Int
               PROVE  <<v, j>> \in written' <=> v < launched /\ FirstOf(v) <= j /\ j < next'[v]
    BY <1>1, <1>7 DEF WrittenIsPast
  <2>1. <<v, j>> \in written <=> v < launched /\ FirstOf(v) <= j /\ j < next[v]
    BY DEF IInv, WrittenIsPast
  <2>2. CASE v # w
    BY <2>1, <2>2, <1>1, <1>4
  <2>3. CASE v = w
    <3>1. <<v, j>> \in written' <=> <<v, j>> \in written \/ j = i
      BY <2>3, <1>1
    <3> HIDE DEF i
    <3>2. j < next'[v] <=> j < i \/ j = i
      BY <2>3, <1>2, <1>4
    <3> QED  BY <2>1, <2>3, <3>1, <3>2, <1>1, <1>2 DEF i
  <2> QED  BY <2>2, <2>3
<1>10. PassedAreDone'
  <2>1. ASSUME NEW v \in Ids, ~Running(v) PROVE ~Running(v)'
    BY <2>1, <1>1, <1>4, <1>7 DEF Running
  <2>2. 0 \in Ids /\ 1..joined \subseteq Ids
    BY DEF IInv, TypeOK, Ids
  <2> QED  BY <2>1, <2>2, <1>1 DEF IInv, PassedAreDone
<1> QED  BY <1>5, <1>6, <1>8, <1>9, <1>10 DEF IInv

(* The steps of the calling thread that leave the workers alone.             *)
LEMMA OtherIInv ==
    ASSUME IInv,
           NothingToDo \/ LaunchFails \/ AllLaunched \/ OwnDone \/ Join \/ AllJoined
    PROVE  IInv'
<1>1. UNCHANGED <<begin, end, workers, chunk, launched, next, written>>
  BY DEF NothingToDo, LaunchFails, AllLaunched, OwnDone, Join, AllJoined, arguments, plan
<1>2. TypeOK'
  BY <1>1 DEF IInv, TypeOK, Items, NothingToDo, LaunchFails, AllLaunched, OwnDone, Join, AllJoined
<1>3. Planned'
  BY <1>1 DEF IInv, TypeOK, Planned,
     NothingToDo, LaunchFails, AllLaunched, OwnDone, Join, AllJoined
<1>4. InChunk' /\ WrittenIsPast'
  BY <1>1 DEF IInv, InChunk, WrittenIsPast, FirstOf, LastOf
<1>5. \A w : Running(w)' <=> Running(w)
  BY <1>1 DEF Running, FirstOf, LastOf
<1>6. PassedAreDone'
  <2>1. CASE NothingToDo
    <3>1. launched = 0 /\ workers' = 0 /\ joined' = 0 /\ pc' = "returned"
      BY <2>1 DEF NothingToDo, plan, IInv, Planned, PassedAreDone
    <3>2. \A w \in Nat : ~Running(w)'
      BY <3>1, <1>1 DEF Running
    <3>3. joined' + 1 >= workers'
      BY <3>1
    <3> QED  BY <3>1, <3>2, <3>3 DEF PassedAreDone
  <2>2. CASE LaunchFails \/ AllLaunched
    BY <2>2 DEF LaunchFails, AllLaunched, IInv, PassedAreDone
  <2>3. CASE OwnDone
    BY <2>3, <1>5 DEF OwnDone, IInv, PassedAreDone
  <2>4. CASE Join
    <3>1. 1..joined' = 1..joined \cup {joined + 1} /\ pc' = "joining" /\ pc = "joining"
      BY <2>4 DEF Join, IInv, TypeOK
    <3> QED  BY <2>4, <3>1, <1>5 DEF Join, IInv, PassedAreDone
  <2>5. CASE AllJoined
    BY <2>5, <1>5 DEF AllJoined, plan, arguments, IInv, PassedAreDone
  <2> QED  BY <2>1, <2>2, <2>3, <2>4, <2>5
<1> QED  BY <1>2, <1>3, <1>4, <1>6 DEF IInv

LEMMA NextIInv == IInv /\ [Next]_vars => IInv'
<1> SUFFICES ASSUME IInv, [Next]_vars PROVE IInv'
  OBVIOUS
<1>1. CASE Split
  BY <1>1, SplitIInv
<1>2. CASE Launch
  BY <1>2, LaunchIInv
<1>3. CASE NothingToDo \/ LaunchFails \/ AllLaunched \/ OwnDone \/ Join \/ AllJoined
  BY <1>3, OtherIInv
<1>4. ASSUME NEW w \in Ids, Work(w) PROVE IInv'
  BY <1>4, WorkIInv
<1>5. CASE UNCHANGED vars
  BY <1>5 DEF vars, IInv, TypeOK, Planned, InChunk, WrittenIsPast, PassedAreDone,
     Running, FirstOf, LastOf, Items
<1> QED  BY <1>1, <1>2, <1>3, <1>4, <1>5 DEF Next, Caller

LEMMA Inductive == Spec => []IInv
<1>1. Init => IInv
  BY InitIInv
<1>2. IInv /\ [Next]_vars => IInv'
  BY NextIInv
<1> QED  BY <1>1, <1>2, PTL DEF Spec

-----------------------------------------------------------------------------
(* Types, and with them that no body runs on an item outside of the range.   *)
THEOREM TypeCorrect == Spec => []TypeOK
<1>1. IInv => TypeOK
  BY DEF IInv
<1> QED  BY <1>1, Inductive, PTL

(* Two workers at the same item would be in the same chunk.                  *)
LEMMA SameChunk ==
    ASSUME IInv, NEW w \in Ids, NEW v \in Ids, w < v, NEW i \in Int,
           <<w, i>> \in written
    PROVE  <<v, i>> \notin written
<1>1. /\ w < launched /\ FirstOf(w) <= i /\ i < next[w]
      /\ next[w] = FirstOf(w) \/ next[w] <= LastOf(w)
  BY DEF IInv, WrittenIsPast, InChunk
<1>2. next[w] \in Int /\ FirstOf(w) \in Int /\ LastOf(w) \in Int /\ FirstOf(v) \in Int
      /\ LastOf(w) <= FirstOf(w) + chunk /\ chunk \in Nat /\ begin \in Int
  BY LastOfInRange DEF IInv, TypeOK
<1>3. i < FirstOf(w) + chunk
  BY <1>1, <1>2
<1>4. FirstOf(w) + chunk <= FirstOf(v)
  <2>1. w \in Nat /\ v \in Nat
    BY DEF Ids
  <2> DEFINE wc == w * chunk
             vc == v * chunk
  <2>2. wc \in Nat /\ vc \in Nat /\ wc + chunk <= vc
    BY <2>1, <1>2, ChunksInOrder
  <2>3. FirstOf(w) = begin + wc /\ FirstOf(v) = begin + vc
    BY DEF FirstOf
  <2> HIDE DEF wc, vc
  <2> QED  BY <2>2, <2>3, <1>2
<1>5. ~(FirstOf(v) <= i)
  BY <1>2, <1>3, <1>4
<1> QED  BY <1>5 DEF IInv, WrittenIsPast

(* The lock-free bodies are safe: no item is ever worked on by two threads.  *)
THEOREM Exclusion == Spec => []NoSharedItem
<1>1. IInv => NoSharedItem
  <2> SUFFICES ASSUME IInv, NEW x \in written, NEW y \in written, x[2] = y[2]
               PROVE  x = y
    BY DEF NoSharedItem
  <2>1. x \in Ids \X Items /\ y \in Ids \X Items
    BY DEF IInv, TypeOK
  <2>2. PICK w \in Ids, v \in Ids, i \in Int : x = <<w, i>> /\ y = <<v, i>>
    BY <2>1 DEF Items
  <2>3. CASE w = v
    BY <2>2, <2>3
  <2>4. CASE w < v
    BY <2>2, <2>4, SameChunk
  <2>5. CASE v < w
    BY <2>2, <2>5, SameChunk
  <2> QED  BY <2>3, <2>4, <2>5 DEF Ids
<1> QED  BY <1>1, Inductive, PTL

(* When parallel_for() returns every item is done and every thread joined.   *)
THEOREM Completion == Spec => []CompleteOnReturn
<1>1. ASSUME IInv, pc = "returned", NEW w \in Ids PROVE ~Running(w)
  <2>1. CASE w < launched
    <3>1. w \in {0} \cup 1..joined
      BY <1>1, <2>1 DEF IInv, TypeOK, Planned, PassedAreDone, Ids
    <3> QED  BY <1>1, <3>1 DEF IInv, PassedAreDone
  <2>2. CASE ~(w < launched)
    BY <2>2 DEF Running
  <2> QED  BY <2>1, <2>2
<1>2. ASSUME IInv, pc = "returned", NEW i \in Items
      PROVE  \E x \in written : x[2] = i
  <2>1. begin \in Int /\ end \in Int /\ i \in Int /\ begin <= i /\ i < end /\ chunk \in Nat
    BY <1>2 DEF IInv, TypeOK, Items
  <2>2. launched > 0
    BY <1>2, <2>1 DEF IInv, TypeOK, Planned
  <2>3. /\ launched = workers /\ workers \in 1..MaxThreads /\ chunk > 0
        /\ workers * chunk >= end - begin
    BY <1>2, <2>2 DEF IInv, Planned
  <2> DEFINE total == end - begin
             p == i - begin
  <2>4. total \in Nat /\ p \in 0..total - 1 /\ workers \in Nat
    BY <2>1, <2>3
  <2>5. PICK w \in 0..workers - 1 : w * chunk <= p /\ p < w * chunk + chunk
    <3>1. workers * chunk >= total
      BY <2>3
    <3> HIDE DEF total, p
    <3> QED  BY <2>1, <2>3, <2>4, <3>1, ChunksCover
  <2>6. w \in Ids /\ w < launched
    BY <2>3, <2>5 DEF Ids
  <2>7. FirstOf(w) <= i /\ i < LastOf(w)
    <3> DEFINE product == w * chunk
    <3>1. product \in Nat
      BY <2>1, <2>6 DEF Ids
    <3>2. product <= i - begin /\ i - begin < product + chunk
      BY <2>5
    <3>3. FirstOf(w) = begin + product
      BY DEF FirstOf
    <3> HIDE DEF product
    <3> QED  BY <2>1, <3>1, <3>2, <3>3 DEF LastOf, Least
  <2>8. i < next[w]
    <3>1. ~(next[w] < LastOf(w))
      BY <1>1, <1>2, <2>6 DEF Running
    <3>2. next[w] \in Int /\ LastOf(w) \in Int
      BY <1>2, <2>6, LastOfInRange DEF IInv, TypeOK
    <3> QED  BY <2>1, <2>7, <3>1, <3>2
  <2>9. <<w, i>> \in written
    BY <1>2, <2>1, <2>6, <2>7, <2>8 DEF IInv, WrittenIsPast
  <2> QED  BY <2>9
<1>3. ASSUME IInv, NEW x \in written PROVE x[2] \in Items
  BY <1>3 DEF IInv, TypeOK
<1>4. IInv => CompleteOnReturn
  <2> SUFFICES ASSUME IInv, pc = "returned"
               PROVE  WrittenItems = Items /\ \A w \in Ids : ~Running(w)
    BY DEF CompleteOnReturn
  <2> QED  BY <1>1, <1>2, <1>3 DEF WrittenItems
<1> QED  BY <1>4, Inductive, PTL
=============================================================================
