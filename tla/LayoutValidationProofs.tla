----------------------- MODULE LayoutValidationProofs -----------------------
(***************************************************************************)
(* Proofs about validate_layout() for every integer width, storage and     *)
(* rank: the two running bounds enclose every element reached so far, and  *)
(* the guards keep each product and each sum in range.                     *)
(***************************************************************************)
EXTENDS LayoutValidation, Foundations, TLAPS

(* A stride that the guard admits can be taken Extent times: the division    *)
(* in front of the addition is enough for the product behind it.             *)
LEMMA QuotientBound ==
    ASSUME NEW room \in Nat, NEW extent \in Nat, NEW stride \in Nat,
           extent # 0 => stride <= room \div extent
    PROVE  extent * stride \in 0..room
<1>1. CASE extent = 0
  BY <1>1
<1>2. CASE extent # 0
  <2> DEFINE q == room \div extent
  <2>1. q \in Nat /\ stride <= q /\ extent * q <= room
    BY <1>2
  <2>2. extent * stride \in Nat
    OBVIOUS
  <2>3. \E k \in Nat : q = stride + k
    <3>1. q - stride \in Nat /\ q = stride + (q - stride)
      BY <2>1
    <3> QED  BY <3>1
  <2>4. PICK k \in Nat : q = stride + k
    BY <2>3
  <2>5. extent * q = extent * stride + extent * k /\ extent * k \in Nat
    <3> HIDE DEF q
    <3> QED  BY <2>4
  <2> QED
    <3> HIDE DEF q
    <3> QED  BY <2>1, <2>2, <2>5
<1> QED  BY <1>1, <1>2

(* The elements of an axis lie between its first and its last one.           *)
LEMMA PartialProduct ==
    ASSUME NEW extent \in Nat, NEW stride \in Nat, NEW c \in 0..extent
    PROVE  c * stride \in 0..extent * stride
<1>1. PICK k \in Nat : extent = c + k
  <2>1. extent - c \in Nat /\ extent = c + (extent - c)
    OBVIOUS
  <2> QED  BY <2>1
<1>2. extent * stride = c * stride + k * stride
  BY <1>1
<1>3. c * stride \in Nat /\ k * stride \in Nat
  BY <1>1
<1> QED  BY <1>2, <1>3

-----------------------------------------------------------------------------
(* The inductive invariant. While the layout stands, the bounds are in range *)
(* and enclose the elements reached; an axis without elements leaves none.   *)
Enclosed ==
    verdict # "rejected" =>
        /\ Len(strides) = Len(shape)
        /\ minimum \in 0..MaxInt
        /\ maximum \in 0..MaxInt
        /\ addresses \subseteq minimum..maximum
        /\ empty => addresses = {}

Decided == verdict = "accepted" => empty \/ maximum + 1 <= Capacity

IInv == TypeOK /\ Enclosed /\ Decided

LEMMA LayoutsAreSequences == Layouts \subseteq Seq(Int64)
BY MaxRankAssumption DEF Layouts

LEMMA InitIInv == Init => IInv
<1> SUFFICES ASSUME Init PROVE IInv
  OBVIOUS
<1> USE DEF Init
<1>1. TypeOK
  <2>1. shape \in Seq(Int64) /\ strides \in Seq(Int64)
    BY LayoutsAreSequences
  <2>2. axis \in 1..Len(shape) + 1
    BY <2>1
  <2>3. /\ offset \in Int64 /\ minimum \in Int64 /\ maximum \in Int64
        /\ addresses \in SUBSET Int
    BY MaxIntAssumption DEF Int64, MinInt
  <2>4. empty \in BOOLEAN /\ verdict \in {"open", "accepted", "rejected"}
    OBVIOUS
  <2> QED  BY <2>1, <2>2, <2>3, <2>4 DEF TypeOK
<1>2. Enclosed
  BY MaxIntAssumption DEF Enclosed, Int64, MinInt
<1>3. Decided
  BY DEF Decided
<1> QED  BY <1>1, <1>2, <1>3 DEF IInv

LEMMA RejectIInv ==
    ASSUME IInv, verdict = "open", Reject
    PROVE  IInv'
BY DEF Reject, IInv, TypeOK, Enclosed, Decided, arguments

(* The types of what an axis is read from.                                   *)
LEMMA ReadingTypes ==
    ASSUME IInv, Reading
    PROVE  /\ shape[axis] \in Int
           /\ strides[axis] \in Int64 /\ strides[axis] \in Int
           /\ axis + 1 \in 1..Len(shape) + 1
<1>1. axis \in 1..Len(shape) /\ Len(strides) = Len(shape)
  BY DEF IInv, TypeOK, Enclosed, Reading
<1>2. shape[axis] \in Int64 /\ strides[axis] \in Int64
  BY <1>1 DEF IInv, TypeOK
<1> QED  BY <1>1, <1>2, MaxIntAssumption DEF Int64, MinInt

LEMMA EmptyIInv == ASSUME IInv, ReadEmpty PROVE IInv'
<1> USE DEF ReadEmpty, Extend, arguments
<1>1. axis' \in 1..Len(shape) + 1
  BY ReadingTypes
<1>2. addresses' = {}
  OBVIOUS
<1>3. TypeOK'
  BY <1>1, <1>2 DEF IInv, TypeOK
<1>4. Enclosed'
  BY <1>2 DEF IInv, Enclosed, Reading
<1>5. Decided'
  BY DEF Decided, Reading
<1> QED  BY <1>3, <1>4, <1>5 DEF IInv

-----------------------------------------------------------------------------
(* Reading an axis forward raises the upper bound by a product that fits.    *)
LEMMA ForwardFits ==
    ASSUME IInv, Reading, shape[axis] > 0, strides[axis] >= 0, ~Overflows
    PROVE  /\ Extent \in Nat /\ strides[axis] \in Nat
           /\ Extent * strides[axis] \in 0..MaxInt - maximum
<1>1. Extent \in Nat /\ strides[axis] \in Nat
  BY ReadingTypes, MaxIntAssumption DEF Extent, Int64, MinInt
<1>2. MaxInt - maximum \in Nat
  BY MaxIntAssumption DEF IInv, Enclosed, Reading
<1> DEFINE room == MaxInt - maximum
           extent == Extent
           stride == strides[axis]
<1>3. extent # 0 => stride <= room \div extent
  BY <1>1, <1>2 DEF Overflows
<1>4. room \in Nat /\ extent \in Nat /\ stride \in Nat
  BY <1>1, <1>2
<1>5. extent * stride \in 0..room
  <2> HIDE DEF room, extent, stride
  <2> QED  BY <1>3, <1>4, QuotientBound
<1> QED  BY <1>1, <1>5

(* Reading an axis backward lowers the lower bound, but not below zero.      *)
LEMMA BackwardFits ==
    ASSUME IInv, Reading, shape[axis] > 0, strides[axis] < 0, ~Underflows
    PROVE  /\ Extent \in Nat /\ -strides[axis] \in Nat
           /\ Extent * (-strides[axis]) \in 0..minimum
<1>1. Extent \in Nat /\ -strides[axis] \in Nat
  BY ReadingTypes, MaxIntAssumption DEF Extent, Int64, MinInt
<1> DEFINE extent == Extent
           stride == -strides[axis]
<1>2. minimum \in Nat
  BY MaxIntAssumption DEF IInv, Enclosed, Reading
<1>3. extent # 0 => stride <= minimum \div extent
  BY <1>1, <1>2 DEF Underflows
<1>4. extent \in Nat /\ stride \in Nat
  BY <1>1
<1>5. extent * stride \in 0..minimum
  <2> HIDE DEF extent, stride
  <2> QED  BY <1>2, <1>3, <1>4, QuotientBound
<1> QED  BY <1>1, <1>5

LEMMA ForwardIInv == ASSUME IInv, ReadForward PROVE IInv'
<1>1. CASE Overflows
  <2>1. Reject /\ verdict = "open"
    BY <1>1 DEF ReadForward, Reading
  <2> QED  BY <2>1, RejectIInv
<1>2. CASE ~Overflows
  <2> DEFINE product == Extent * strides[axis]
  <2>1. /\ Reading /\ shape[axis] > 0 /\ strides[axis] >= 0
        /\ maximum' = maximum + product
        /\ Extend /\ UNCHANGED <<empty, minimum>>
    BY <1>2 DEF ReadForward
  <2>2. /\ Extent \in Nat /\ strides[axis] \in Nat
        /\ product \in 0..MaxInt - maximum
    BY <1>2, <2>1, ForwardFits
  <2>3. /\ minimum \in 0..MaxInt /\ maximum \in 0..MaxInt
        /\ addresses \subseteq minimum..maximum
        /\ empty => addresses = {}
        /\ verdict' = "open" /\ UNCHANGED <<shape, strides, offset>>
    BY <2>1 DEF IInv, Enclosed, Reading, Extend, arguments
  <2>4. ASSUME NEW a \in addresses, NEW c \in 0..shape[axis] - 1
        PROVE  a + c * strides[axis] \in minimum..maximum + product
    <3>1. c * strides[axis] \in 0..product
      BY <2>2, PartialProduct DEF Extent
    <3>2. a \in minimum..maximum
      BY <2>3
    <3> HIDE DEF product
    <3> QED  BY <2>2, <2>3, <3>1, <3>2, MaxIntAssumption
  <2>5. addresses' \subseteq minimum'..maximum' /\ (empty' => addresses' = {})
    BY <2>1, <2>3, <2>4 DEF Extend
  <2>6. maximum' \in 0..MaxInt /\ minimum' \in 0..MaxInt
    <3> HIDE DEF product
    <3> QED  BY <2>1, <2>2, <2>3, MaxIntAssumption
  <2>7. axis' \in 1..Len(shape) + 1
    BY <2>1, ReadingTypes DEF Extend
  <2>8. TypeOK'
    BY <2>1, <2>3, <2>5, <2>6, <2>7, MaxIntAssumption DEF IInv, TypeOK, Int64, MinInt
  <2>9. Enclosed' /\ Decided'
    BY <2>1, <2>3, <2>5, <2>6 DEF IInv, Enclosed, Decided, Reading
  <2> QED  BY <2>8, <2>9 DEF IInv
<1> QED  BY <1>1, <1>2

LEMMA BackwardIInv == ASSUME IInv, ReadBackward PROVE IInv'
<1>1. CASE Underflows
  <2>1. Reject /\ verdict = "open"
    BY <1>1 DEF ReadBackward, Reading
  <2> QED  BY <2>1, RejectIInv
<1>2. CASE ~Underflows
  <2> DEFINE product == Extent * (-strides[axis])
  <2>1. /\ Reading /\ shape[axis] > 0 /\ strides[axis] < 0
        /\ minimum' = minimum + Extent * strides[axis]
        /\ Extend /\ UNCHANGED <<empty, maximum>>
    BY <1>2 DEF ReadBackward
  <2>2. /\ Extent \in Nat /\ -strides[axis] \in Nat
        /\ product \in 0..minimum
    BY <1>2, <2>1, BackwardFits
  <2>3. /\ minimum \in 0..MaxInt /\ maximum \in 0..MaxInt
        /\ addresses \subseteq minimum..maximum
        /\ empty => addresses = {}
        /\ verdict' = "open" /\ UNCHANGED <<shape, strides, offset>>
    BY <2>1 DEF IInv, Enclosed, Reading, Extend, arguments
  <2>4. strides[axis] \in Int /\ Extent * strides[axis] = -product
    <3>1. strides[axis] \in Int
      BY <2>1, ReadingTypes DEF Int64, MinInt
    <3> QED  BY <2>2, <3>1
  <2>5. minimum' = minimum - product
    <3> HIDE DEF product
    <3> QED  BY <2>1, <2>2, <2>3, <2>4
  <2>6. ASSUME NEW a \in addresses, NEW c \in 0..shape[axis] - 1
        PROVE  a + c * strides[axis] \in minimum - product..maximum
    <3>1. c * (-strides[axis]) \in 0..product
      BY <2>2, PartialProduct DEF Extent
    <3>2. c * strides[axis] = -(c * (-strides[axis]))
      BY <2>4
    <3>3. a \in minimum..maximum
      BY <2>3
    <3> DEFINE distance == c * (-strides[axis])
    <3>4. a - distance \in minimum - product..maximum
      <4>1. distance \in 0..product
        BY <3>1
      <4> HIDE DEF product, distance
      <4> QED  BY <2>2, <2>3, <4>1, <3>3, MaxIntAssumption
    <3>5. a + c * strides[axis] = a - distance
      BY <2>2, <2>3, <2>4, <3>1, <3>2, <3>3
    <3> QED  BY <3>4, <3>5
  <2>7. addresses' \subseteq minimum'..maximum' /\ (empty' => addresses' = {})
    BY <2>1, <2>3, <2>5, <2>6 DEF Extend
  <2>8. maximum' \in 0..MaxInt /\ minimum' \in 0..MaxInt
    <3> HIDE DEF product
    <3> QED  BY <2>1, <2>2, <2>3, <2>5, MaxIntAssumption
  <2>9. axis' \in 1..Len(shape) + 1
    BY <2>1, ReadingTypes DEF Extend
  <2>10. TypeOK'
    BY <2>1, <2>3, <2>7, <2>8, <2>9, MaxIntAssumption DEF IInv, TypeOK, Int64, MinInt
  <2>11. Enclosed' /\ Decided'
    BY <2>1, <2>3, <2>7, <2>8 DEF IInv, Enclosed, Decided, Reading
  <2> QED  BY <2>10, <2>11 DEF IInv
<1> QED  BY <1>1, <1>2

LEMMA DecideIInv == ASSUME IInv, Decide PROVE IInv'
<1> USE DEF Decide, arguments
<1>1. TypeOK'
  BY DEF IInv, TypeOK
<1>2. Enclosed'
  BY DEF IInv, Enclosed
<1>3. Decided'
  BY CapacityAssumption, MaxIntAssumption DEF IInv, Enclosed, Decided, TypeOK, Int64, MinInt
<1> QED  BY <1>1, <1>2, <1>3 DEF IInv

LEMMA NextIInv == IInv /\ [Next]_vars => IInv'
<1> SUFFICES ASSUME IInv, [Next]_vars PROVE IInv'
  OBVIOUS
<1>1. CASE RejectNegative
  <2>1. Reject /\ verdict = "open"
    BY <1>1 DEF RejectNegative, Reading
  <2> QED  BY <2>1, RejectIInv
<1>2. CASE ReadEmpty
  BY <1>2, EmptyIInv
<1>3. CASE ReadForward
  BY <1>3, ForwardIInv
<1>4. CASE ReadBackward
  BY <1>4, BackwardIInv
<1>5. CASE Decide
  BY <1>5, DecideIInv
<1>6. CASE UNCHANGED vars
  BY <1>6 DEF vars, IInv, TypeOK, Enclosed, Decided
<1> QED  BY <1>1, <1>2, <1>3, <1>4, <1>5, <1>6 DEF Next

LEMMA Inductive == Spec => []IInv
<1>1. Init => IInv
  BY InitIInv
<1>2. IInv /\ [Next]_vars => IInv'
  BY NextIInv
<1> QED  BY <1>1, <1>2, PTL DEF Spec

-----------------------------------------------------------------------------
(* The running bounds stay std::int64_t values for every layout.             *)
THEOREM TypeCorrect == Spec => []TypeOK
<1>1. IInv => TypeOK
  BY DEF IInv
<1> QED  BY <1>1, Inductive, PTL

(* Every element of a layout that validate_layout() accepts lies in its      *)
(* storage, for every rank, shape, stride and offset.                        *)
THEOREM Soundness == Spec => []AcceptedFits
<1>1. IInv => AcceptedFits
  BY CapacityAssumption, MaxIntAssumption DEF IInv, TypeOK, Enclosed, Decided, AcceptedFits, Int64, MinInt
<1> QED  BY <1>1, Inductive, PTL

(* No product in validate_layout() overflows std::int64_t.                   *)
LEMMA StepDoesNotOverflow ==
    IInv /\ [Next]_vars =>
        [{minimum' - minimum, maximum' - maximum} \subseteq Int64]_vars
<1> SUFFICES ASSUME IInv, Next
             PROVE  {minimum' - minimum, maximum' - maximum} \subseteq Int64
  OBVIOUS
<1>1. minimum \in Int /\ maximum \in Int /\ 0 \in Int64
  BY MaxIntAssumption DEF IInv, TypeOK, Int64, MinInt
<1>2. CASE UNCHANGED <<minimum, maximum>>
  BY <1>1, <1>2
<1>3. CASE ReadForward /\ ~Overflows
  <2> DEFINE product == Extent * strides[axis]
  <2>1. product \in 0..MaxInt - maximum /\ maximum \in 0..MaxInt
    BY <1>3, ForwardFits DEF ReadForward, IInv, Enclosed, Reading
  <2>2. minimum' = minimum /\ maximum' = maximum + product
    BY <1>3 DEF ReadForward
  <2> HIDE DEF product
  <2> QED  BY <1>1, <2>1, <2>2, MaxIntAssumption DEF Int64, MinInt
<1>4. CASE ReadBackward /\ ~Underflows
  <2> DEFINE product == Extent * (-strides[axis])
  <2>1. /\ Extent \in Nat /\ -strides[axis] \in Nat
        /\ product \in 0..minimum /\ minimum \in 0..MaxInt
    BY <1>4, BackwardFits DEF ReadBackward, IInv, Enclosed, Reading
  <2>2. strides[axis] \in Int
    BY <1>4, ReadingTypes DEF ReadBackward, Int64, MinInt
  <2>3. minimum' = minimum + Extent * strides[axis] /\ maximum' = maximum
    BY <1>4 DEF ReadBackward
  <2>4. Extent * strides[axis] = -product
    BY <2>1, <2>2
  <2>5. minimum' = minimum - product
    <3> HIDE DEF product
    <3> QED  BY <1>1, <2>1, <2>3, <2>4
  <2> HIDE DEF product
  <2> QED  BY <1>1, <2>1, <2>3, <2>5, MaxIntAssumption DEF Int64, MinInt
<1>5. \/ UNCHANGED <<minimum, maximum>>
      \/ ReadForward /\ ~Overflows
      \/ ReadBackward /\ ~Underflows
  BY DEF Next, RejectNegative, ReadEmpty, ReadForward, ReadBackward, Decide, Reject
<1> QED  BY <1>2, <1>3, <1>4, <1>5

(* The products that validate_layout() adds never leave std::int64_t.         *)
THEOREM Overflow == Spec => NoOverflow
<1>1. IInv /\ [Next]_vars => [{minimum' - minimum, maximum' - maximum} \subseteq Int64]_vars
  BY StepDoesNotOverflow
<1> QED  BY <1>1, Inductive, PTL DEF Spec, NoOverflow

-----------------------------------------------------------------------------
(* That the check is not too strict. All elements of the layout, axis by     *)
(* axis: a function f with f[k] those that the first k axes reach.           *)

Steps(f) ==
    /\ f[0] = {offset}
    /\ \A k \in 1..Len(shape) :
        f[k] = {a + c * strides[k] : a \in f[k - 1], c \in 0..shape[k] - 1}

\* What the loop has collected is what the axes before this one reach.
Collected ==
    verdict = "open" => \A f : Steps(f) => addresses = f[axis - 1]

\* The bounds are elements themselves unless there are none.
Attained ==
    verdict = "open" /\ ~empty => minimum \in addresses /\ maximum \in addresses

\* Layouts that RejectionIsJustified is about.
Legal ==
    /\ Len(shape) = Len(strides)
    /\ offset >= 0
    /\ \A k \in 1..Len(shape) : shape[k] > 0 /\ strides[k] # MinInt

\* An axis without elements has been read.
EmptyAxis == empty => \E k \in 1..Len(shape) : shape[k] = 0

Justified ==
    verdict = "rejected" /\ Legal => \A f : Steps(f) => ~(f[Len(shape)] \subseteq 0..Capacity - 1)

LEMMA ElementsSteps ==
    ASSUME shape \in Seq(Int64), strides \in Seq(Int64), Len(shape) = Len(strides), offset \in Int64
    PROVE  \E f : Steps(f) /\ Elements = f[Len(shape)]
<1> DEFINE n == Len(shape)
           next(k, A) == {a + c * strides[k] : a \in A, c \in 0..shape[k] - 1}
           step == [k \in 1..n |-> [A \in SUBSET Int |-> next(k, A)]]
           recursive(f) == f = [k \in 0..n |-> IF k = 0 THEN {offset} ELSE next(k, f[k - 1])]
<1>1. n \in Nat /\ Int64 \subseteq Int
  BY MaxIntAssumption DEF Int64, MinInt
<1>2. ASSUME NEW k \in 1..n, NEW A \in SUBSET Int
      PROVE  next(k, A) \in SUBSET Int
  <2>1. strides[k] \in Int64 /\ shape[k] \in Int64
    OBVIOUS
  <2>2. ASSUME NEW a \in A, NEW c \in 0..shape[k] - 1
        PROVE  a + c * strides[k] \in Int
    <3>1. strides[k] \in Int /\ shape[k] \in Int
      BY <1>1, <2>1
    <3>2. a \in Int /\ c \in Int
      BY <3>1
    <3> QED  BY <3>1, <3>2
  <2> QED  BY <2>2
<1>3. step \in [1..n -> [SUBSET Int -> SUBSET Int]] /\ {offset} \in SUBSET Int
  <2> HIDE DEF next
  <2> QED  BY <1>1, <1>2
<1>4. \E f : Iteration(f, n, SUBSET Int, {offset}, step)
  <2> HIDE DEF step, n
  <2> QED  BY <1>1, <1>3, Iterates
<1>5. PICK f : /\ f \in [0..n -> SUBSET Int]
               /\ f[0] = {offset}
               /\ \A k \in 1..n : f[k] = step[k][f[k - 1]]
  <2> HIDE DEF step, n
  <2> QED  BY <1>4 DEF Iteration
<1>6. ASSUME NEW k \in 1..n
      PROVE  f[k] = next(k, f[k - 1])
  <2>1. f[k - 1] \in SUBSET Int
    <3>1. k - 1 \in 0..n
      BY <1>1
    <3> HIDE DEF step, next, n
    <3> QED  BY <1>5, <3>1
  <2> HIDE DEF next
  <2> QED  BY <1>5, <2>1
<1>7. recursive(f)
  <2>1. \A k \in 0..n : k = 0 \/ k \in 1..n
    BY <1>1
  <2> HIDE DEF next
  <2>2. \A k \in 0..n : f[k] = IF k = 0 THEN {offset} ELSE next(k, f[k - 1])
    <3> HIDE DEF n
    <3> QED  BY <1>5, <1>6, <2>1
  <2> QED  BY <1>5, <2>2
<1> DEFINE from == CHOOSE g : recursive(g)
<1>8. recursive(from)
  <2> HIDE DEF recursive
  <2> QED  BY <1>7
<1>9. Elements = from[n]
  BY DEF Elements
<1> HIDE DEF from
<1>10. Steps(from)
  <2>1. \A k \in 1..n : k \in 0..n /\ k # 0
    BY <1>1
  <2>2. 0 \in 0..n
    BY <1>1
  <2>3. from[0] = {offset} /\ \A k \in 1..n : from[k] = next(k, from[k - 1])
    <3> HIDE DEF next, n
    <3> QED  BY <1>8, <2>1, <2>2
  <2> QED  BY <2>3 DEF Steps
<1> QED  BY <1>9, <1>10

\* What one more axis reaches.
LEMMA StepReaches ==
    ASSUME NEW f, Steps(f), NEW k \in 1..Len(shape), NEW a \in f[k - 1],
           NEW c \in 0..shape[k] - 1
    PROVE  a + c * strides[k] \in f[k]
<1>1. f[k] = {b + d * strides[k] : b \in f[k - 1], d \in 0..shape[k] - 1}
  BY DEF Steps
<1> QED  BY <1>1, SMT

\* An axis keeps what it starts from: its first element is at distance zero.
LEMMA ElementsRemain ==
    ASSUME shape \in Seq(Int64), strides \in Seq(Int64), Legal,
           NEW f, Steps(f), NEW j \in 0..Len(shape), NEW x \in Int, x \in f[j]
    PROVE  x \in f[Len(shape)]
<1> DEFINE n == Len(shape)
           T == {k \in j..n : x \notin f[k]}
<1>1. n \in Nat /\ j \in Nat /\ Len(strides) = n /\ Int64 \subseteq Int
  BY MaxIntAssumption DEF Int64, MinInt, Legal
<1> SUFFICES ASSUME T # {}
             PROVE  FALSE
  BY <1>1
<1>2. PICK k \in T : \A i \in T : k <= i
  <2>1. T \subseteq Nat
    BY <1>1
  <2> HIDE DEF T
  <2> QED  BY <2>1, LeastNatural
<1>3. k \in 1..n /\ k - 1 \in j..n /\ ~(k <= k - 1)
  BY <1>1, <1>2
<1>4. x \in f[k - 1]
  BY <1>2, <1>3
<1>5. 0 \in 0..shape[k] - 1 /\ strides[k] \in Int
  <2>1. k \in 1..n
    BY <1>3
  <2>2. shape[k] \in Int /\ strides[k] \in Int
    <3>1. shape[k] \in Int64 /\ strides[k] \in Int64
      BY <1>1, <2>1
    <3> QED  BY <1>1, <3>1
  <2>3. shape[k] > 0
    BY <2>1 DEF Legal
  <2> QED  BY <2>2, <2>3
<1>6. x = x + 0 * strides[k]
  BY <1>5
<1>7. k \in 1..Len(shape)
  BY <1>3
<1>8. x + 0 * strides[k] \in f[k]
  <2> HIDE DEF T
  <2> QED  BY <1>4, <1>5, <1>7, StepReaches, Zenon
<1>9. x \in f[k]
  BY <1>6, <1>8
<1> QED  BY <1>2, <1>9

\* A stride that the guard refuses cannot be taken Extent times.
LEMMA QuotientExceeded ==
    ASSUME NEW room \in Nat, NEW extent \in Nat \ {0}, NEW stride \in Nat,
           stride > room \div extent
    PROVE  extent * stride > room
<1> DEFINE q == room \div extent
<1>1. q \in Nat /\ stride > q /\ room < extent * q + extent
  OBVIOUS
<1> HIDE DEF q
<1>2. PICK k \in Nat : stride = (q + 1) + k
  <2>1. stride - (q + 1) \in Nat /\ stride = (q + 1) + (stride - (q + 1))
    BY <1>1
  <2> QED  BY <2>1
<1>3. extent * stride = extent * q + extent + extent * k
  BY <1>1, <1>2
<1>4. extent * k \in Nat /\ extent * q \in Nat
  BY <1>1, <1>2
<1> QED  BY <1>1, <1>3, <1>4

\* An element that the axis at hand reaches outside of the storage.
Stray(x) ==
    /\ x \in Int
    /\ x \notin 0..Capacity - 1
    /\ \E a \in addresses, c \in 0..shape[axis] - 1 : x = a + c * strides[axis]

LEMMA StrayIsElement ==
    ASSUME IInv, Collected, Reading, Legal, NEW x, Stray(x), NEW f, Steps(f)
    PROVE  ~(f[Len(shape)] \subseteq 0..Capacity - 1)
<1>1. axis \in 1..Len(shape) /\ axis \in 0..Len(shape) /\ verdict = "open"
  <2>1. Len(shape) \in Nat
    BY DEF IInv, TypeOK
  <2> QED  BY <2>1 DEF IInv, TypeOK, Reading
<1>2. f[axis] = {a + c * strides[axis] : a \in f[axis - 1], c \in 0..shape[axis] - 1}
  BY <1>1 DEF Steps
<1>3. addresses = f[axis - 1]
  BY <1>1 DEF Collected
<1>4. x \in f[axis]
  BY <1>2, <1>3 DEF Stray
<1>5. x \in f[Len(shape)]
  <2>1. PICK j : j = axis
    OBVIOUS
  <2>2. j \in 0..Len(shape) /\ x \in f[j] /\ x \in Int
    BY <1>1, <1>4, <2>1 DEF Stray
  <2>3. shape \in Seq(Int64) /\ strides \in Seq(Int64)
    BY DEF IInv, TypeOK
  <2> QED  BY <2>2, <2>3, ElementsRemain
<1> QED  BY <1>5 DEF Stray

\* Where an addition would leave the range, the layout has an element there.
LEMMA OverflowIsStray ==
    ASSUME Capacity <= MaxInt + 1, IInv, Attained, Reading, ~empty, shape[axis] > 0,
           \/ strides[axis] >= 0 /\ Overflows
           \/ strides[axis] < 0 /\ strides[axis] # MinInt /\ Underflows
    PROVE  \E x : Stray(x)
<1>1. /\ shape[axis] \in Int /\ strides[axis] \in Int
      /\ Extent \in Nat /\ Extent \in 0..shape[axis] - 1
  BY ReadingTypes DEF Extent
<1>2. /\ minimum \in addresses /\ maximum \in addresses
      /\ minimum \in 0..MaxInt /\ maximum \in 0..MaxInt
  BY DEF Attained, Reading, IInv, Enclosed
<1>3. CASE strides[axis] >= 0 /\ Overflows
  <2> DEFINE room == MaxInt - maximum
             extent == Extent
             stride == strides[axis]
             x == maximum + extent * stride
  <2>1. room \in Nat /\ extent \in Nat \ {0} /\ stride \in Nat /\ stride > room \div extent
    BY <1>1, <1>2, <1>3, MaxIntAssumption DEF Overflows
  <2>2. extent * stride > room
    <3> HIDE DEF room, extent, stride
    <3> QED  BY <2>1, QuotientExceeded
  <2>3. x \in Int /\ x > MaxInt
    <3>1. extent * stride \in Int
      BY <2>1
    <3> DEFINE product == extent * stride
    <3>2. product \in Int /\ product > MaxInt - maximum
      BY <2>2, <3>1
    <3> HIDE DEF product
    <3>3. maximum + product \in Int /\ maximum + product > MaxInt
      BY <1>2, <3>2, MaxIntAssumption
    <3> QED  BY <3>3 DEF product
  <2>4. \E a \in addresses, c \in 0..shape[axis] - 1 : x = a + c * strides[axis]
    BY <1>1, <1>2
  <2>5. x \notin 0..Capacity - 1
    <3> HIDE DEF x
    <3> QED  BY <2>3, CapacityAssumption, MaxIntAssumption
  <2> HIDE DEF x
  <2> QED  BY <2>3, <2>4, <2>5 DEF Stray
<1>4. CASE strides[axis] < 0 /\ strides[axis] # MinInt /\ Underflows
  <2> DEFINE extent == Extent
             stride == -strides[axis]
             x == minimum + extent * strides[axis]
  <2>1. minimum \in Nat /\ extent \in Nat \ {0} /\ stride \in Nat /\ stride > minimum \div extent
    BY <1>1, <1>2, <1>4, MaxIntAssumption DEF Underflows
  <2>2. extent * stride > minimum
    <3> HIDE DEF extent, stride
    <3> QED  BY <2>1, QuotientExceeded
  <2>3. x \in Int /\ x < 0
    <3> DEFINE product == extent * stride
    <3>1. product \in Int /\ product > minimum
      BY <2>1, <2>2
    <3>2. extent * strides[axis] = -product
      BY <1>1, <2>1
    <3> HIDE DEF product
    <3>3. minimum + (-product) \in Int /\ minimum + (-product) < 0
      BY <2>1, <3>1
    <3> QED  BY <3>2, <3>3
  <2>4. \E a \in addresses, c \in 0..shape[axis] - 1 : x = a + c * strides[axis]
    BY <1>1, <1>2
  <2>5. x \notin 0..Capacity - 1
    <3> HIDE DEF x
    <3> QED  BY <2>3, CapacityAssumption
  <2> HIDE DEF x
  <2> QED  BY <2>3, <2>4, <2>5 DEF Stray
<1> QED  BY <1>3, <1>4

PInv == Collected /\ Attained /\ EmptyAxis /\ Justified

LEMMA InitPInv == Init => PInv
<1> SUFFICES ASSUME Init PROVE PInv
  OBVIOUS
<1> USE DEF Init
<1>1. Collected
  BY DEF Collected, Steps
<1>2. Attained /\ EmptyAxis
  BY DEF Attained, EmptyAxis
<1>3. Justified
  BY MaxIntAssumption DEF Justified, Legal, Int64, MinInt
<1> QED  BY <1>1, <1>2, <1>3 DEF PInv

\* What the layout is stays as it is.
LEMMA ArgumentsStay ==
    ASSUME UNCHANGED arguments
    PROVE  /\ Legal' = Legal
           /\ \A f : Steps(f)' = Steps(f)
BY DEF arguments, Legal, Steps

LEMMA StrayPInv ==
    ASSUME IInv, PInv, Reading, Reject, Legal => \E x : Stray(x)
    PROVE  PInv'
<1>1. verdict' = "rejected" /\ UNCHANGED <<arguments, empty>> /\ UNCHANGED shape
  BY DEF Reject, arguments
<1>2. Legal => \A f : Steps(f) => ~(f[Len(shape)] \subseteq 0..Capacity - 1)
  BY StrayIsElement DEF PInv
<1>3. Justified'
  BY <1>1, <1>2, ArgumentsStay DEF Justified
<1>4. EmptyAxis'
  BY <1>1 DEF PInv, EmptyAxis
<1> QED  BY <1>1, <1>3, <1>4 DEF PInv, Collected, Attained

LEMMA ExtendPInv ==
    ASSUME IInv, PInv, Reading, Extend,
           empty' => \E k \in 1..Len(shape) : shape[k] = 0,
           ~empty' => minimum' \in addresses' /\ maximum' \in addresses'
    PROVE  PInv'
<1>1. UNCHANGED <<arguments, verdict>> /\ UNCHANGED shape /\ verdict = "open"
  BY DEF Extend, arguments, Reading
<1>2. axis \in 1..Len(shape) /\ axis' - 1 = axis
  <2>1. Len(shape) \in Nat
    BY DEF IInv, TypeOK
  <2> QED  BY <2>1 DEF IInv, TypeOK, Reading, Extend
<1>3. Collected'
  <2> SUFFICES ASSUME NEW f, Steps(f)
               PROVE  addresses' = f[axis' - 1]
    BY <1>1, ArgumentsStay DEF Collected
  <2>1. f[axis] = {a + c * strides[axis] : a \in f[axis - 1], c \in 0..shape[axis] - 1}
    <3>1. axis \in 1..Len(shape)
      BY <1>2
    <3> QED  BY <3>1 DEF Steps
  <2>2. addresses = f[axis - 1]
    BY <1>1 DEF PInv, Collected
  <2> QED  BY <1>2, <2>1, <2>2 DEF Extend
<1>4. Attained' /\ EmptyAxis' /\ Justified'
  BY <1>1 DEF Attained, EmptyAxis, Justified
<1> QED  BY <1>3, <1>4 DEF PInv

\* A bound that moves along an axis reaches an element, and the other one
\* stays one.
LEMMA BoundsAttained ==
    ASSUME IInv, Reading, shape[axis] > 0, Extend, NEW bound \in addresses
    PROVE  /\ bound \in addresses'
           /\ bound + Extent * strides[axis] \in addresses'
<1>1. /\ shape[axis] \in Int /\ strides[axis] \in Int
      /\ Extent \in 0..shape[axis] - 1 /\ 0 \in 0..shape[axis] - 1
  BY ReadingTypes DEF Extent
<1>2. bound \in Int
  BY DEF IInv, TypeOK
<1>3. bound = bound + 0 * strides[axis]
  BY <1>1, <1>2
<1> QED  BY <1>1, <1>3 DEF Extend

LEMMA ReadForwardPInv == ASSUME IInv, PInv, ReadForward, Capacity <= MaxInt + 1 PROVE PInv'
<1>1. Reading /\ shape[axis] > 0 /\ strides[axis] >= 0
  BY DEF ReadForward
<1>2. CASE Overflows
  <2>1. Legal => ~empty
    BY DEF Legal, PInv, EmptyAxis
  <2>2. Legal => \E x : Stray(x)
    BY <1>1, <1>2, <2>1, OverflowIsStray DEF PInv
  <2>3. Reject
    BY <1>2 DEF ReadForward
  <2> QED  BY <1>1, <2>2, <2>3, StrayPInv
<1>3. CASE ~Overflows
  <2>1. Extend /\ maximum' = maximum + Extent * strides[axis] /\ UNCHANGED <<empty, minimum>>
    BY <1>3 DEF ReadForward
  <2>2. ~empty' => minimum' \in addresses' /\ maximum' \in addresses'
    <3>1. ~empty => minimum \in addresses /\ maximum \in addresses
      BY <1>1 DEF PInv, Attained, Reading
    <3> QED  BY <1>1, <2>1, <3>1, BoundsAttained
  <2>3. empty' => \E k \in 1..Len(shape) : shape[k] = 0
    BY <2>1 DEF PInv, EmptyAxis
  <2> QED  BY <1>1, <2>1, <2>2, <2>3, ExtendPInv
<1> QED  BY <1>2, <1>3

LEMMA ReadBackwardPInv == ASSUME IInv, PInv, ReadBackward, Capacity <= MaxInt + 1 PROVE PInv'
<1>1. Reading /\ shape[axis] > 0 /\ strides[axis] < 0
  BY DEF ReadBackward
<1>2. CASE Underflows
  <2>1. Legal => ~empty /\ strides[axis] # MinInt
    <3>1. axis \in 1..Len(shape)
      BY <1>1 DEF IInv, TypeOK, Reading
    <3> QED  BY <3>1 DEF Legal, PInv, EmptyAxis
  <2>2. Legal => \E x : Stray(x)
    BY <1>1, <1>2, <2>1, OverflowIsStray DEF PInv
  <2>3. Reject
    BY <1>2 DEF ReadBackward
  <2> QED  BY <1>1, <2>2, <2>3, StrayPInv
<1>3. CASE ~Underflows
  <2>1. Extend /\ minimum' = minimum + Extent * strides[axis] /\ UNCHANGED <<empty, maximum>>
    BY <1>3 DEF ReadBackward
  <2>2. ~empty' => minimum' \in addresses' /\ maximum' \in addresses'
    <3>1. ~empty => minimum \in addresses /\ maximum \in addresses
      BY <1>1 DEF PInv, Attained, Reading
    <3> QED  BY <1>1, <2>1, <3>1, BoundsAttained
  <2>3. empty' => \E k \in 1..Len(shape) : shape[k] = 0
    BY <2>1 DEF PInv, EmptyAxis
  <2> QED  BY <1>1, <2>1, <2>2, <2>3, ExtendPInv
<1> QED  BY <1>2, <1>3

LEMMA DecidePInv == ASSUME IInv, PInv, Decide PROVE PInv'
<1>1. UNCHANGED arguments /\ UNCHANGED <<shape, axis, empty, minimum, maximum, addresses>>
  BY DEF Decide, arguments
<1>2. axis - 1 = Len(shape) /\ verdict = "open"
  <2>1. Len(shape) \in Nat
    BY DEF IInv, TypeOK
  <2> QED  BY <2>1 DEF IInv, TypeOK, Decide
<1>3. Justified'
  <2> SUFFICES ASSUME verdict' = "rejected", NEW f, Steps(f)
               PROVE  ~(f[Len(shape)] \subseteq 0..Capacity - 1)
    BY <1>1, ArgumentsStay DEF Justified
  <2>1. ~empty /\ (minimum < 0 \/ maximum + 1 > Capacity)
    BY <1>2 DEF Decide
  <2>2. addresses = f[Len(shape)]
    BY <1>2 DEF PInv, Collected
  <2>3. minimum \in addresses /\ maximum \in addresses
    BY <1>2, <2>1 DEF PInv, Attained
  <2>4. minimum \notin 0..Capacity - 1 \/ maximum \notin 0..Capacity - 1
    <3>1. minimum \in Int /\ maximum \in Int
      BY MaxIntAssumption DEF IInv, TypeOK, Int64, MinInt
    <3> QED  BY <2>1, <3>1, CapacityAssumption
  <2> QED  BY <2>2, <2>3, <2>4
<1>4. EmptyAxis'
  BY <1>1 DEF PInv, EmptyAxis
<1>5. Collected' /\ Attained'
  BY DEF Decide, Collected, Attained
<1> QED  BY <1>3, <1>4, <1>5 DEF PInv

LEMMA NextPInv ==
    ASSUME Capacity <= MaxInt + 1, IInv, PInv, [Next]_vars
    PROVE  PInv'
<1>1. CASE RejectNegative
  <2>1. Reading /\ Reject /\ shape[axis] < 0
    BY <1>1 DEF RejectNegative
  <2>2. ~Legal
    <3>1. axis \in 1..Len(shape) /\ shape[axis] \in Int
      BY <2>1, ReadingTypes DEF IInv, TypeOK, Reading
    <3>2. ~(shape[axis] > 0)
      BY <2>1, <3>1
    <3> QED  BY <3>1, <3>2 DEF Legal
  <2> QED  BY <2>1, <2>2, StrayPInv
<1>2. CASE ReadEmpty
  <2>1. Reading /\ Extend /\ empty' /\ shape[axis] = 0
    BY <1>2 DEF ReadEmpty
  <2>2. axis \in 1..Len(shape)
    BY <2>1 DEF IInv, TypeOK, Reading
  <2> QED  BY <2>1, <2>2, ExtendPInv
<1>3. CASE ReadForward
  BY <1>3, ReadForwardPInv
<1>4. CASE ReadBackward
  BY <1>4, ReadBackwardPInv
<1>5. CASE Decide
  BY <1>5, DecidePInv
<1>6. CASE UNCHANGED vars
  <2>1. /\ UNCHANGED arguments /\ UNCHANGED shape
        /\ UNCHANGED <<axis, empty, minimum, maximum, addresses, verdict>>
    BY <1>6 DEF vars, arguments
  <2>2. Collected' /\ Justified'
    BY <2>1, ArgumentsStay DEF PInv, Collected, Justified
  <2>3. Attained' /\ EmptyAxis'
    BY <2>1 DEF PInv, Attained, EmptyAxis
  <2> QED  BY <2>2, <2>3 DEF PInv
<1> QED  BY <1>1, <1>2, <1>3, <1>4, <1>5, <1>6 DEF Next

(* validate_layout() refuses no layout it need not refuse, for every rank,   *)
(* shape, stride and offset, and every storage with addressable elements.    *)
THEOREM Precision == Capacity <= MaxInt + 1 => (Spec => []RejectionIsJustified)
<1> SUFFICES ASSUME Capacity <= MaxInt + 1
             PROVE  Spec => []RejectionIsJustified
  OBVIOUS
<1>1. Init => IInv /\ PInv
  BY InitIInv, InitPInv
<1>2. IInv /\ PInv /\ [Next]_vars => IInv' /\ PInv'
  BY NextIInv, NextPInv
<1>3. IInv /\ PInv => RejectionIsJustified
  <2> SUFFICES ASSUME IInv, PInv, verdict = "rejected", Legal
               PROVE  ~(Elements \subseteq 0..Capacity - 1)
    BY DEF RejectionIsJustified, Legal
  <2>1. shape \in Seq(Int64) /\ strides \in Seq(Int64) /\ Len(shape) = Len(strides) /\ offset \in Int64
    BY DEF IInv, TypeOK, Legal
  <2>2. PICK f : Steps(f) /\ Elements = f[Len(shape)]
    BY <2>1, ElementsSteps
  <2> QED  BY <2>2 DEF PInv, Justified
<1> QED  BY <1>1, <1>2, <1>3, PTL DEF Spec
=============================================================================
