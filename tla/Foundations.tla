---------------------------- MODULE Foundations ----------------------------
(***************************************************************************)
(* Facts for the proofs that name nothing of the program. A set of numbers *)
(* has a least one, so a claim that fails somewhere fails at a first place *)
(* (induction without operator parameters), and the functions that         *)
(* recursive definitions choose exist: the step of a recursion is a        *)
(* function here, step[i][x], with x the result of the first i - 1 steps.  *)
(* Then folds of a commutative operation, numbers in a mixed base, and     *)
(* what removing, inserting and joining do to the elements of a sequence.  *)
(***************************************************************************)
EXTENDS Integers, Sequences, SequencesExt, FiniteSetsExt, FiniteSetTheorems,
        SequenceTheorems, WellFoundedInduction, TLAPS

LEMMA LeastNatural ==
    ASSUME NEW T, T \subseteq Nat, T # {}
    PROVE  \E x \in T : \A y \in T : x <= y
<1> DEFINE Less == {pair \in Nat \X Nat : pair[1] < pair[2]}
<1>1. IsWellFoundedOn(Less, Nat)
  BY NatLessThanWellFounded DEF OpToRel
<1>2. \E x \in T : \A y \in T : <<y, x>> \notin Less
  <2> HIDE DEF Less
  <2> QED  BY <1>1, WFMin
<1>3. PICK x \in T : \A y \in T : <<y, x>> \notin Less
  BY <1>2
<1>4. \A y \in T : ~(y < x)
  BY <1>3
<1> QED  BY <1>3, <1>4

\* The last index of a set of indices.
LEMMA LastIndex ==
    ASSUME NEW k \in Nat, NEW S \in SUBSET (1..k), S # {}
    PROVE  /\ Max(S) \in S /\ \A i \in S : i <= Max(S)
           /\ k \in Nat \ {0} /\ S \ {Max(S)} \subseteq 1..(k - 1)
<1> DEFINE T == {k - i : i \in S}
<1>1. T \subseteq Nat /\ T # {}
  <2>1. ASSUME NEW i \in S PROVE k - i \in Nat
    <3>1. i \in 1..k
      OBVIOUS
    <3> QED  BY <3>1
  <2>2. PICK i \in S : TRUE
    OBVIOUS
  <2>3. k - i \in T
    OBVIOUS
  <2> QED  BY <2>1, <2>3
<1>2. PICK n \in T : \A y \in T : n <= y
  BY <1>1, LeastNatural
<1>3. PICK m \in S : n = k - m
  BY <1>2
<1>4. \A i \in S : m >= i
  <2> SUFFICES ASSUME NEW i \in S
               PROVE  m >= i
    OBVIOUS
  <2>1. k - m <= k - i
    BY <1>2, <1>3
  <2> QED  BY <2>1
<1>5. Max(S) \in S /\ \A i \in S : Max(S) >= i
  BY <1>4 DEF Max
<1>6. ASSUME NEW last \in S, \A i \in S : last >= i
      PROVE  /\ \A i \in S : i <= last
             /\ k \in Nat \ {0} /\ S \ {last} \subseteq 1..(k - 1)
  BY <1>6
<1> QED  BY <1>5, <1>6

LEMMA InitialIndices ==
    ASSUME NEW k \in Nat \ {0}
    PROVE  /\ Max(1..k) = k
           /\ (1..k) \ {k} = 1..(k - 1)
<1>1. Max(1..k) \in 1..k /\ \A i \in 1..k : i <= Max(1..k)
  <2>1. 1..k \in SUBSET (1..k) /\ k \in 1..k
    OBVIOUS
  <2> QED  BY <2>1, LastIndex
<1> QED  BY <1>1

\* Induction up to a number. P is the set of the numbers of which a claim holds.
LEMMA UpTo ==
    ASSUME NEW n \in Nat, NEW P, 0 \in P, \A i \in 1..n : i - 1 \in P => i \in P
    PROVE  0..n \subseteq P
<1> DEFINE T == {i \in 0..n : i \notin P}
<1> SUFFICES ASSUME T # {}
             PROVE  FALSE
  OBVIOUS
<1>1. PICK i \in T : \A j \in T : i <= j
  <2>1. T \subseteq Nat
    OBVIOUS
  <2> HIDE DEF T
  <2> QED  BY <2>1, LeastNatural
<1>2. i \in 1..n /\ i - 1 \in 0..n /\ ~(i <= i - 1)
  BY <1>1
<1>3. i - 1 \in P
  BY <1>1, <1>2
<1> QED  BY <1>1, <1>2, <1>3

\* Two sequences of n steps that start alike and go on alike.
InStep(f, g, n) ==
    /\ f[0] = g[0]
    /\ \A i \in 1..n : f[i - 1] = g[i - 1] => f[i] = g[i]

\* They are the same.
LEMMA InStepAgree ==
    ASSUME NEW n \in Nat, NEW f, NEW g, InStep(f, g, n)
    PROVE  \A i \in 0..n : f[i] = g[i]
<1> DEFINE T == {i \in 0..n : f[i] # g[i]}
<1> SUFFICES ASSUME T # {}
             PROVE  FALSE
  OBVIOUS
<1>1. PICK i \in T : \A j \in T : i <= j
  <2>1. T \subseteq Nat
    OBVIOUS
  <2> HIDE DEF T
  <2> QED  BY <2>1, LeastNatural
<1>2. f[0] = g[0] /\ \A k \in 1..n : f[k - 1] = g[k - 1] => f[k] = g[k]
  BY DEF InStep
<1>3. i \in 1..n /\ i - 1 \in 0..n /\ ~(i <= i - 1)
  BY <1>1, <1>2
<1>4. f[i - 1] = g[i - 1]
  BY <1>1, <1>3
<1> QED  BY <1>1, <1>2, <1>3, <1>4

\* The same, spelled out.
LEMMA StepsAgree ==
    ASSUME NEW n \in Nat, NEW f, NEW g, f[0] = g[0],
           \A i \in 1..n : f[i - 1] = g[i - 1] => f[i] = g[i]
    PROVE  \A i \in 0..n : f[i] = g[i]
BY InStepAgree DEF InStep
-----------------------------------------------------------------------------
(* Recursive functions exist.                                                *)

\* A function on the numbers up to n.
Iteration(f, n, D, base, step) ==
    /\ f \in [0..n -> D]
    /\ f[0] = base
    /\ \A i \in 1..n : f[i] = step[i][f[i - 1]]

LEMMA Iterates ==
    ASSUME NEW n \in Nat, NEW D, NEW base \in D, NEW step \in [1..n -> [D -> D]]
    PROVE  \E f : Iteration(f, n, D, base, step)
<1> USE DEF Iteration
<1> DEFINE Iterate(f, k) == Iteration(f, k, D, base, step)
           T == {k \in 0..n : ~ \E f : Iterate(f, k)}
<1> SUFFICES ASSUME T # {}
             PROVE  FALSE
  <2>1. n \in 0..n
    OBVIOUS
  <2> QED  BY <2>1
<1>1. PICK k \in T : \A j \in T : k <= j
  <2>1. T \subseteq Nat
    OBVIOUS
  <2> HIDE DEF T
  <2> QED  BY <2>1, LeastNatural
<1>2. k # 0
  <2> SUFFICES ASSUME k = 0
               PROVE  \E f : Iterate(f, k)
    BY <1>1
  <2> DEFINE f == [i \in 0..0 |-> base]
  <2>1. Iterate(f, k)
    OBVIOUS
  <2> QED  BY <2>1
<1>3. k \in 1..n /\ k - 1 \in 0..n /\ k - 1 \notin T
  <2>1. k \in 0..n
    BY <1>1
  <2>2. k \in 1..n /\ k - 1 \in 0..n /\ ~(k <= k - 1)
    BY <1>2, <2>1
  <2> HIDE DEF T
  <2> QED  BY <1>1, <2>2
<1>4. PICK g : Iterate(g, k - 1)
  BY <1>3
<1> DEFINE f == [i \in 0..k |-> IF i = k THEN step[k][g[k - 1]] ELSE g[i]]
<1>5. g[k - 1] \in D /\ step[k][g[k - 1]] \in D
  <2>1. g[k - 1] \in D
    BY <1>3, <1>4
  <2> QED  BY <1>3, <2>1
<1>6. \A i \in 0..k - 1 : f[i] = g[i] /\ g[i] \in D
  BY <1>3, <1>4
<1>7. f \in [0..k -> D]
  <2>1. \A i \in 0..k : i = k \/ i \in 0..k - 1
    BY <1>3
  <2>2. \A i \in 0..k : (IF i = k THEN step[k][g[k - 1]] ELSE g[i]) \in D
    BY <1>5, <1>6, <2>1
  <2> QED  BY <2>2
<1>8. f[0] = base /\ f[k] = step[k][g[k - 1]]
  BY <1>3, <1>4
<1>9. ASSUME NEW i \in 1..k
      PROVE  f[i] = step[i][f[i - 1]]
  <2>1. i - 1 \in 0..k - 1
    BY <1>3
  <2>2. f[i - 1] = g[i - 1]
    BY <1>6, <2>1
  <2>3. CASE i = k
    BY <1>8, <2>2, <2>3
  <2>4. CASE i # k
    <3>1. i \in 1..k - 1 /\ i \in 0..k - 1
      BY <1>3, <2>4
    <3> QED  BY <1>4, <1>6, <2>2, <3>1
  <2> QED  BY <2>3, <2>4
<1>10. Iterate(f, k)
  <2> HIDE DEF f
  <2> QED  BY <1>7, <1>8, <1>9
<1> HIDE DEF Iterate, Iteration, f
<1> QED  BY <1>1, <1>10

\* The function on sets of numbers that the folds of the library choose.
SetIteration(g, n, D, base, step) ==
    /\ g = [S \in SUBSET (1..n) |->
              IF S = {} THEN base ELSE step[Max(S)][g[S \ {Max(S)}]]]
    /\ \A S \in SUBSET (1..n) : g[S] \in D

LEMMA SetIterates ==
    ASSUME NEW n \in Nat, NEW D, NEW base \in D, NEW step \in [1..n -> [D -> D]]
    PROVE  \E g : SetIteration(g, n, D, base, step)
<1> USE DEF SetIteration
<1> DEFINE Iterate(g, k) == SetIteration(g, k, D, base, step)
           T == {k \in 0..n : ~ \E g : Iterate(g, k)}
<1> SUFFICES ASSUME T # {}
             PROVE  FALSE
  <2>1. n \in 0..n
    OBVIOUS
  <2>2. n \notin T => \E g : Iterate(g, n)
    BY <2>1
  <2> HIDE DEF T
  <2> QED  BY <2>2
<1>1. PICK k \in T : \A j \in T : k <= j
  <2>1. T \subseteq Nat
    OBVIOUS
  <2> HIDE DEF T
  <2> QED  BY <2>1, LeastNatural
<1>2. k # 0
  <2> SUFFICES ASSUME k = 0
               PROVE  \E g : Iterate(g, k)
    BY <1>1
  <2> DEFINE g == [S \in SUBSET (1..k) |-> base]
  <2>1. \A S \in SUBSET (1..k) : S = {}
    OBVIOUS
  <2>2. Iterate(g, k)
    BY <2>1
  <2> QED  BY <2>2
<1>3. k \in 1..n /\ k \in Nat /\ k - 1 \in 0..n /\ k - 1 \notin T
  <2>1. k \in 0..n
    BY <1>1
  <2>2. k \in 1..n /\ k \in Nat /\ k - 1 \in 0..n /\ ~(k <= k - 1)
    BY <1>2, <2>1
  <2> HIDE DEF T
  <2> QED  BY <1>1, <2>2
<1>4. PICK g : Iterate(g, k - 1)
  BY <1>3
<1> DEFINE h == [S \in SUBSET (1..k) |->
                   IF S = {} THEN base ELSE step[Max(S)][g[S \ {Max(S)}]]]
<1>5. \A S \in SUBSET (1..(k - 1)) : h[S] = g[S]
  <2>1. SUBSET (1..(k - 1)) \subseteq SUBSET (1..k)
    BY <1>3
  <2>2. \A S \in SUBSET (1..(k - 1)) : g[S] =
          IF S = {} THEN base ELSE step[Max(S)][g[S \ {Max(S)}]]
    BY <1>4
  <2> QED  BY <2>1, <2>2
<1>6. \A S \in SUBSET (1..k) : S # {} =>
        Max(S) \in 1..n /\ S \ {Max(S)} \in SUBSET (1..(k - 1))
  <2>1. \A S \in SUBSET (1..k) : S # {} =>
          Max(S) \in S /\ S \ {Max(S)} \in SUBSET (1..(k - 1))
    BY <1>3, LastIndex
  <2>2. 1..k \subseteq 1..n
    BY <1>3
  <2> QED  BY <2>1, <2>2
<1>7. \A S \in SUBSET (1..k) : S # {} => h[S \ {Max(S)}] = g[S \ {Max(S)}]
  BY <1>5, <1>6
<1>8. \A S \in SUBSET (1..k) : h[S] \in D
  <2> SUFFICES ASSUME NEW S \in SUBSET (1..k), S # {}
               PROVE  step[Max(S)][g[S \ {Max(S)}]] \in D
    OBVIOUS
  <2>1. Max(S) \in 1..n /\ S \ {Max(S)} \in SUBSET (1..(k - 1))
    BY <1>6
  <2>2. g[S \ {Max(S)}] \in D
    BY <1>4, <2>1
  <2> QED  BY <2>1, <2>2
<1>9. Iterate(h, k)
  BY <1>7, <1>8
<1> HIDE DEF Iterate, SetIteration, h
<1> QED  BY <1>1, <1>9

-----------------------------------------------------------------------------
(* Finite sets. P is the set of the sets of which a claim holds.             *)
LEMMA SubsetInduction ==
    ASSUME NEW T, IsFiniteSet(T), NEW P,
           \A S \in SUBSET T : (\A x \in S : S \ {x} \in P) => S \in P
    PROVE  SUBSET T \subseteq P
<1> DEFINE Sizes == {Cardinality(S) : S \in {R \in SUBSET T : R \notin P}}
<1>1. \A S \in SUBSET T : IsFiniteSet(S) /\ Cardinality(S) \in Nat
  BY FS_Subset, FS_CardinalityType
<1> SUFFICES ASSUME Sizes # {}
             PROVE  FALSE
  <2>1. \A S \in SUBSET T : S \notin P => Cardinality(S) \in Sizes
    OBVIOUS
  <2> HIDE DEF Sizes
  <2> QED  BY <2>1
<1>2. PICK n \in Sizes : \A m \in Sizes : n <= m
  <2>1. Sizes \subseteq Nat
    BY <1>1
  <2> HIDE DEF Sizes
  <2> QED  BY <2>1, LeastNatural
<1>3. PICK S \in SUBSET T : S \notin P /\ Cardinality(S) = n
  BY <1>2
<1>4. PICK x \in S : S \ {x} \notin P
  BY <1>3
<1>5. Cardinality(S \ {x}) = n - 1 /\ n \in Nat
  BY <1>1, <1>3, FS_RemoveElement
<1>6. n - 1 \in Sizes
  <2>1. S \ {x} \in SUBSET T /\ S \ {x} \notin P
    BY <1>4
  <2> QED  BY <1>5, <2>1
<1>7. n <= n - 1
  <2> HIDE DEF Sizes
  <2> QED  BY <1>2, <1>6
<1> QED  BY <1>5, <1>7

-----------------------------------------------------------------------------
(* Sequences. P is the set of the sequences of which a claim holds.          *)
LEMMA SequenceInduction ==
    ASSUME NEW S, NEW P, <<>> \in P,
           \A s \in Seq(S), e \in S : s \in P => Append(s, e) \in P
    PROVE  Seq(S) \subseteq P
<1> DEFINE Lengths == {Len(s) : s \in {r \in Seq(S) : r \notin P}}
<1> SUFFICES ASSUME Lengths # {}
             PROVE  FALSE
  <2>1. \A s \in Seq(S) : s \notin P => Len(s) \in Lengths
    OBVIOUS
  <2> HIDE DEF Lengths
  <2> QED  BY <2>1
<1>1. PICK n \in Lengths : \A m \in Lengths : n <= m
  <2>1. Lengths \subseteq Nat
    BY LenProperties
  <2> HIDE DEF Lengths
  <2> QED  BY <2>1, LeastNatural
<1>2. PICK s \in Seq(S) : s \notin P /\ Len(s) = n
  BY <1>1
<1>3. PICK r \in Seq(S), e \in S : s = Append(r, e)
  BY <1>2, SequenceEmptyOrAppend
<1>4. r \notin P
  BY <1>2, <1>3
<1>5. Len(r) \in Nat /\ n = Len(r) + 1
  BY <1>2, <1>3, AppendProperties, LenProperties
<1>6. Len(r) \in Lengths
  BY <1>4
<1>7. n <= Len(r)
  <2> HIDE DEF Lengths
  <2> QED  BY <1>1, <1>6
<1> QED  BY <1>5, <1>7
-----------------------------------------------------------------------------
(* Sums and products. Both are folds of a commutative operation, a function  *)
(* here, over the elements of a sequence.                                    *)

\* op is associative and commutative on D, and e leaves everything alone.
Monoid(D, e, op) ==
    /\ e \in D
    /\ \A a, b \in D : op[a][b] \in D
    /\ \A a \in D : op[e][a] = a
    /\ \A a, b \in D : op[a][b] = op[b][a]
    /\ \A a, b, c \in D : op[op[a][b]][c] = op[a][op[b][c]]

\* f[i] is the fold of the first i of the n elements of x.
Accumulates(f, x, n, e, op) ==
    /\ f[0] = e
    /\ \A i \in 1..n : f[i] = op[f[i - 1]][x[i]]

\* The last two operands may change places.
LEMMA OperandsSwap ==
    ASSUME NEW D, NEW e, NEW op, Monoid(D, e, op), NEW a \in D, NEW b \in D, NEW c \in D
    PROVE  op[op[a][b]][c] = op[op[a][c]][b]
<1>1. op[op[a][b]][c] = op[a][op[b][c]] /\ op[op[a][c]][b] = op[a][op[c][b]]
  BY DEF Monoid
<1>2. op[b][c] = op[c][b]
  BY DEF Monoid
<1> QED  BY <1>1, <1>2

\* The first n elements of x are in D; they are those of y.
Within(x, n, D) == \A i \in 1..n : x[i] \in D
Alike(x, y, n) == \A i \in 1..n : x[i] = y[i]

\* The l elements of y are the n of x without the k-th.
Omits(y, l, x, n, k) ==
    l = n - 1 /\ \A i \in 1..l : y[i] = IF i < k THEN x[i] ELSE x[i + 1]

\* z is m elements of x and n of y.
Concatenates(z, x, m, y, n) == Alike(z, x, m) /\ \A i \in 1..n : z[m + i] = y[i]

\* Three operands may be grouped either way.
LEMMA OperandsAssociate ==
    ASSUME NEW D, NEW e, NEW op, Monoid(D, e, op), NEW a \in D, NEW b \in D, NEW c \in D
    PROVE  op[op[a][b]][c] = op[a][op[b][c]]
BY DEF Monoid

\* Every intermediate result of a fold is in D.
LEMMA FoldsStay ==
    ASSUME NEW D, NEW e, NEW op, Monoid(D, e, op), NEW n \in Nat, NEW x, NEW f,
           Within(x, n, D), Accumulates(f, x, n, e, op)
    PROVE  \A i \in 0..n : f[i] \in D
<1> USE DEF Within
<1> DEFINE P == {i \in 0..n : f[i] \in D}
<1>1. 0 \in P
  BY DEF Accumulates, Monoid
<1>2. ASSUME NEW i \in 1..n, i - 1 \in P
      PROVE  i \in P
  <2>1. f[i - 1] \in D /\ x[i] \in D /\ f[i] = op[f[i - 1]][x[i]]
    BY <1>2 DEF Accumulates
  <2>2. f[i] \in D
    BY <2>1 DEF Monoid
  <2> QED  BY <2>2
<1>3. 0..n \subseteq P
  <2> HIDE DEF P
  <2> QED  BY <1>1, <1>2, UpTo
<1> QED  BY <1>3

\* Folds over the same elements have the same results.
LEMMA FoldsAgree ==
    ASSUME NEW e, NEW op, NEW n \in Nat, NEW x, NEW y, Alike(x, y, n),
           NEW f, NEW g, Accumulates(f, x, n, e, op), Accumulates(g, y, n, e, op)
    PROVE  \A i \in 0..n : f[i] = g[i]
<1> USE DEF Alike
<1>1. f[0] = g[0]
  BY DEF Accumulates
<1>2. \A i \in 1..n : f[i - 1] = g[i - 1] => f[i] = g[i]
  BY DEF Accumulates
<1> QED  BY <1>1, <1>2, StepsAgree

\* Any finite number of elements has a fold.
LEMMA FoldsExist ==
    ASSUME NEW D, NEW e, NEW op, Monoid(D, e, op), NEW n \in Nat, NEW x,
           Within(x, n, D)
    PROVE  \E f : Accumulates(f, x, n, e, op)
<1> USE DEF Within
<1> DEFINE step == [i \in 1..n |-> [a \in D |-> op[a][x[i]]]]
<1>1. step \in [1..n -> [D -> D]] /\ e \in D
  BY DEF Monoid
<1>2. PICK f : Iteration(f, n, D, e, step)
  <2> HIDE DEF step
  <2> QED  BY <1>1, Iterates
<1>3. f[0] = e /\ \A i \in 1..n : f[i] = step[i][f[i - 1]] /\ i - 1 \in 0..n /\ f[i - 1] \in D
  <2> HIDE DEF step
  <2>1. \A i \in 1..n : i - 1 \in 0..n
    OBVIOUS
  <2> QED  BY <1>2, <2>1 DEF Iteration
<1>4. Accumulates(f, x, n, e, op)
  BY <1>3 DEF Accumulates
<1> QED  BY <1>4

\* Taking one element out.
LEMMA FoldsWithout ==
    ASSUME NEW D, NEW e, NEW op, Monoid(D, e, op), NEW n \in Nat, NEW k \in 1..n, NEW x, NEW y,
           Within(x, n, D), NEW l, Omits(y, l, x, n, k),
           NEW f, NEW g, Accumulates(f, x, n, e, op), Accumulates(g, y, l, e, op)
    PROVE  f[n] = op[g[l]][x[k]]
<1>1. l = n - 1 /\ \A i \in 1..n - 1 : y[i] = IF i < k THEN x[i] ELSE x[i + 1]
  BY DEF Omits
<1>2. Accumulates(g, y, n - 1, e, op)
  BY <1>1
<1> DEFINE P == {i \in 0..n - k : f[k + i] = op[g[k + i - 1]][x[k]]}
<1>3. n - 1 \in Nat /\ n - k \in Nat /\ k - 1 \in Nat /\ Within(y, n - 1, D)
  <2>1. \A i \in 1..n - 1 : i \in 1..n /\ i + 1 \in 1..n
    OBVIOUS
  <2> QED  BY <1>1, <2>1 DEF Within
<1>4. \A i \in 0..n - 1 : g[i] \in D
  BY <1>3, <1>2, FoldsStay
<1>5. 0 \in P
  <2>1. Accumulates(f, x, k - 1, e, op) /\ Accumulates(g, y, k - 1, e, op) /\ Alike(x, y, k - 1)
    <3>1. \A i \in 1..k - 1 : i \in 1..n /\ i \in 1..n - 1 /\ i < k
      OBVIOUS
    <3> QED  BY <1>1, <1>2, <3>1 DEF Accumulates, Alike
  <2>2. k - 1 \in 0..k - 1
    BY <1>3
  <2>3. f[k - 1] = g[k - 1]
    BY <1>3, <2>1, <2>2, FoldsAgree
  <2>4. f[k] = op[f[k - 1]][x[k]]
    BY DEF Accumulates
  <2> QED  BY <1>3, <2>3, <2>4
<1>6. ASSUME NEW i \in 1..n - k, i - 1 \in P
      PROVE  i \in P
  <2> DEFINE j == k + i
  <2>1. j \in 1..n /\ j - 1 \in 1..n - 1 /\ ~(j - 1 < k) /\ j - 1 + 1 = j /\ j - 2 \in 0..n - 1
        /\ k + (i - 1) = j - 1 /\ j - 1 - 1 = j - 2
    OBVIOUS
  <2>2. f[j] = op[f[j - 1]][x[j]]
    BY <2>1 DEF Accumulates
  <2>3. f[j - 1] = op[g[j - 2]][x[k]]
    <3>1. f[k + (i - 1)] = op[g[k + (i - 1) - 1]][x[k]]
      BY <1>6
    <3> QED  BY <2>1, <3>1
  <2>4. g[j - 1] = op[g[j - 2]][y[j - 1]] /\ y[j - 1] = x[j]
    <3>1. g[j - 1] = op[g[j - 1 - 1]][y[j - 1]]
      BY <1>2, <2>1 DEF Accumulates
    <3>2. y[j - 1] = x[j]
      <4> DEFINE h == j - 1
      <4>1. h \in 1..n - 1 /\ ~(h < k) /\ h + 1 = j
        BY <2>1
      <4> HIDE DEF h
      <4>2. y[h] = x[h + 1]
        BY <1>1, <4>1
      <4> QED  BY <4>1, <4>2 DEF h
    <3> QED  BY <2>1, <3>1, <3>2
  <2>5. g[j - 2] \in D /\ x[k] \in D /\ x[j] \in D
    BY <1>4, <2>1 DEF Within
  <2> HIDE DEF j
  <2>6. op[op[g[j - 2]][x[k]]][x[j]] = op[op[g[j - 2]][x[j]]][x[k]]
    BY <2>5, OperandsSwap
  <2>7. f[j] = op[g[j - 1]][x[k]]
    BY <2>2, <2>3, <2>4, <2>6
  <2> QED  BY <2>7 DEF j
<1>7. 0..n - k \subseteq P
  <2> HIDE DEF P
  <2> QED  BY <1>3, <1>5, <1>6, UpTo
<1>8. n - k \in P
  <2> HIDE DEF P
  <2> QED  BY <1>3, <1>7
<1>9. k + (n - k) = n /\ k + (n - k) - 1 = l
  BY <1>1
<1> QED  BY <1>8, <1>9

\* One sequence after another.
LEMMA FoldsJoin ==
    ASSUME NEW D, NEW e, NEW op, Monoid(D, e, op), NEW m \in Nat, NEW n \in Nat,
           NEW x, NEW y, NEW z,
           Within(x, m, D), Within(y, n, D), Concatenates(z, x, m, y, n),
           NEW f, NEW g, NEW h,
           Accumulates(f, z, m + n, e, op), Accumulates(g, x, m, e, op), Accumulates(h, y, n, e, op)
    PROVE  f[m + n] = op[g[m]][h[n]]
<1> DEFINE P == {i \in 0..n : f[m + i] = op[g[m]][h[i]]}
<1>1. g[m] \in D /\ \A i \in 0..n : h[i] \in D
  <2>1. m \in 0..m
    OBVIOUS
  <2> QED  BY <2>1, FoldsStay
<1>2. 0 \in P
  <2>1. Accumulates(f, z, m, e, op) /\ m \in 0..m
    <3>1. \A i \in 1..m : i \in 1..m + n
      OBVIOUS
    <3> QED  BY <3>1 DEF Accumulates
  <2>2. f[m] = g[m]
    <3>1. \A i \in 0..m : f[i] = g[i]
      BY <2>1, FoldsAgree DEF Concatenates
    <3> QED  BY <2>1, <3>1
  <2>3. op[g[m]][e] = g[m] /\ h[0] = e
    BY <1>1 DEF Monoid, Accumulates
  <2> QED  BY <2>2, <2>3
<1>3. ASSUME NEW i \in 1..n, i - 1 \in P
      PROVE  i \in P
  <2>1. m + i \in 1..m + n /\ m + i - 1 = m + (i - 1) /\ i - 1 \in 0..n
    OBVIOUS
  <2>2. f[m + i] = op[f[m + (i - 1)]][y[i]]
    BY <2>1 DEF Accumulates, Concatenates
  <2>3. f[m + (i - 1)] = op[g[m]][h[i - 1]]
    BY <1>3
  <2>4. h[i] = op[h[i - 1]][y[i]]
    BY DEF Accumulates
  <2>5. h[i - 1] \in D /\ y[i] \in D
    BY <1>1, <2>1 DEF Within
  <2>6. op[op[g[m]][h[i - 1]]][y[i]] = op[g[m]][op[h[i - 1]][y[i]]]
    BY <1>1, <2>5, OperandsAssociate, SMTT(30)
  <2>7. f[m + i] = op[g[m]][h[i]]
    BY <2>2, <2>3, <2>4, <2>6
  <2> QED  BY <2>7
<1>4. 0..n \subseteq P
  <2> HIDE DEF P
  <2> QED  BY <1>2, <1>3, UpTo
<1>5. n \in P
  <2> HIDE DEF P
  <2> QED  BY <1>4
<1> QED  BY <1>5

\* p is a list of n different numbers out of 1..n.
Rearranges(p, n) ==
    /\ \A i \in 1..n : p[i] \in 1..n
    /\ \A i, j \in 1..n : p[i] = p[j] => i = j

\* The index of the one that is n; without it, p lists the numbers below.
LEMMA LastIsListed ==
    ASSUME NEW n \in Nat \ {0}, NEW p, Rearranges(p, n)
    PROVE  \E k \in 1..n : p[k] = n
<1> DEFINE f == [i \in 1..n |-> p[i]]
<1>1. f \in Injection(1..n, 1..n)
  BY DEF Rearranges, Injection, IsInjective
<1>2. IsFiniteSet(1..n)
  BY FS_Interval
<1>3. f \in Surjection(1..n, 1..n)
  <2> HIDE DEF f
  <2> QED  BY <1>1, <1>2, FS_Injection
<1>4. \A t \in 1..n : \E s \in 1..n : f[s] = t
  <2> HIDE DEF f
  <2> QED  BY <1>3 DEF Surjection
<1>5. PICK k \in 1..n : f[k] = n
  <2> HIDE DEF f
  <2> QED  BY <1>4
<1> QED  BY <1>5

\* The order does not matter.
LEMMA FoldsRearrange ==
    ASSUME NEW D, NEW e, NEW op, Monoid(D, e, op), NEW n \in Nat, NEW x,
           Within(x, n, D), NEW p, Rearranges(p, n), NEW y,
           \A i \in 1..n : y[i] = x[p[i]],
           NEW f, NEW g, Accumulates(f, x, n, e, op), Accumulates(g, y, n, e, op)
    PROVE  f[n] = g[n]
<1> DEFINE Same(m) ==
             \A q, z, h : Rearranges(q, m) /\ (\A i \in 1..m : z[i] = x[q[i]])
                          /\ Accumulates(h, z, m, e, op) => f[m] = h[m]
           P == {m \in 0..n : Same(m)}
<1>1. 0 \in P
  <2>1. \A h, z : Accumulates(h, z, 0, e, op) => h[0] = e
    BY DEF Accumulates
  <2>2. f[0] = e
    BY DEF Accumulates
  <2> QED  BY <2>1, <2>2
<1>2. ASSUME NEW m \in 1..n, Same(m - 1)
      PROVE  Same(m)
  <2> SUFFICES ASSUME NEW q, NEW z, NEW h, Rearranges(q, m), \A i \in 1..m : z[i] = x[q[i]],
                      Accumulates(h, z, m, e, op)
               PROVE  f[m] = h[m]
    OBVIOUS
  <2>1. m \in Nat \ {0} /\ m - 1 \in Nat /\ \A i \in 1..m - 1 : i \in 1..m /\ i + 1 \in 1..m
    OBVIOUS
  <2>2. PICK k \in 1..m : q[k] = m
    BY <2>1, LastIsListed
  <2> DEFINE r == [i \in 1..m - 1 |-> IF i < k THEN q[i] ELSE q[i + 1]]
             w == [i \in 1..m - 1 |-> x[r[i]]]
  <2>3. Rearranges(r, m - 1)
    <3>1. ASSUME NEW i \in 1..m - 1
          PROVE  r[i] \in 1..m - 1
      <4>1. r[i] \in 1..m /\ r[i] # m
        BY <2>1, <2>2 DEF Rearranges
      <4> QED  BY <2>1, <4>1
    <3>2. ASSUME NEW i \in 1..m - 1, NEW j \in 1..m - 1, r[i] = r[j]
          PROVE  i = j
      BY <2>1, <3>2 DEF Rearranges
    <3> HIDE DEF r
    <3> QED  BY <3>1, <3>2 DEF Rearranges
  <2>4. Within(z, m, D)
    <3>1. \A i \in 1..m : q[i] \in 1..n
      BY <2>1 DEF Rearranges
    <3> QED  BY <3>1 DEF Within
  <2>5. Omits(w, m - 1, z, m, k)
    BY <2>1 DEF Omits
  <2>6. Within(w, m - 1, D)
    <3> HIDE DEF w
    <3> QED  BY <2>1, <2>4, <2>5 DEF Within, Omits
  <2> HIDE DEF w
  <2>7. PICK u : Accumulates(u, w, m - 1, e, op)
    BY <2>1, <2>6, FoldsExist
  <2>8. f[m - 1] = u[m - 1]
    <3>1. \A i \in 1..m - 1 : w[i] = x[r[i]]
      BY DEF w
    <3> HIDE DEF r
    <3> QED  BY <1>2, <2>3, <2>7, <3>1
  <2>9. h[m] = op[u[m - 1]][z[k]]
    <3> DEFINE l == m - 1
    <3>1. m \in Nat /\ l = m - 1
      BY <2>1
    <3>2. Accumulates(u, w, l, e, op)
      BY <2>7
    <3> HIDE DEF r, l
    <3>3. h[m] = op[u[l]][z[k]]
      BY <3>1, <3>2, <2>4, <2>5, FoldsWithout
    <3> QED  BY <3>1, <3>3
  <2>10. f[m] = op[f[m - 1]][x[m]]
    BY DEF Accumulates
  <2> QED  BY <2>2, <2>8, <2>9, <2>10
<1>3. 0..n \subseteq P
  <2>1. ASSUME NEW m \in 1..n, m - 1 \in P
        PROVE  m \in P
    <3>1. Same(m - 1)
      BY <2>1
    <3> HIDE DEF Same
    <3> QED  BY <1>2, <3>1
  <2> HIDE DEF P
  <2> QED  BY <1>1, <2>1, UpTo
<1>4. Same(n)
  <2>1. n \in P
    <3> HIDE DEF P
    <3> QED  BY <1>3
  <2> HIDE DEF Same
  <2> QED  BY <2>1
<1> QED  BY <1>4
-----------------------------------------------------------------------------
(* Numbers in a mixed base.                                                  *)

\* A digit below b and a rest below w make a number below w * b.
LEMMA DigitBound ==
    ASSUME NEW w \in Nat, NEW b \in Nat, NEW a \in Nat, a < b, NEW r \in 0..w - 1
    PROVE  r + a * w \in 0..w * b - 1
<1> DEFINE k == b - 1 - a
<1>1. k \in Nat /\ b = a + 1 + k
  OBVIOUS
<1> HIDE DEF k
<1>2. w * (a + 1 + k) = a * w + w + k * w /\ k * w \in Nat /\ a * w \in Nat
  BY <1>1
<1>3. w * b = a * w + w + k * w
  BY <1>1, <1>2
<1> QED  BY <1>2, <1>3

\* Different leading digits make different numbers.
LEMMA SmallerDigit ==
    ASSUME NEW w \in Nat, NEW a \in Nat, NEW b \in Nat, a < b,
           NEW r \in 0..w - 1, NEW s \in 0..w - 1
    PROVE  r + a * w # s + b * w
<1> DEFINE k == b - a - 1
<1>1. k \in Nat /\ b = a + 1 + k
  OBVIOUS
<1> HIDE DEF k
<1>2. (a + 1 + k) * w = a * w + w + k * w /\ k * w \in Nat /\ a * w \in Nat
  BY <1>1
<1>3. b * w = a * w + w + k * w
  BY <1>1, <1>2
<1> QED  BY <1>2, <1>3

\* A number has one leading digit and one rest.
LEMMA DigitUnique ==
    ASSUME NEW w \in Nat, NEW a \in Nat, NEW b \in Nat,
           NEW r \in 0..w - 1, NEW s \in 0..w - 1, r + a * w = s + b * w
    PROVE  a = b /\ r = s
<1>1. ~(a < b) /\ ~(b < a)
  BY SmallerDigit
<1>2. a = b
  BY <1>1
<1>3. a * w = b * w /\ a * w \in Int
  BY <1>2
<1> QED  BY <1>2, <1>3

\* Quotient and remainder.
LEMMA Division ==
    ASSUME NEW n \in Nat, NEW w \in Nat \ {0}
    PROVE  n \div w \in Nat /\ n % w \in 0..w - 1 /\ n = (n % w) + (n \div w) * w
OBVIOUS

\* The rest modulo w * b is the rest modulo w and one more digit.
LEMMA LastDigit ==
    ASSUME NEW n \in Nat, NEW w \in Nat \ {0}, NEW b \in Nat \ {0}
    PROVE  /\ (n \div w) % b \in 0..b - 1
           /\ n % (w * b) = (n % w) + ((n \div w) % b) * w
<1> DEFINE q == n \div w
           d == q % b
           t == q \div b
           m == w * b
           u == n \div m
           v == n % m
           r == n % w
<1>1. q \in Nat /\ r \in 0..w - 1 /\ n = r + q * w
  BY Division
<1>2. t \in Nat /\ d \in 0..b - 1 /\ q = d + t * b
  <2> HIDE DEF q
  <2> QED  BY <1>1, Division
<1>3. m \in Nat \ {0}
  <2>1. w * b \in Nat /\ w * b >= w
    <3>1. b - 1 \in Nat /\ w * b = w + w * (b - 1)
      OBVIOUS
    <3>2. w * (b - 1) \in Nat
      BY <3>1
    <3> QED  BY <3>1, <3>2
  <2> QED  BY <2>1
<1>4. u \in Nat /\ v \in 0..m - 1 /\ n = v + u * m
  <2> HIDE DEF m
  <2> QED  BY <1>3, Division
<1> HIDE DEF q, d, t, u, v, r
<1>5. r + d * w \in 0..m - 1
  BY <1>1, <1>2, DigitBound
<1>6. (d + t * b) * w = d * w + t * m
  BY <1>2
<1>7. n = (r + d * w) + t * m
  BY <1>1, <1>2, <1>6
<1>8. v = r + d * w
  <2> DEFINE x == r + d * w
  <2>1. x \in 0..m - 1 /\ x + t * m = v + u * m
    BY <1>4, <1>5, <1>7
  <2> HIDE DEF x, m
  <2>2. x = v
    BY <1>2, <1>3, <1>4, <2>1, DigitUnique
  <2> QED  BY <2>2 DEF x
<1> QED  BY <1>2, <1>8 DEF v, d, q, r, m
-----------------------------------------------------------------------------
(* Removing, inserting and joining.                                          *)

\* RemoveAt() drops the k-th element of a sequence and keeps the others.
LEMMA RemoveAtIs ==
    ASSUME NEW S, NEW s \in Seq(S), NEW k \in 1..Len(s)
    PROVE  /\ RemoveAt(s, k) \in Seq(S)
           /\ Omits(RemoveAt(s, k), Len(RemoveAt(s, k)), s, Len(s), k)
<1> DEFINE n == Len(s)
           a == SubSeq(s, 1, k - 1)
           b == SubSeq(s, k + 1, n)
           r == a \o b
<1>1. n \in Nat /\ \A i \in 1..n : s[i] \in S
  BY ElementOfSeq
<1>2. a \in Seq(S) /\ Len(a) = k - 1 /\ \A i \in 1..k - 1 : a[i] = s[i]
  <2>1. 1 \in Int /\ k - 1 \in Int /\ \A i \in 1..k - 1 : s[i] \in S
    BY <1>1
  <2>2. /\ a \in Seq(S) /\ Len(a) = (IF 1 <= k - 1 THEN (k - 1) - 1 + 1 ELSE 0)
        /\ \A i \in 1..(k - 1) - 1 + 1 : a[i] = s[1 + i - 1]
    BY <2>1, SubSeqProperties
  <2> HIDE DEF a
  <2> QED  BY <1>1, <2>2
<1>3. b \in Seq(S) /\ Len(b) = n - k /\ \A i \in 1..n - k : b[i] = s[k + i]
  <2>1. k + 1 \in Int /\ n \in Int /\ \A i \in (k + 1)..n : s[i] \in S
    BY <1>1
  <2>2. /\ b \in Seq(S) /\ Len(b) = (IF k + 1 <= n THEN n - (k + 1) + 1 ELSE 0)
        /\ \A i \in 1..n - (k + 1) + 1 : b[i] = s[(k + 1) + i - 1]
    BY <2>1, SubSeqProperties
  <2> HIDE DEF b
  <2> QED  BY <1>1, <2>2
<1> HIDE DEF a, b
<1>4. /\ r \in Seq(S) /\ Len(r) = Len(a) + Len(b)
      /\ \A i \in 1..Len(a) + Len(b) : r[i] = IF i <= Len(a) THEN a[i] ELSE b[i - Len(a)]
  BY <1>2, <1>3, ConcatProperties
<1> HIDE DEF r
<1>5. Len(r) = n - 1
  BY <1>1, <1>2, <1>3, <1>4
<1>6. ASSUME NEW i \in 1..n - 1
      PROVE  r[i] = IF i < k THEN s[i] ELSE s[i + 1]
  <2>1. r[i] = IF i <= k - 1 THEN a[i] ELSE b[i - (k - 1)]
    BY <1>1, <1>2, <1>3, <1>4
  <2>2. CASE i < k
    BY <1>1, <1>2, <2>1, <2>2
  <2>3. CASE ~(i < k)
    <3> DEFINE j == i - (k - 1)
    <3>1. j \in 1..n - k /\ k + j = i + 1 /\ ~(i <= k - 1)
      BY <1>1, <2>3
    <3> HIDE DEF j
    <3>2. b[j] = s[i + 1]
      BY <1>3, <3>1
    <3> QED  BY <2>1, <2>3, <3>1, <3>2 DEF j
  <2> QED  BY <2>2, <2>3
<1>7. Omits(r, Len(r), s, n, k)
  BY <1>5, <1>6 DEF Omits
<1> QED  BY <1>4, <1>7 DEF r, a, b, RemoveAt

\* What a subsequence holds.
LEMMA SubSeqIs ==
    ASSUME NEW S, NEW s \in Seq(S), NEW i \in Nat \ {0}, NEW j \in 0..Len(s)
    PROVE  /\ SubSeq(s, i, j) \in Seq(S)
           /\ Len(SubSeq(s, i, j)) = IF i <= j THEN j - i + 1 ELSE 0
           /\ \A k \in 1..j - i + 1 : SubSeq(s, i, j)[k] = s[i + k - 1]
<1> DEFINE r == SubSeq(s, i, j)
<1>1. i \in Int /\ j \in Int /\ \A k \in i..j : s[k] \in S
  <2>1. Len(s) \in Nat /\ \A k \in 1..Len(s) : s[k] \in S
    BY ElementOfSeq
  <2>2. \A k \in i..j : k \in 1..Len(s)
    BY <2>1
  <2> QED  BY <2>1, <2>2
<1>2. /\ r \in Seq(S) /\ Len(r) = (IF i <= j THEN j - i + 1 ELSE 0)
      /\ \A k \in 1..j - i + 1 : r[k] = s[i + k - 1]
  BY <1>1, SubSeqProperties
<1> QED  BY <1>2

\* An index of s, or the one behind its last.
Position(i, s) == i \in 1..Len(s) + 1

\* What was inserted can be left out again.
LEMMA InsertAtIs ==
    ASSUME NEW S, NEW s \in Seq(S), NEW k, Position(k, s), NEW e \in S
    PROVE  /\ InsertAt(s, k, e) \in Seq(S)
           /\ InsertAt(s, k, e)[k] = e
           /\ Omits(s, Len(s), InsertAt(s, k, e), Len(InsertAt(s, k, e)), k)
<1> DEFINE n == Len(s)
           a == SubSeq(s, 1, k - 1)
           b == SubSeq(s, k, n)
           c == a \o <<e>>
           r == c \o b
<1>1. k \in 1..Len(s) + 1
  BY DEF Position
<1> USE <1>1
<1>2. n \in Nat
  OBVIOUS
<1>3. a \in Seq(S) /\ Len(a) = k - 1 /\ \A i \in 1..k - 1 : a[i] = s[i]
  <2> DEFINE j == k - 1
  <2>1. j \in 0..n /\ j - 1 + 1 = j
    BY <1>2
  <2> HIDE DEF j
  <2>2. /\ SubSeq(s, 1, j) \in Seq(S) /\ Len(SubSeq(s, 1, j)) = (IF 1 <= j THEN j - 1 + 1 ELSE 0)
        /\ \A i \in 1..j - 1 + 1 : SubSeq(s, 1, j)[i] = s[1 + i - 1]
    BY <2>1, SubSeqIs
  <2>3. Len(SubSeq(s, 1, j)) = j /\ \A i \in 1..j : SubSeq(s, 1, j)[i] = s[i]
    BY <2>1, <2>2
  <2> QED  BY <2>2, <2>3 DEF j
<1>4. b \in Seq(S) /\ Len(b) = n - k + 1 /\ \A i \in 1..n - k + 1 : b[i] = s[k + i - 1]
  <2>1. /\ b \in Seq(S) /\ Len(b) = (IF k <= n THEN n - k + 1 ELSE 0)
        /\ \A i \in 1..n - k + 1 : b[i] = s[k + i - 1]
    BY <1>2, SubSeqIs
  <2> HIDE DEF b
  <2> QED  BY <1>2, <2>1
<1>5. <<e>> \in Seq(S) /\ Len(<<e>>) = 1 /\ <<e>>[1] = e
  OBVIOUS
<1> HIDE DEF a, b
<1>6. c \in Seq(S) /\ Len(c) = k /\ c[k] = e /\ \A i \in 1..k - 1 : c[i] = s[i]
  <2>1. /\ c \in Seq(S) /\ Len(c) = Len(a) + 1
        /\ \A i \in 1..Len(a) + 1 : c[i] = IF i <= Len(a) THEN a[i] ELSE <<e>>[i - Len(a)]
    BY <1>3, <1>5, ConcatProperties
  <2> HIDE DEF c
  <2> QED  BY <1>2, <1>3, <1>5, <2>1
<1> HIDE DEF c
<1>7. /\ r \in Seq(S) /\ Len(r) = Len(c) + Len(b)
      /\ \A i \in 1..Len(c) + Len(b) : r[i] = IF i <= Len(c) THEN c[i] ELSE b[i - Len(c)]
  BY <1>4, <1>6, ConcatProperties
<1> HIDE DEF r
<1>8. Len(r) = n + 1 /\ r[k] = e
  BY <1>2, <1>4, <1>6, <1>7
<1>9. ASSUME NEW i \in 1..n
      PROVE  s[i] = IF i < k THEN r[i] ELSE r[i + 1]
  <2>1. CASE i < k
    BY <1>2, <1>4, <1>6, <1>7, <2>1
  <2>2. CASE ~(i < k)
    <3> DEFINE j == i + 1 - k
    <3>1. j \in 1..n - k + 1 /\ k + j - 1 = i /\ i + 1 \in 1..n + 1 /\ ~(i + 1 <= k)
      BY <1>2, <2>2
    <3>2. r[i + 1] = b[j]
      BY <1>4, <1>6, <1>7, <3>1
    <3> HIDE DEF j
    <3>3. b[j] = s[i]
      BY <1>4, <3>1
    <3> QED  BY <2>2, <3>2, <3>3
  <2> QED  BY <2>1, <2>2
<1>10. Omits(s, n, r, Len(r), k)
  <2> HIDE DEF n
  <2> QED  BY <1>2, <1>8, <1>9 DEF Omits
<1> QED  BY <1>7, <1>8, <1>10 DEF r, c, a, b, InsertAt

\* A sequence and the end of another, from its i-th element on.
Rejoined(a, s, i) == a \o SubSeq(s, i, Len(s))

\* r is that: a, then s from its i-th element on, which may be behind its last.
Ends(r, a, s, i) ==
    /\ Len(r) = Len(a) + (Len(s) - i + 1)
    /\ \A j \in 1..Len(a) : r[j] = a[j]
    /\ \A j \in 1..Len(s) - i + 1 : r[Len(a) + j] = s[i + j - 1]

\* A sequence followed by the rest of another, element by element.
LEMMA JoinedIs ==
    ASSUME NEW S, NEW a \in Seq(S), NEW s \in Seq(S), NEW i, Position(i, s)
    PROVE  Rejoined(a, s, i) \in Seq(S) /\ Ends(Rejoined(a, s, i), a, s, i)
<1> USE DEF Position
<1> DEFINE m == Len(a)
           n == Len(s)
           b == SubSeq(s, i, n)
           r == a \o b
<1>1. m \in Nat /\ n \in Nat
  OBVIOUS
<1>2. b \in Seq(S) /\ Len(b) = n - i + 1 /\ \A j \in 1..n - i + 1 : b[j] = s[i + j - 1]
  <2>1. i \in Nat \ {0} /\ n \in 0..Len(s)
    BY <1>1
  <2>2. /\ b \in Seq(S) /\ Len(b) = (IF i <= n THEN n - i + 1 ELSE 0)
        /\ \A j \in 1..n - i + 1 : b[j] = s[i + j - 1]
    BY <2>1, SubSeqIs
  <2> HIDE DEF b
  <2> QED  BY <1>1, <2>2
<1> HIDE DEF b
<1>3. /\ r \in Seq(S) /\ Len(r) = m + Len(b)
      /\ \A j \in 1..m + Len(b) : r[j] = IF j <= m THEN a[j] ELSE b[j - m]
  BY <1>2, ConcatProperties
<1> HIDE DEF r
<1>4. \A j \in 1..m : r[j] = a[j]
  <2> HIDE DEF m, n
  <2> QED  BY <1>1, <1>2, <1>3
<1>5. ASSUME NEW j \in 1..n - i + 1
      PROVE  r[m + j] = s[i + j - 1]
  <2> HIDE DEF m, n
  <2>1. m + j \in 1..m + Len(b) /\ ~(m + j <= m) /\ (m + j) - m = j
    BY <1>1, <1>2, SMT
  <2>2. r[m + j] = b[(m + j) - m]
    BY <1>3, <2>1
  <2> QED  BY <1>2, <2>1, <2>2
<1>6. Len(r) = m + (n - i + 1)
  BY <1>2, <1>3
<1> QED  BY <1>3, <1>4, <1>5, <1>6 DEF Rejoined, Ends, r, b

\* Positions, as hypotheses of the lemmas.
IsNext(j, i) == j = i + 1
Behind(k, a) == k = Len(a) + 1

\* The next element left out.
LEMMA JoinedOmits ==
    ASSUME NEW S, NEW a \in Seq(S), NEW s \in Seq(S), NEW i \in 1..Len(s),
           NEW i1, IsNext(i1, i), NEW k, Behind(k, a)
    PROVE  LET r == Rejoined(a, s, i)
               q == Rejoined(a, s, i1)
           IN  k \in 1..Len(r) /\ r[k] = s[i] /\ Omits(q, Len(q), r, Len(r), k)
<1> DEFINE m == Len(a)
           n == Len(s)
           r == Rejoined(a, s, i)
           q == Rejoined(a, s, i1)
<1>1. m \in Nat /\ n \in Nat /\ i \in 1..n /\ k = m + 1
  BY DEF Behind
<1>2. /\ Len(r) = m + (n - i + 1)
      /\ \A j \in 1..m : r[j] = a[j]
      /\ \A j \in 1..n - i + 1 : r[m + j] = s[i + j - 1]
  <2>1. Position(i, s)
    BY <1>1 DEF Position, IsNext
  <2>2. Ends(r, a, s, i)
    BY <2>1, JoinedIs
  <2> QED  BY <2>2 DEF Ends
<1>3. /\ Len(q) = m + (n - (i + 1) + 1)
      /\ \A j \in 1..m : q[j] = a[j]
      /\ \A j \in 1..n - (i + 1) + 1 : q[m + j] = s[(i + 1) + j - 1]
  <2>1. Position(i1, s)
    BY <1>1 DEF Position, IsNext
  <2>2. Ends(Rejoined(a, s, i1), a, s, i1)
    BY <2>1, JoinedIs
  <2> QED  BY <2>2 DEF Ends, IsNext
<1> HIDE DEF r, q, m, n
<1>4. Len(r) = m + (n - i + 1) /\ Len(q) = m + (n - i) /\ Len(q) = Len(r) - 1
  BY <1>1, <1>2, <1>3
<1>5. r[k] = s[i]
  <2>1. r[m + 1] = s[i + 1 - 1]
    BY <1>1, <1>2
  <2> QED  BY <1>1, <2>1
<1>6. ASSUME NEW j \in 1..Len(q)
      PROVE  q[j] = IF j < k THEN r[j] ELSE r[j + 1]
  <2>1. CASE j < k
    <3>1. j \in 1..m
      BY <1>1, <1>4, <2>1
    <3> QED  BY <1>2, <1>3, <2>1, <3>1
  <2>2. CASE ~(j < k)
    <3> DEFINE x == j - m
    <3>1. x \in 1..n - i /\ m + x = j /\ m + (x + 1) = j + 1 /\ x + 1 \in 1..n - i + 1
      BY <1>1, <1>4, <2>2
    <3> HIDE DEF x
    <3>2. q[m + x] = s[(i + 1) + x - 1]
      <4>1. x \in 1..n - (i + 1) + 1
        BY <1>1, <3>1
      <4> QED  BY <1>3, <4>1
    <3>3. r[m + (x + 1)] = s[i + (x + 1) - 1]
      BY <1>2, <3>1
    <3>4. (i + 1) + x - 1 = i + x /\ i + (x + 1) - 1 = i + x
      BY <1>1, <3>1
    <3>5. q[j] = s[i + x] /\ r[j + 1] = s[i + x]
      BY <3>1, <3>2, <3>3, <3>4
    <3> QED  BY <2>2, <3>5
  <2> QED  BY <2>1, <2>2
<1>7. k \in 1..Len(r) /\ Omits(q, Len(q), r, Len(r), k)
  <2>1. k \in 1..Len(r)
    BY <1>1, <1>4
  <2>2. Len(q) = Len(r) - 1
    BY <1>4
  <2>3. Omits(q, Len(q), r, Len(r), k)
    BY <1>6, <2>2 DEF Omits
  <2> QED  BY <2>1, <2>3
<1>8. k \in 1..Len(r) /\ r[k] = s[i] /\ Omits(q, Len(q), r, Len(r), k)
  BY <1>5, <1>7
<1> QED  BY <1>8, Zenon DEF r, q

\* An element put before the end.
LEMMA JoinedInserts ==
    ASSUME NEW S, NEW a \in Seq(S), NEW s \in Seq(S), NEW i \in 1..Len(s) + 1, NEW e \in S,
           NEW k, Behind(k, a)
    PROVE  LET r == Rejoined(Append(a, e), s, i)
               q == Rejoined(a, s, i)
           IN  k \in 1..Len(r) /\ r[k] = e /\ Omits(q, Len(q), r, Len(r), k)
<1> DEFINE m == Len(a)
           n == Len(s)
           b == Append(a, e)
           r == Rejoined(b, s, i)
           q == Rejoined(a, s, i)
<1>1. m \in Nat /\ n \in Nat /\ i \in 1..n + 1 /\ k = m + 1
  BY DEF Behind
<1>2. b \in Seq(S) /\ Len(b) = k /\ b[k] = e /\ \A j \in 1..m : b[j] = a[j]
  BY <1>1, AppendProperties
<1> HIDE DEF b
<1>3. /\ Len(q) = m + (n - i + 1)
      /\ \A j \in 1..m : q[j] = a[j]
      /\ \A j \in 1..n - i + 1 : q[m + j] = s[i + j - 1]
  <2>1. Position(i, s)
    BY <1>1 DEF Position, IsNext
  <2>2. Ends(q, a, s, i)
    BY <2>1, JoinedIs
  <2> QED  BY <2>2 DEF Ends
<1>4. /\ Len(r) = Len(b) + (n - i + 1)
      /\ \A j \in 1..Len(b) : r[j] = b[j]
      /\ \A j \in 1..n - i + 1 : r[Len(b) + j] = s[i + j - 1]
  <2>1. Position(i, s)
    BY <1>1 DEF Position, IsNext
  <2>2. Ends(r, b, s, i)
    BY <1>2, <2>1, JoinedIs
  <2> QED  BY <2>2 DEF Ends
<1> HIDE DEF r, q, m, n
<1>5. Len(r) = k + (n - i + 1) /\ Len(q) = Len(r) - 1 /\ r[k] = e
  <2>1. Len(r) = k + (n - i + 1)
    BY <1>1, <1>2, <1>4
  <2>2. Len(q) = Len(r) - 1
    BY <1>1, <1>3, <2>1
  <2>3. k \in 1..Len(b)
    BY <1>1, <1>2
  <2>4. r[k] = b[k]
    BY <1>4, <2>3
  <2> QED  BY <1>2, <2>1, <2>2, <2>4
<1>6. ASSUME NEW j \in 1..Len(q)
      PROVE  q[j] = IF j < k THEN r[j] ELSE r[j + 1]
  <2>1. CASE j < k
    <3>1. j \in 1..m /\ j \in 1..Len(b)
      BY <1>1, <1>2, <1>3, <2>1
    <3> QED  BY <1>2, <1>3, <1>4, <2>1, <3>1
  <2>2. CASE ~(j < k)
    <3> DEFINE x == j - m
    <3>1. x \in 1..n - i + 1 /\ m + x = j /\ k + x = j + 1
      BY <1>1, <1>3, <2>2
    <3>2. q[m + x] = s[i + x - 1]
      BY <1>3, <3>1
    <3>3. r[k + x] = s[i + x - 1]
      BY <1>2, <1>4, <3>1
    <3> HIDE DEF x
    <3> QED  BY <2>2, <3>1, <3>2, <3>3
  <2> QED  BY <2>1, <2>2
<1>7. k \in 1..Len(r) /\ Omits(q, Len(q), r, Len(r), k)
  <2>1. k \in 1..Len(r)
    BY <1>1, <1>5
  <2>2. Omits(q, Len(q), r, Len(r), k)
    BY <1>5, <1>6 DEF Omits
  <2> QED  BY <2>1, <2>2
<1> QED  BY <1>5, <1>7 DEF r, q, m, b

\* An element put for the next one.
Replaces(r, q, k) == Len(r) = Len(q) /\ \A j \in 1..Len(q) : j # k => r[j] = q[j]

\* Reading an axis as e puts e in its place.
LEMMA JoinedReplaces ==
    ASSUME NEW S, NEW a \in Seq(S), NEW s \in Seq(S), NEW i \in 1..Len(s), NEW e \in S,
           NEW i1, IsNext(i1, i), NEW k, Behind(k, a)
    PROVE  LET r == Rejoined(Append(a, e), s, i1)
               q == Rejoined(a, s, i)
           IN  k \in 1..Len(q) /\ r[k] = e /\ q[k] = s[i] /\ Replaces(r, q, k)
<1> DEFINE m == Len(a)
           n == Len(s)
           b == Append(a, e)
           r == Rejoined(b, s, i1)
           q == Rejoined(a, s, i)
<1>1. m \in Nat /\ n \in Nat /\ i \in 1..n /\ k = m + 1
  BY DEF Behind
<1>2. b \in Seq(S) /\ Len(b) = k /\ b[k] = e /\ \A j \in 1..m : b[j] = a[j]
  BY <1>1, AppendProperties
<1> HIDE DEF b
<1>3. /\ Len(q) = m + (n - i + 1)
      /\ \A j \in 1..m : q[j] = a[j]
      /\ \A j \in 1..n - i + 1 : q[m + j] = s[i + j - 1]
  <2>1. Position(i, s)
    BY <1>1 DEF Position, IsNext
  <2>2. Ends(q, a, s, i)
    BY <2>1, JoinedIs
  <2> QED  BY <2>2 DEF Ends
<1>4. /\ Len(r) = Len(b) + (n - (i + 1) + 1)
      /\ \A j \in 1..Len(b) : r[j] = b[j]
      /\ \A j \in 1..n - (i + 1) + 1 : r[Len(b) + j] = s[(i + 1) + j - 1]
  <2>1. Position(i1, s)
    BY <1>1 DEF Position, IsNext
  <2>2. Ends(Rejoined(b, s, i1), b, s, i1)
    BY <1>2, <2>1, JoinedIs
  <2> QED  BY <2>2 DEF Ends, IsNext
<1> HIDE DEF r, q, m, n
<1>5. Len(r) = Len(q) /\ k \in 1..Len(q) /\ r[k] = e
  BY <1>1, <1>2, <1>3, <1>4
<1>6. q[k] = s[i]
  <2>1. q[m + 1] = s[i + 1 - 1]
    BY <1>1, <1>3
  <2> QED  BY <1>1, <2>1
<1>7. ASSUME NEW j \in 1..Len(q), j # k
      PROVE  r[j] = q[j]
  <2>1. CASE j < k
    <3>1. j \in 1..m /\ j \in 1..Len(b)
      BY <1>1, <1>2, <1>3, <2>1
    <3> QED  BY <1>2, <1>3, <1>4, <3>1
  <2>2. CASE ~(j < k)
    <3> DEFINE x == j - k
    <3>1. x \in 1..n - (i + 1) + 1 /\ k + x = j /\ m + (x + 1) = j /\ x + 1 \in 1..n - i + 1
      BY <1>1, <1>3, <1>7, <2>2
    <3>2. r[k + x] = s[(i + 1) + x - 1]
      BY <1>2, <1>4, <3>1
    <3>3. q[m + (x + 1)] = s[i + (x + 1) - 1]
      BY <1>3, <3>1
    <3>4. (i + 1) + x - 1 = i + (x + 1) - 1
      BY <1>1, <3>1
    <3> HIDE DEF x
    <3> QED  BY <3>1, <3>2, <3>3, <3>4
  <2> QED  BY <1>1, <2>1, <2>2
<1>8. k \in 1..Len(q) /\ r[k] = e /\ q[k] = s[i] /\ Replaces(r, q, k)
  BY <1>5, <1>6, <1>7 DEF Replaces
<1> QED  BY <1>8 DEF r, q, b
=============================================================================
