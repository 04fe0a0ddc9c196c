------------------------- MODULE TensorViewsProofs -------------------------
(***************************************************************************)
(* Proofs that chains of view functions never leave the storage and never  *)
(* show an element twice, and that is_contiguous() recognises the tensors  *)
(* whose elements are consecutive. The argument: row-major positions are   *)
(* numbers in a mixed base (Ravel and Unravel are inverse); each function  *)
(* that makes a view maps the coordinates of the view into those of its    *)
(* operand, one to one, at the same place (IsView); so a view of a sound   *)
(* tensor is sound, and new storages are used from first to last element.  *)
(*                                                                         *)
(* And proofs that the view functions implement TensorValues: what a       *)
(* caller sees of tensors that share storages is what arrays of their own  *)
(* would show. A view shows the elements of its operand at the coordinates *)
(* of M (ViewsShow), so each call yields the array that TensorValues says, *)
(* or is refused when TensorValues refuses it. That the constructor        *)
(* accepts every view takes one more invariant: no stride reaches below    *)
(* the storage (AllGrounded).                                              *)
(***************************************************************************)
EXTENDS TensorViews, Foundations

-----------------------------------------------------------------------------
(* Numel() and Total().                                                      *)

Times == [a \in Nat |-> [b \in Nat |-> a * b]]
Plus == [a \in Int |-> [b \in Int |-> a + b]]

\* Products of natural numbers can be regrouped and reordered.
LEMMA TimesIsMonoid == Monoid(Nat, 1, Times)
<1>1. ASSUME NEW a \in Nat, NEW b \in Nat
      PROVE  Times[a][b] = a * b /\ a * b \in Nat
  BY DEF Times
<1>2. 1 \in Nat /\ \A a \in Nat : Times[1][a] = a
  <2>1. \A a \in Nat : 1 * a = a
    OBVIOUS
  <2> QED  BY <1>1, <2>1
<1>3. \A a, b \in Nat : Times[a][b] = Times[b][a]
  <2>1. \A a, b \in Nat : a * b = b * a
    OBVIOUS
  <2> QED  BY <1>1, <2>1
<1>4. ASSUME NEW a \in Nat, NEW b \in Nat, NEW c \in Nat
      PROVE  Times[Times[a][b]][c] = Times[a][Times[b][c]]
  <2> DEFINE x == a * b
             y == b * c
  <2>1. x \in Nat /\ y \in Nat /\ Times[a][b] = x /\ Times[b][c] = y
    BY <1>1
  <2>2. x * c = a * y
    OBVIOUS
  <2> HIDE DEF x, y
  <2>3. Times[x][c] = x * c /\ Times[a][y] = a * y
    BY <1>1, <2>1
  <2> QED  BY <2>1, <2>2, <2>3
<1>5. \A a, b \in Nat : Times[a][b] \in Nat
  BY <1>1
<1> QED  BY <1>2, <1>3, <1>4, <1>5 DEF Monoid

\* So can sums of integers.
LEMMA PlusIsMonoid == Monoid(Int, 0, Plus)
<1>1. ASSUME NEW a \in Int, NEW b \in Int
      PROVE  Plus[a][b] = a + b /\ a + b \in Int
  BY DEF Plus
<1>2. 0 \in Int /\ \A a \in Int : Plus[0][a] = a
  <2>1. \A a \in Int : 0 + a = a
    OBVIOUS
  <2> QED  BY <1>1, <2>1
<1>3. \A a, b \in Int : Plus[a][b] = Plus[b][a]
  <2>1. \A a, b \in Int : a + b = b + a
    OBVIOUS
  <2> QED  BY <1>1, <2>1
<1>4. ASSUME NEW a \in Int, NEW b \in Int, NEW c \in Int
      PROVE  Plus[Plus[a][b]][c] = Plus[a][Plus[b][c]]
  <2> DEFINE x == a + b
             y == b + c
  <2>1. x \in Int /\ y \in Int /\ Plus[a][b] = x /\ Plus[b][c] = y
    BY <1>1
  <2>2. x + c = a + y
    OBVIOUS
  <2> HIDE DEF x, y
  <2>3. Plus[x][c] = x + c /\ Plus[a][y] = a + y
    BY <1>1, <2>1
  <2> QED  BY <2>1, <2>2, <2>3
<1>5. \A a, b \in Int : Plus[a][b] \in Int
  BY <1>1
<1> QED  BY <1>2, <1>3, <1>4, <1>5 DEF Monoid

\* A function on 1..n is a sequence of n elements.
LEMMA FunctionsAreSequences ==
    ASSUME NEW S, NEW n \in Nat, NEW x, x \in [1..n -> S]
    PROVE  x \in Seq(S) /\ Len(x) = n
<1>1. x \in Seq(S)
  BY SeqDef
<1>2. DOMAIN x = 1..n /\ DOMAIN x = 1..Len(x) /\ Len(x) \in Nat
  BY <1>1, LenProperties
<1> QED  BY <1>1, <1>2

\* The elements of a sequence over S are in S.
LEMMA SequencesAreWithin ==
    ASSUME NEW S, NEW s \in Seq(S)
    PROVE  Within(s, Len(s), S) /\ Len(s) \in Nat
BY ElementOfSeq, LenProperties DEF Within

\* numel() multiplies the dimensions from left to right.
LEMMA NumelIsFolded ==
    ASSUME NEW s \in Seq(Nat)
    PROVE  \E f : Accumulates(f, s, Len(s), 1, Times) /\ Numel(s) = f[Len(s)]
<1> DEFINE n == Len(s)
           recursive(f) == f = [k \in 0..n |-> IF k = 0 THEN 1 ELSE f[k - 1] * s[k]]
<1>1. n \in Nat /\ Within(s, n, Nat) /\ \A k \in 1..n : k - 1 \in 0..n
  BY SequencesAreWithin
<1>2. PICK g : Accumulates(g, s, n, 1, Times)
  BY <1>1, TimesIsMonoid, FoldsExist
<1>3. \A k \in 0..n : g[k] \in Nat
  BY <1>1, <1>2, TimesIsMonoid, FoldsStay
<1> DEFINE f == [k \in 0..n |-> g[k]]
<1>4. \A k \in 1..n : g[k] = g[k - 1] * s[k]
  <2>1. \A k \in 1..n : g[k - 1] \in Nat /\ s[k] \in Nat
    BY <1>1, <1>3 DEF Within
  <2> QED  BY <1>2, <2>1 DEF Accumulates, Times
<1>5. recursive(f)
  <2>1. \A k \in 0..n : k = 0 \/ k \in 1..n
    BY <1>1
  <2>2. g[0] = 1
    BY <1>2 DEF Accumulates
  <2>3. \A k \in 0..n : f[k] = IF k = 0 THEN 1 ELSE f[k - 1] * s[k]
    <3> HIDE DEF n
    <3> QED  BY <1>1, <1>4, <2>1, <2>2
  <2> HIDE DEF n
  <2> QED  BY <2>3
<1> DEFINE upTo == CHOOSE h : recursive(h)
<1>6. recursive(upTo)
  <2> HIDE DEF recursive, f
  <2> QED  BY <1>5
<1>7. Numel(s) = upTo[n]
  BY DEF Numel, Folded
<1> HIDE DEF upTo
<1>8. upTo[0] = 1 /\ \A k \in 1..n : upTo[k] = upTo[k - 1] * s[k]
  <2>1. \A k \in 1..n : k \in 0..n /\ k # 0
    BY <1>1
  <2>2. 0 \in 0..n
    BY <1>1
  <2> HIDE DEF n
  <2> QED  BY <1>6, <2>1, <2>2
<1>9. \A k \in 0..n : upTo[k] = g[k]
  <2>1. upTo[0] = g[0]
    BY <1>2, <1>8 DEF Accumulates
  <2>2. \A k \in 1..n : upTo[k - 1] = g[k - 1] => upTo[k] = g[k]
    BY <1>4, <1>8
  <2>3. n \in Nat
    BY <1>1
  <2>4. InStep(upTo, g, n)
    BY <2>1, <2>2 DEF InStep
  <2> HIDE DEF n
  <2> QED  BY <2>3, <2>4, InStepAgree
<1>10. Numel(s) = g[n]
  BY <1>1, <1>7, <1>9
<1> QED  BY <1>2, <1>10

\* A total adds the terms from left to right.
LEMMA TotalIsFolded ==
    ASSUME NEW s \in Seq(Int)
    PROVE  \E f : Accumulates(f, s, Len(s), 0, Plus) /\ Total(s) = f[Len(s)]
<1> DEFINE n == Len(s)
           recursive(f) == f = [k \in 0..n |-> IF k = 0 THEN 0 ELSE f[k - 1] + s[k]]
<1>1. n \in Nat /\ Within(s, n, Int) /\ \A k \in 1..n : k - 1 \in 0..n
  BY SequencesAreWithin
<1>2. PICK g : Accumulates(g, s, n, 0, Plus)
  BY <1>1, PlusIsMonoid, FoldsExist
<1>3. \A k \in 0..n : g[k] \in Int
  BY <1>1, <1>2, PlusIsMonoid, FoldsStay
<1> DEFINE f == [k \in 0..n |-> g[k]]
<1>4. \A k \in 1..n : g[k] = g[k - 1] + s[k]
  <2>1. \A k \in 1..n : g[k - 1] \in Int /\ s[k] \in Int
    BY <1>1, <1>3 DEF Within
  <2> QED  BY <1>2, <2>1 DEF Accumulates, Plus
<1>5. recursive(f)
  <2>1. \A k \in 0..n : k = 0 \/ k \in 1..n
    BY <1>1
  <2>2. g[0] = 0
    BY <1>2 DEF Accumulates
  <2>3. \A k \in 0..n : f[k] = IF k = 0 THEN 0 ELSE f[k - 1] + s[k]
    <3> HIDE DEF n
    <3> QED  BY <1>1, <1>4, <2>1, <2>2
  <2> HIDE DEF n
  <2> QED  BY <2>3
<1> DEFINE upTo == CHOOSE h : recursive(h)
<1>6. recursive(upTo)
  <2> HIDE DEF recursive, f
  <2> QED  BY <1>5
<1>7. Total(s) = upTo[n]
  BY DEF Total, Folded
<1> HIDE DEF upTo
<1>8. upTo[0] = 0 /\ \A k \in 1..n : upTo[k] = upTo[k - 1] + s[k]
  <2>1. \A k \in 1..n : k \in 0..n /\ k # 0
    BY <1>1
  <2>2. 0 \in 0..n
    BY <1>1
  <2> HIDE DEF n
  <2> QED  BY <1>6, <2>1, <2>2
<1>9. \A k \in 0..n : upTo[k] = g[k]
  <2>1. upTo[0] = g[0]
    BY <1>2, <1>8 DEF Accumulates
  <2>2. \A k \in 1..n : upTo[k - 1] = g[k - 1] => upTo[k] = g[k]
    BY <1>4, <1>8
  <2>3. n \in Nat
    BY <1>1
  <2>4. InStep(upTo, g, n)
    BY <2>1, <2>2 DEF InStep
  <2> HIDE DEF n
  <2> QED  BY <2>3, <2>4, InStepAgree
<1>10. Total(s) = g[n]
  BY <1>1, <1>7, <1>9
<1> QED  BY <1>2, <1>10

\* Any fold of the dimensions is numel().
LEMMA NumelIs ==
    ASSUME NEW s \in Seq(Nat), NEW n, n = Len(s), NEW f, Accumulates(f, s, n, 1, Times)
    PROVE  Numel(s) = f[n] /\ Numel(s) \in Nat
<1>1. PICK g : Accumulates(g, s, n, 1, Times) /\ Numel(s) = g[n]
  BY NumelIsFolded
<1>2. n \in Nat /\ Within(s, n, Nat) /\ Alike(g, g, n) /\ Alike(s, s, n)
  BY SequencesAreWithin DEF Alike
<1>3. n \in 0..n
  BY <1>2
<1>4. \A i \in 0..n : f[i] = g[i]
  BY <1>1, <1>2, FoldsAgree
<1>5. \A i \in 0..n : f[i] \in Nat
  BY <1>2, TimesIsMonoid, FoldsStay
<1> QED  BY <1>1, <1>3, <1>4, <1>5

\* Any fold of the terms is their total.
LEMMA TotalIs ==
    ASSUME NEW s \in Seq(Int), NEW n, n = Len(s), NEW f, Accumulates(f, s, n, 0, Plus)
    PROVE  Total(s) = f[n] /\ Total(s) \in Int
<1>1. PICK g : Accumulates(g, s, n, 0, Plus) /\ Total(s) = g[n]
  BY TotalIsFolded
<1>2. n \in Nat /\ Within(s, n, Int) /\ Alike(g, g, n) /\ Alike(s, s, n)
  BY SequencesAreWithin DEF Alike
<1>3. n \in 0..n
  BY <1>2
<1>4. \A i \in 0..n : f[i] = g[i]
  BY <1>1, <1>2, FoldsAgree
<1>5. \A i \in 0..n : f[i] \in Int
  BY <1>2, PlusIsMonoid, FoldsStay
<1> QED  BY <1>1, <1>3, <1>4, <1>5

\* numel() of a shape is a natural number.
LEMMA NumelType ==
    ASSUME NEW s \in Seq(Nat)
    PROVE  Numel(s) \in Nat
BY NumelIsFolded, NumelIs

\* A total of integers is an integer.
LEMMA TotalType ==
    ASSUME NEW s \in Seq(Int)
    PROVE  Total(s) \in Int
BY TotalIsFolded, TotalIs

\* A tensor without axes has one element.
LEMMA NumelEmpty == Numel(<<>>) = 1
<1>1. <<>> \in Seq(Nat) /\ Len(<<>>) = 0
  OBVIOUS
<1>2. PICK f : Accumulates(f, <<>>, 0, 1, Times) /\ Numel(<<>>) = f[0]
  BY <1>1, NumelIsFolded
<1> QED  BY <1>2 DEF Accumulates

\* A tensor of one axis has as many elements as the axis.
LEMMA NumelSingle ==
    ASSUME NEW a \in Nat
    PROVE  Numel(<<a>>) = a
<1>1. <<a>> \in Seq(Nat) /\ Len(<<a>>) = 1 /\ <<a>>[1] = a
  OBVIOUS
<1>2. PICK f : Accumulates(f, <<a>>, 1, 1, Times) /\ Numel(<<a>>) = f[1]
  BY <1>1, NumelIsFolded
<1>3. f[1] = Times[1][a]
  BY <1>1, <1>2 DEF Accumulates
<1> QED  BY <1>2, <1>3 DEF Times

\* numel() with an axis is numel() without it, times its size.
LEMMA NumelWithout ==
    ASSUME NEW s \in Seq(Nat), NEW r \in Seq(Nat), NEW k \in 1..Len(s),
           Omits(r, Len(r), s, Len(s), k)
    PROVE  Numel(s) = Numel(r) * s[k]
<1>1. PICK f : Accumulates(f, s, Len(s), 1, Times) /\ Numel(s) = f[Len(s)]
  BY NumelIsFolded
<1>2. PICK g : Accumulates(g, r, Len(r), 1, Times) /\ Numel(r) = g[Len(r)]
  BY NumelIsFolded
<1>3. Len(s) \in Nat /\ Within(s, Len(s), Nat)
  BY SequencesAreWithin
<1>4. f[Len(s)] = Times[g[Len(r)]][s[k]]
  <2> DEFINE n == Len(s)
             l == Len(r)
  <2>1. n \in Nat
    BY <1>3
  <2>2. k \in 1..n
    OBVIOUS
  <2>3. Accumulates(f, s, n, 1, Times)
    BY <1>1
  <2>4. Accumulates(g, r, l, 1, Times)
    BY <1>2
  <2>5. Omits(r, l, s, n, k)
    OBVIOUS
  <2>6. Within(s, n, Nat)
    BY <1>3
  <2> HIDE DEF n, l
  <2>7. f[n] = Times[g[l]][s[k]]
    BY <2>1, <2>2, <2>3, <2>4, <2>5, <2>6, TimesIsMonoid, FoldsWithout
  <2> QED  BY <2>7 DEF n, l
<1>5. Numel(r) \in Nat /\ s[k] \in Nat
  BY <1>3, NumelType DEF Within
<1> QED  BY <1>1, <1>2, <1>4, <1>5 DEF Times

\* numel() of two shapes joined is the product of theirs.
LEMMA NumelJoin ==
    ASSUME NEW s \in Seq(Nat), NEW t \in Seq(Nat)
    PROVE  s \o t \in Seq(Nat) /\ Numel(s \o t) = Numel(s) * Numel(t)
<1> DEFINE m == Len(s)
           n == Len(t)
           st == s \o t
<1>1. m \in Nat /\ n \in Nat /\ Within(s, m, Nat) /\ Within(t, n, Nat)
  BY SequencesAreWithin
<1>2. st \in Seq(Nat) /\ Len(st) = m + n /\ Concatenates(st, s, m, t, n)
  <2>1. /\ st \in Seq(Nat) /\ Len(st) = m + n
        /\ \A i \in 1..m + n : st[i] = IF i <= m THEN s[i] ELSE t[i - m]
    BY ConcatProperties
  <2> HIDE DEF m, n, st
  <2>2. ASSUME NEW i \in 1..m
        PROVE  st[i] = s[i]
    <3>1. i \in 1..m + n /\ i <= m
      BY <1>1
    <3> QED  BY <2>1, <3>1
  <2>3. ASSUME NEW i \in 1..n
        PROVE  st[m + i] = t[i]
    <3> DEFINE j == m + i
    <3>1. j \in 1..m + n /\ ~(j <= m) /\ j - m = i
      BY <1>1
    <3> HIDE DEF j
    <3>2. st[j] = t[j - m]
      BY <2>1, <3>1
    <3> QED  BY <3>1, <3>2 DEF j
  <2> QED  BY <2>1, <2>2, <2>3 DEF Concatenates, Alike
<1> HIDE DEF st
<1>3. PICK f : Accumulates(f, st, m + n, 1, Times) /\ Numel(st) = f[m + n]
  BY <1>2, NumelIsFolded
<1>4. PICK g : Accumulates(g, s, m, 1, Times) /\ Numel(s) = g[m]
  BY NumelIsFolded
<1>5. PICK h : Accumulates(h, t, n, 1, Times) /\ Numel(t) = h[n]
  BY NumelIsFolded
<1> HIDE DEF m, n
<1>6. f[m + n] = Times[g[m]][h[n]]
  BY <1>1, <1>2, <1>3, <1>4, <1>5, TimesIsMonoid, FoldsJoin
<1>7. Numel(s) \in Nat /\ Numel(t) \in Nat
  BY NumelType
<1>8. Numel(st) = Numel(s) * Numel(t)
  BY <1>3, <1>4, <1>5, <1>6, <1>7 DEF Times
<1> QED  BY <1>2, <1>8 DEF st

\* A total with a term is the total without it, plus the term.
LEMMA TotalWithout ==
    ASSUME NEW s \in Seq(Int), NEW r \in Seq(Int), NEW k \in 1..Len(s),
           Omits(r, Len(r), s, Len(s), k)
    PROVE  Total(s) = Total(r) + s[k]
<1>1. PICK f : Accumulates(f, s, Len(s), 0, Plus) /\ Total(s) = f[Len(s)]
  BY TotalIsFolded
<1>2. PICK g : Accumulates(g, r, Len(r), 0, Plus) /\ Total(r) = g[Len(r)]
  BY TotalIsFolded
<1>3. Len(s) \in Nat /\ Within(s, Len(s), Int)
  BY SequencesAreWithin
<1>4. f[Len(s)] = Plus[g[Len(r)]][s[k]]
  <2> DEFINE n == Len(s)
             l == Len(r)
  <2>1. n \in Nat
    BY <1>3
  <2>2. k \in 1..n
    OBVIOUS
  <2>3. Accumulates(f, s, n, 0, Plus)
    BY <1>1
  <2>4. Accumulates(g, r, l, 0, Plus)
    BY <1>2
  <2>5. Omits(r, l, s, n, k)
    OBVIOUS
  <2>6. Within(s, n, Int)
    BY <1>3
  <2> HIDE DEF n, l
  <2>7. f[n] = Plus[g[l]][s[k]]
    BY <2>1, <2>2, <2>3, <2>4, <2>5, <2>6, PlusIsMonoid, FoldsWithout
  <2> QED  BY <2>7 DEF n, l
<1>5. Total(r) \in Int /\ s[k] \in Int
  BY <1>3, TotalType DEF Within
<1> QED  BY <1>1, <1>2, <1>4, <1>5 DEF Plus

\* A total does not depend on the order of the terms.
LEMMA TotalRearranged ==
    ASSUME NEW s \in Seq(Int), NEW r \in Seq(Int), NEW n, Len(s) = n, Len(r) = n,
           NEW p, Rearranges(p, n), \A i \in 1..n : r[i] = s[p[i]]
    PROVE  Total(r) = Total(s)
<1>1. PICK f : Accumulates(f, s, n, 0, Plus) /\ Total(s) = f[n]
  BY TotalIsFolded
<1>2. PICK g : Accumulates(g, r, n, 0, Plus) /\ Total(r) = g[n]
  BY TotalIsFolded
<1>3. n \in Nat /\ Within(s, n, Int)
  BY SequencesAreWithin
<1>4. f[n] = g[n]
  BY <1>1, <1>2, <1>3, PlusIsMonoid, FoldsRearrange
<1> QED  BY <1>1, <1>2, <1>4
-----------------------------------------------------------------------------
(* Row-major positions.                                                      *)

\* How many elements there are per step along axis i.
Width(s, i) == Numel(SubSeq(s, i + 1, Len(s)))

\* Dropping the first axis of those that follow axis i leaves those that
\* follow i + 1.
LEMMA Rest ==
    ASSUME NEW s \in Seq(Nat), NEW i \in 0..Len(s)
    PROVE  /\ SubSeq(s, i + 1, Len(s)) \in Seq(Nat)
           /\ Len(SubSeq(s, i + 1, Len(s))) = Len(s) - i
           /\ \A j \in 1..Len(s) - i : SubSeq(s, i + 1, Len(s))[j] = s[i + j]
<1> DEFINE n == Len(s)
           m == i + 1
<1>1. n \in Nat /\ Within(s, n, Nat)
  BY SequencesAreWithin
<1>2. m \in Int /\ n \in Int /\ \A j \in m..n : s[j] \in Nat
  <2>1. \A j \in m..n : j \in 1..n
    BY <1>1
  <2> QED  BY <1>1, <2>1 DEF Within
<1>3. /\ SubSeq(s, m, n) \in Seq(Nat)
      /\ Len(SubSeq(s, m, n)) = IF m <= n THEN n - m + 1 ELSE 0
      /\ \A j \in 1..n - m + 1 : SubSeq(s, m, n)[j] = s[m + j - 1]
  <2> HIDE DEF n, m
  <2> QED  BY <1>2, SubSeqProperties
<1>4. n - m + 1 = n - i /\ (m <= n \/ n - i = 0) /\ \A j \in 1..n - i : m + j - 1 = i + j
  BY <1>1
<1>5. Len(SubSeq(s, m, n)) = n - i
  <2> HIDE DEF n, m
  <2> QED  BY <1>3, <1>4
<1>6. \A j \in 1..n - i : SubSeq(s, m, n)[j] = s[i + j]
  <2> HIDE DEF n, m
  <2> QED  BY <1>3, <1>4
<1> QED  BY <1>3, <1>5, <1>6

\* Widths: 1 behind the last axis, numel() before the first, a product step by
\* step.
LEMMA Widths ==
    ASSUME NEW s \in Seq(Nat)
    PROVE  /\ Width(s, Len(s)) = 1
           /\ Width(s, 0) = Numel(s)
           /\ \A i \in 0..Len(s) : Width(s, i) \in Nat
           /\ \A i \in 1..Len(s) : Width(s, i - 1) = Width(s, i) * s[i]
<1> DEFINE n == Len(s)
<1>1. n \in Nat
  BY SequencesAreWithin
<1>2. Width(s, n) = 1
  <2>1. SubSeq(s, n + 1, n) = <<>>
    BY <1>1, SubSeqEmpty
  <2> QED  BY <2>1, NumelEmpty DEF Width
<1>3. Width(s, 0) = Numel(s)
  <2>1. SubSeq(s, 0 + 1, n) = s
    BY SubSeqFull
  <2> QED  BY <2>1 DEF Width
<1>4. \A i \in 0..n : Width(s, i) \in Nat
  BY Rest, NumelType DEF Width
<1>5. ASSUME NEW i \in 1..n
      PROVE  Width(s, i - 1) = Width(s, i) * s[i]
  <2> DEFINE t == SubSeq(s, i - 1 + 1, n)
             r == SubSeq(s, i + 1, n)
  <2>1. i - 1 \in 0..n /\ i \in 0..n
    BY <1>1
  <2>2. t \in Seq(Nat) /\ Len(t) = n - (i - 1) /\ \A j \in 1..n - (i - 1) : t[j] = s[i - 1 + j]
    BY <2>1, Rest
  <2>3. r \in Seq(Nat) /\ Len(r) = n - i /\ \A j \in 1..n - i : r[j] = s[i + j]
    BY <2>1, Rest
  <2>4. Width(s, i - 1) = Numel(t) /\ Width(s, i) = Numel(r)
    BY DEF Width
  <2> HIDE DEF t, r, n
  <2>5. 1 \in 1..Len(t) /\ Len(r) = Len(t) - 1 /\ t[1] = s[i]
    BY <1>1, <2>2, <2>3
  <2>6. Omits(r, Len(r), t, Len(t), 1)
    <3> SUFFICES ASSUME NEW j \in 1..Len(t) - 1
                 PROVE  r[j] = IF j < 1 THEN t[j] ELSE t[j + 1]
      BY <2>5 DEF Omits
    <3>1. j \in 1..n - i /\ j + 1 \in 1..n - (i - 1) /\ i - 1 + (j + 1) = i + j /\ ~(j < 1)
      BY <1>1, <2>2
    <3>2. t[j + 1] = s[i - 1 + (j + 1)]
      BY <2>2, <3>1
    <3>3. r[j] = s[i + j]
      BY <2>3, <3>1
    <3> QED  BY <3>1, <3>2, <3>3
  <2> QED  BY <2>2, <2>3, <2>4, <2>5, <2>6, NumelWithout
<1> QED  BY <1>2, <1>3, <1>4, <1>5

\* A contiguous stride is the number of elements of the axes that follow.
LEMMA StridesAreWidths ==
    ASSUME NEW s \in Seq(Nat)
    PROVE  /\ ContiguousStrides(s) \in Seq(Nat)
           /\ Len(ContiguousStrides(s)) = Len(s)
           /\ \A i \in 1..Len(s) : ContiguousStrides(s)[i] = Width(s, i)
<1> DEFINE n == Len(s)
           w == [i \in 1..n |-> Numel(SubSeq(s, i + 1, n))]
<1>1. n \in Nat /\ \A i \in 1..n : i \in 0..n
  BY SequencesAreWithin
<1>2. w \in [1..n -> Nat]
  BY <1>1, Widths DEF Width
<1>3. w \in Seq(Nat) /\ Len(w) = n
  <2> HIDE DEF w, n
  <2> QED  BY <1>1, <1>2, FunctionsAreSequences
<1>4. <<>> \o w = w
  <2> HIDE DEF w, n
  <2> QED  BY <1>3, ConcatEmptySeq
<1>5. ContiguousStrides(s) = w
  BY <1>4 DEF ContiguousStrides
<1>6. \A i \in 1..n : w[i] = Width(s, i)
  BY DEF Width
<1> QED  BY <1>3, <1>5, <1>6

Coordinates(shape) == {c \in [1..Len(shape) -> Nat] : \A i \in 1..Len(shape) : c[i] < shape[i]}

\* f[i] is how far the first i axes lead.
Leads(f, c, w, n) ==
    /\ f[0] = 0
    /\ \A i \in 0..n : f[i] \in Int
    /\ \A i \in 1..n : f[i] = f[i - 1] + c[i] * w[i]

\* The dot product of coordinates and strides is reached axis by axis.
LEMMA DotLeads ==
    ASSUME NEW n \in Nat, NEW c \in [1..n -> Int], NEW w, Within(w, n, Int)
    PROVE  /\ \E f : Leads(f, c, w, n) /\ Dot(c, w) = f[n]
           /\ [i \in 1..n |-> c[i] * w[i]] \in Seq(Int)
           /\ Len([i \in 1..n |-> c[i] * w[i]]) = n
           /\ Dot(c, w) = Total([i \in 1..n |-> c[i] * w[i]])
<1> DEFINE x == [i \in 1..n |-> c[i] * w[i]]
<1>1. \A i \in 1..n : c[i] * w[i] \in Int
  BY DEF Within
<1>2. Len(c) = n
  BY FunctionsAreSequences
<1>3. x \in Seq(Int) /\ Len(x) = n
  <2>1. x \in [1..n -> Int]
    BY <1>1
  <2> HIDE DEF x
  <2> QED  BY <2>1, FunctionsAreSequences
<1>4. Dot(c, w) = Total(x)
  BY <1>2 DEF Dot
<1>5. \A i \in 1..n : x[i] = c[i] * w[i]
  OBVIOUS
<1> HIDE DEF x
<1>6. PICK f : Accumulates(f, x, n, 0, Plus) /\ Total(x) = f[n]
  BY <1>3, TotalIsFolded
<1>7. \A i \in 0..n : f[i] \in Int
  BY <1>3, <1>6, SequencesAreWithin, PlusIsMonoid, FoldsStay
<1>8. ASSUME NEW i \in 1..n
      PROVE  f[i] = f[i - 1] + c[i] * w[i]
  <2>1. f[i - 1] \in Int /\ x[i] \in Int /\ x[i] = c[i] * w[i]
    <3>1. i - 1 \in 0..n
      OBVIOUS
    <3> QED  BY <1>1, <1>5, <1>7, <3>1
  <2>2. f[i] = Plus[f[i - 1]][x[i]]
    BY <1>6 DEF Accumulates
  <2> QED  BY <2>1, <2>2 DEF Plus
<1>9. Leads(f, c, w, n)
  BY <1>6, <1>7, <1>8 DEF Leads, Accumulates
<1>10. Dot(c, w) = f[n]
  BY <1>4, <1>6
<1> QED  BY <1>3, <1>4, <1>9, <1>10 DEF x
\* f[i] is the row-major distance that the first i axes lead.
Advances(f, c, s) ==
    /\ f[0] = 0
    /\ \A i \in 0..Len(s) : f[i] \in Int
    /\ \A i \in 1..Len(s) : f[i] = f[i - 1] + c[i] * Width(s, i)

\* The position of coordinates in row-major order is reached axis by axis.
LEMMA RavelAdvances ==
    ASSUME NEW s \in Seq(Nat), NEW c \in [1..Len(s) -> Int]
    PROVE  \E f : Advances(f, c, s) /\ Ravel(c, s) = f[Len(s)]
<1> DEFINE n == Len(s)
           w == ContiguousStrides(s)
<1>1. n \in Nat /\ Within(w, n, Int) /\ \A i \in 1..n : w[i] = Width(s, i)
  <2>1. n \in Nat /\ w \in Seq(Nat) /\ Len(w) = n /\ \A i \in 1..n : w[i] = Width(s, i)
    BY StridesAreWidths, SequencesAreWithin
  <2>2. Within(w, n, Nat)
    BY <2>1, SequencesAreWithin
  <2> QED  BY <2>1, <2>2 DEF Within
<1>2. PICK f : Leads(f, c, w, n) /\ Dot(c, w) = f[n]
  <2> HIDE DEF w, n
  <2>1. c \in [1..n -> Int]
    BY DEF n
  <2> QED  BY <1>1, <2>1, DotLeads, ZenonT(60)
<1>3. Advances(f, c, s)
  BY <1>1, <1>2 DEF Advances, Leads
<1> QED  BY <1>2, <1>3 DEF Ravel

\* Coordinates are natural numbers below the dimensions.
LEMMA CoordinatesType ==
    ASSUME NEW s \in Seq(Nat), NEW c \in Coordinates(s)
    PROVE  /\ c \in [1..Len(s) -> Int] /\ c \in [1..Len(s) -> Nat]
           /\ \A i \in 1..Len(s) : c[i] \in Nat /\ c[i] \in Int /\ s[i] \in Nat /\ c[i] < s[i]
<1>1. c \in [1..Len(s) -> Nat] /\ \A i \in 1..Len(s) : c[i] < s[i]
  BY DEF Coordinates
<1>2. \A i \in 1..Len(s) : s[i] \in Nat
  BY ElementOfSeq
<1>3. \A i \in 1..Len(s) : c[i] \in Nat /\ c[i] \in Int
  BY <1>1, SMTT(30)
<1> QED  BY <1>1, <1>2, <1>3

\* What the axes behind the i-th lead is less than a step along it.
LEMMA Remainders ==
    ASSUME NEW s \in Seq(Nat), NEW c \in Coordinates(s), NEW f, Advances(f, c, s),
           NEW i \in 0..Len(s)
    PROVE  f[Len(s)] - f[i] \in 0..Width(s, i) - 1
<1> DEFINE n == Len(s)
           P == {j \in 0..n : f[n] - f[n - j] \in 0..Width(s, n - j) - 1}
<1>1. n \in Nat /\ \A k \in 0..n : f[k] \in Int
  BY SequencesAreWithin DEF Advances
<1>2. 0 \in P
  <2>1. n - 0 = n /\ n \in 0..n /\ f[n] - f[n] = 0
    BY <1>1
  <2>2. Width(s, n) = 1
    BY Widths
  <2> HIDE DEF n
  <2> QED  BY <2>1, <2>2, <1>1
<1>3. ASSUME NEW j \in 1..n, j - 1 \in P
      PROVE  j \in P
  <2> DEFINE k == n - j + 1
             r == f[n] - f[k]
  <2>1. k \in 1..n /\ k - 1 = n - j /\ n - (j - 1) = k /\ k - 1 \in 0..n /\ k \in 0..n /\ n \in 0..n
    BY <1>1
  <2>2. r \in 0..Width(s, k) - 1
    BY <1>3, <2>1
  <2>3. c[k] \in Nat /\ s[k] \in Nat /\ c[k] < s[k]
    BY <2>1, CoordinatesType
  <2>4. Width(s, k) \in Nat /\ Width(s, k - 1) = Width(s, k) * s[k]
    BY <2>1, Widths
  <2>5. f[k] = f[k - 1] + c[k] * Width(s, k) /\ c[k] * Width(s, k) \in Int
    <3> HIDE DEF k
    <3>1. f[k] = f[k - 1] + c[k] * Width(s, k)
      BY <2>1 DEF Advances
    <3> QED  BY <2>3, <2>4, <3>1
  <2>6. f[n] \in Int /\ f[k] \in Int /\ f[k - 1] \in Int
    BY <1>1, <2>1
  <2>7. f[n] - f[k - 1] = r + c[k] * Width(s, k)
    <3> DEFINE x == c[k] * Width(s, k)
    <3>1. f[k] = f[k - 1] + x /\ x \in Int
      BY <2>5
    <3> HIDE DEF x, k, n
    <3>2. f[n] - f[k - 1] = f[n] - f[k] + x
      BY <2>6, <3>1, SMT
    <3> QED  BY <3>2 DEF x
  <2> HIDE DEF r, k, n
  <2>8. r + c[k] * Width(s, k) \in 0..Width(s, k) * s[k] - 1
    BY <2>2, <2>3, <2>4, DigitBound
  <2>9. f[n] - f[n - j] \in 0..Width(s, n - j) - 1
    BY <2>1, <2>4, <2>7, <2>8
  <2> QED  BY <2>9
<1>4. 0..n \subseteq P
  <2> HIDE DEF P
  <2> QED  BY <1>1, <1>2, <1>3, UpTo
<1>5. n - i \in P /\ n - (n - i) = i
  <2>1. n - i \in 0..n /\ n - (n - i) = i
    BY <1>1
  <2> HIDE DEF P
  <2> QED  BY <1>4, <2>1
<1> QED  BY <1>5

\* Row-major positions are those of the elements.
LEMMA RavelRange ==
    ASSUME NEW s \in Seq(Nat), NEW c \in Coordinates(s)
    PROVE  Ravel(c, s) \in 0..Numel(s) - 1
<1>1. PICK f : Advances(f, c, s) /\ Ravel(c, s) = f[Len(s)]
  BY CoordinatesType, RavelAdvances
<1>2. 0 \in 0..Len(s) /\ Len(s) \in 0..Len(s)
  BY SequencesAreWithin
<1>3. f[Len(s)] - f[0] \in 0..Width(s, 0) - 1
  BY <1>1, <1>2, Remainders
<1>4. f[0] = 0 /\ f[Len(s)] \in Int /\ Width(s, 0) = Numel(s)
  BY <1>1, <1>2, Widths DEF Advances
<1> QED  BY <1>1, <1>3, <1>4

\* Different coordinates have different row-major positions.
LEMMA RavelInjective ==
    ASSUME NEW s \in Seq(Nat), NEW c \in Coordinates(s), NEW d \in Coordinates(s),
           Ravel(c, s) = Ravel(d, s)
    PROVE  c = d
<1> DEFINE n == Len(s)
<1>1. PICK f : Advances(f, c, s) /\ Ravel(c, s) = f[n]
  BY CoordinatesType, RavelAdvances
<1>2. PICK g : Advances(g, d, s) /\ Ravel(d, s) = g[n]
  BY CoordinatesType, RavelAdvances
<1>3. n \in Nat
  BY SequencesAreWithin
<1> DEFINE P == {j \in 0..n : f[j] = g[j]}
<1>4. 0 \in P
  BY <1>1, <1>2, <1>3 DEF Advances
<1>5. ASSUME NEW j \in 1..n, f[j - 1] = g[j - 1]
      PROVE  f[j] = g[j] /\ c[j] = d[j]
  <2> DEFINE r == f[n] - f[j]
             t == g[n] - g[j]
             w == Width(s, j)
  <2>1. j \in 0..n /\ j - 1 \in 0..n /\ n \in 0..n
    BY <1>3
  <2>2. r \in 0..w - 1 /\ t \in 0..w - 1
    BY <1>1, <1>2, <2>1, Remainders
  <2>3. c[j] \in Nat /\ d[j] \in Nat
    BY CoordinatesType
  <2>4. w \in Nat
    BY <2>1, Widths
  <2>5. f[j] = f[j - 1] + c[j] * w /\ g[j] = g[j - 1] + d[j] * w
    BY <1>1, <1>2 DEF Advances
  <2>6. f[n] = g[n] /\ f[n] \in Int /\ f[j] \in Int /\ g[j] \in Int /\ f[j - 1] \in Int
    BY <1>1, <1>2, <2>1 DEF Advances
  <2>7. r + c[j] * w = t + d[j] * w
    <3> DEFINE x == c[j] * w
               y == d[j] * w
    <3>1. x \in Int /\ y \in Int /\ f[j] = f[j - 1] + x /\ g[j] = f[j - 1] + y
      BY <1>5, <2>3, <2>4, <2>5, SMT
    <3> HIDE DEF x, y, n
    <3>2. f[n] - f[j] + x = g[n] - g[j] + y
      BY <2>6, <3>1, SMT
    <3> QED  BY <3>2 DEF x, y
  <2> HIDE DEF w, n
  <2>8. c[j] = d[j] /\ r = t
    <3> HIDE DEF r, t
    <3> QED  BY <2>2, <2>3, <2>4, <2>7, DigitUnique
  <2> QED  BY <2>6, <2>8
<1>6. 0..n \subseteq P
  <2>1. ASSUME NEW j \in 1..n, j - 1 \in P
        PROVE  j \in P
    BY <1>5, <2>1
  <2> HIDE DEF P
  <2> QED  BY <1>3, <1>4, <2>1, UpTo
<1>7. \A j \in 1..n : c[j] = d[j]
  <2>1. \A j \in 1..n : j - 1 \in 0..n
    BY <1>3
  <2> QED  BY <1>5, <1>6, <2>1
<1>8. c \in [1..n -> Nat] /\ d \in [1..n -> Nat]
  BY CoordinatesType
<1>9. c = [i \in 1..n |-> c[i]] /\ d = [i \in 1..n |-> d[i]]
  BY <1>8
<1> HIDE DEF n
<1> QED  BY <1>7, <1>9, Zenon

\* A tensor with elements has no empty axis.
LEMMA AllPositive ==
    ASSUME NEW s \in Seq(Nat), Numel(s) # 0
    PROVE  /\ \A i \in 0..Len(s) : Width(s, i) \in Nat \ {0}
           /\ \A i \in 1..Len(s) : s[i] \in Nat \ {0}
<1> DEFINE n == Len(s)
           P == {j \in 0..n : Width(s, j) # 0}
<1>1. n \in Nat /\ \A i \in 1..n : s[i] \in Nat
  BY SequencesAreWithin DEF Within
<1>2. 0 \in P
  BY <1>1, Widths
<1>3. ASSUME NEW j \in 1..n, j - 1 \in P
      PROVE  j \in P /\ s[j] # 0
  <2>1. Width(s, j - 1) = Width(s, j) * s[j] /\ Width(s, j - 1) # 0
    BY <1>3, Widths
  <2>2. j \in 0..n /\ s[j] \in Nat
    BY <1>1
  <2>3. Width(s, j) \in Nat
    BY <2>2, Widths
  <2>4. \A a \in Nat : 0 * a = 0 /\ a * 0 = 0
    OBVIOUS
  <2>5. Width(s, j) # 0 /\ s[j] # 0
    BY <2>1, <2>2, <2>3, <2>4
  <2> QED  BY <2>2, <2>5
<1>4. 0..n \subseteq P
  <2> HIDE DEF P
  <2> QED  BY <1>1, <1>2, <1>3, UpTo
<1>5. \A j \in 1..n : j - 1 \in 0..n
  BY <1>1
<1>6. \A j \in 1..n : s[j] \in Nat \ {0}
  <2> HIDE DEF P
  <2> QED  BY <1>1, <1>3, <1>4, <1>5
<1>7. \A j \in 0..n : Width(s, j) \in Nat \ {0}
  BY <1>4, Widths
<1> QED  BY <1>6, <1>7

\* The coordinates of the n-th element are the digits of n.
LEMMA UnravelDigits ==
    ASSUME NEW s \in Seq(Nat), NEW n \in 0..Numel(s) - 1
    PROVE  /\ Unravel(n, s) \in Coordinates(s)
           /\ \A i \in 1..Len(s) : Unravel(n, s)[i] = (n \div Width(s, i)) % s[i]
<1>1. Numel(s) # 0 /\ n \in Nat
  BY NumelType
<1>2. ASSUME NEW i \in 1..Len(s)
      PROVE  (n \div Width(s, i)) % s[i] \in 0..s[i] - 1 /\ s[i] \in Nat
  <2>1. i \in 0..Len(s)
    BY SequencesAreWithin
  <2>2. Width(s, i) \in Nat \ {0} /\ s[i] \in Nat \ {0}
    BY <1>1, <2>1, AllPositive
  <2> QED  BY <1>1, <2>2, LastDigit
<1> DEFINE u == [i \in 1..Len(s) |-> (n \div ContiguousStrides(s)[i]) % s[i]]
<1>3. Unravel(n, s) = u
  BY DEF Unravel
<1>4. \A i \in 1..Len(s) : u[i] = (n \div Width(s, i)) % s[i]
  BY StridesAreWidths
<1>5. \A i \in 1..Len(s) : u[i] \in Nat /\ u[i] < s[i]
  <2> HIDE DEF u
  <2>1. ASSUME NEW i \in 1..Len(s)
        PROVE  u[i] \in Nat /\ u[i] < s[i]
    <3>1. u[i] \in 0..s[i] - 1 /\ s[i] \in Nat
      BY <1>2, <1>4
    <3> HIDE <1>4
    <3> QED  BY <3>1
  <2> QED  BY <2>1
<1>6. u \in [1..Len(s) -> Nat]
  <2>1. u = [i \in 1..Len(s) |-> u[i]]
    OBVIOUS
  <2> HIDE DEF u
  <2> QED  BY <1>5, <2>1
<1> HIDE DEF u
<1> QED  BY <1>3, <1>4, <1>5, <1>6 DEF Coordinates

\* The n-th element in row-major order is at position n.
LEMMA RavelOfUnravel ==
    ASSUME NEW s \in Seq(Nat), NEW n \in 0..Numel(s) - 1
    PROVE  Ravel(Unravel(n, s), s) = n
<1> DEFINE c == Unravel(n, s)
           m == Len(s)
<1>1. Numel(s) # 0 /\ n \in Nat /\ m \in Nat
  BY NumelType, SequencesAreWithin
<1>2. c \in Coordinates(s) /\ \A i \in 1..m : c[i] = (n \div Width(s, i)) % s[i]
  BY UnravelDigits
<1> HIDE DEF c
<1>3. PICK f : Advances(f, c, s) /\ Ravel(c, s) = f[m]
  BY <1>2, CoordinatesType, RavelAdvances
<1>4. \A i \in 0..m : f[i] \in Int
  BY <1>3 DEF Advances
<1> DEFINE P == {j \in 0..m : f[m] - f[m - j] = n % Width(s, m - j)}
<1>5. 0 \in P
  <2>1. m - 0 = m /\ m \in 0..m
    BY <1>1
  <2>2. f[m] - f[m] = 0
    BY <1>4, <2>1
  <2>3. Width(s, m) = 1
    BY Widths
  <2>4. n % 1 = 0
    BY <1>1
  <2> HIDE DEF m
  <2> QED  BY <1>1, <2>1, <2>2, <2>3, <2>4
<1>6. ASSUME NEW j \in 1..m, j - 1 \in P
      PROVE  j \in P
  <2> DEFINE k == m - j + 1
  <2>1. k \in 1..m /\ k - 1 = m - j /\ m - (j - 1) = k /\ k - 1 \in 0..m /\ k \in 0..m /\ m \in 0..m
    BY <1>1
  <2>2. f[m] - f[k] = n % Width(s, k)
    BY <1>6, <2>1
  <2> HIDE DEF k
  <2>3. Width(s, k) \in Nat \ {0} /\ s[k] \in Nat \ {0}
    BY <1>1, <2>1, AllPositive
  <2>4. Width(s, k - 1) = Width(s, k) * s[k]
    BY <2>1, Widths
  <2>5. n % (Width(s, k) * s[k]) = (n % Width(s, k)) + c[k] * Width(s, k)
    <3> DEFINE w == Width(s, k)
               b == s[k]
    <3>1. c[k] = (n \div w) % b
      BY <1>2, <2>1
    <3>2. w \in Nat \ {0} /\ b \in Nat \ {0}
      BY <2>3
    <3> HIDE DEF w, b
    <3>3. n % (w * b) = (n % w) + ((n \div w) % b) * w
      BY <1>1, <3>2, LastDigit
    <3>4. n % (w * b) = (n % w) + c[k] * w
      BY <3>1, <3>3
    <3> QED  BY <3>4 DEF w, b
  <2>6. f[k] = f[k - 1] + c[k] * Width(s, k)
    BY <1>3, <2>1 DEF Advances
  <2>7. c[k] * Width(s, k) \in Int
    <3>1. c[k] \in Nat
      BY <1>2, <2>1, CoordinatesType
    <3> QED  BY <2>3, <3>1
  <2>8. f[m] - f[k - 1] = (n % Width(s, k)) + c[k] * Width(s, k)
    <3> DEFINE x == c[k] * Width(s, k)
               r == n % Width(s, k)
    <3>1. x \in Int /\ f[k] = f[k - 1] + x /\ f[m] - f[k] = r
      BY <2>2, <2>6, <2>7
    <3>2. f[m] \in Int /\ f[k] \in Int /\ f[k - 1] \in Int
      BY <1>4, <2>1
    <3> HIDE DEF x, r, m
    <3>3. f[m] - f[k - 1] = r + x
      BY <3>1, <3>2
    <3> QED  BY <3>3 DEF x, r
  <2>9. f[m] - f[m - j] = n % Width(s, m - j)
    BY <2>1, <2>4, <2>5, <2>8
  <2> QED  BY <2>9
<1>7. 0..m \subseteq P
  <2> HIDE DEF P
  <2> QED  BY <1>1, <1>5, <1>6, UpTo
<1>8. m \in P /\ m - m = 0
  <2> HIDE DEF P
  <2> QED  BY <1>1, <1>7
<1>9. f[m] - f[0] = n % Width(s, 0)
  <2> HIDE DEF m
  <2> QED  BY <1>8
<1>10. f[0] = 0 /\ Width(s, 0) = Numel(s) /\ f[m] \in Int
  <2>1. m \in 0..m
    BY <1>1
  <2> QED  BY <1>3, <1>4, <2>1, Widths DEF Advances
<1>11. n % Numel(s) = n
  <2> DEFINE k == Numel(s)
  <2>1. k \in Nat /\ n \in 0..k - 1
    BY NumelType
  <2> HIDE DEF k
  <2>2. n % k = n
    BY <2>1
  <2> QED  BY <2>2 DEF k
<1>12. f[m] = n
  <2> HIDE DEF m
  <2> QED  BY <1>9, <1>10, <1>11
<1> QED  BY <1>3, <1>12 DEF c

\* Coordinates are recovered from their position.
LEMMA UnravelOfRavel ==
    ASSUME NEW s \in Seq(Nat), NEW c \in Coordinates(s)
    PROVE  Unravel(Ravel(c, s), s) = c
<1>1. Ravel(c, s) \in 0..Numel(s) - 1
  BY RavelRange
<1>2. Unravel(Ravel(c, s), s) \in Coordinates(s)
  BY <1>1, UnravelDigits
<1>3. Ravel(Unravel(Ravel(c, s), s), s) = Ravel(c, s)
  BY <1>1, RavelOfUnravel
<1> QED  BY <1>2, <1>3, RavelInjective

-----------------------------------------------------------------------------
(* Layouts.                                                                  *)

\* The metadata of a tensor, before its offset is validated.
Layout == [shape : Seq(Nat), strides : Seq(Int), offset : Int, storage : Nat]
IsLayout(t) == t \in Layout /\ Len(t.strides) = Len(t.shape)

\* Where the element at coordinate c is.
Place(t, c) == t.offset + Dot(c, t.strides)

\* The elements lie in a storage of the given size, no two of them together.
Sound(t, size) ==
    /\ IsLayout(t) /\ t.offset \in Nat
    /\ \A c \in Coordinates(t.shape) : Place(t, c) \in 0..size - 1
    /\ \A c, d \in Coordinates(t.shape) : Place(t, c) = Place(t, d) => c = d

\* The types of the parts of a layout.
LEMMA LayoutType ==
    ASSUME NEW t, IsLayout(t)
    PROVE  /\ t.shape \in Seq(Nat) /\ t.strides \in Seq(Int) /\ t.offset \in Int /\ t.storage \in Nat
           /\ Len(t.shape) \in Nat /\ Len(t.strides) = Len(t.shape)
           /\ Within(t.strides, Len(t.shape), Int)
           /\ \A i \in 1..Len(t.shape) : t.shape[i] \in Nat /\ t.strides[i] \in Int
<1>1. /\ t.shape \in Seq(Nat) /\ t.strides \in Seq(Int) /\ t.offset \in Int /\ t.storage \in Nat
      /\ Len(t.strides) = Len(t.shape)
  BY DEF IsLayout, Layout
<1>2. Len(t.shape) \in Nat /\ Within(t.shape, Len(t.shape), Nat) /\ Within(t.strides, Len(t.strides), Int)
  BY <1>1, SequencesAreWithin
<1>3. Within(t.strides, Len(t.shape), Int)
  BY <1>1, <1>2
<1>4. \A i \in 1..Len(t.shape) : t.shape[i] \in Nat /\ t.strides[i] \in Int
  BY <1>2, <1>3 DEF Within
<1> QED  BY <1>1, <1>2, <1>3, <1>4

\* The dot product of coordinates and strides is an integer.
LEMMA DotType ==
    ASSUME NEW t, IsLayout(t), NEW c \in [1..Len(t.shape) -> Int]
    PROVE  Dot(c, t.strides) \in Int /\ Place(t, c) \in Int
<1> DEFINE n == Len(t.shape)
<1>1. n \in Nat /\ Within(t.strides, n, Int) /\ t.offset \in Int
  BY LayoutType
<1>2. PICK f : Leads(f, c, t.strides, n) /\ Dot(c, t.strides) = f[n]
  <2>1. c \in [1..n -> Int]
    OBVIOUS
  <2> HIDE DEF n
  <2> QED  BY <1>1, <2>1, DotLeads
<1>3. n \in 0..n
  BY <1>1
<1> QED  BY <1>1, <1>2, <1>3 DEF Leads, Place

\* Numbering reaches every coordinate once.
LEMMA SoundAddresses ==
    ASSUME NEW t, NEW size \in Nat, Sound(t, size)
    PROVE  /\ Addresses(t) \subseteq 0..size - 1
           /\ Cardinality(Addresses(t)) = Numel(t.shape)
<1> DEFINE s == t.shape
           N == 0..Numel(s) - 1
           f == [n \in N |-> Address(t, n)]
<1>1. s \in Seq(Nat) /\ Numel(s) \in Nat
  BY LayoutType, NumelType DEF Sound
<1>2. ASSUME NEW n \in N
      PROVE  /\ Unravel(n, s) \in Coordinates(s) /\ Ravel(Unravel(n, s), s) = n
             /\ Address(t, n) = Place(t, Unravel(n, s)) /\ Address(t, n) \in 0..size - 1
  <2>1. Unravel(n, s) \in Coordinates(s)
    BY <1>1, UnravelDigits
  <2>2. Ravel(Unravel(n, s), s) = n
    BY <1>1, RavelOfUnravel
  <2>3. Address(t, n) = Place(t, Unravel(n, s))
    BY DEF Address, Place
  <2> QED  BY <2>1, <2>2, <2>3 DEF Sound
<1>3. ASSUME NEW m \in N, NEW n \in N, Address(t, m) = Address(t, n)
      PROVE  m = n
  <2>1. Unravel(m, s) = Unravel(n, s)
    <3>1. Place(t, Unravel(m, s)) = Place(t, Unravel(n, s))
      BY <1>2, <1>3
    <3> QED  BY <1>2, <3>1 DEF Sound
  <2> QED  BY <1>2, <2>1
<1>4. Addresses(t) \subseteq 0..size - 1
  BY <1>2 DEF Addresses
<1>5. f \in Bijection(N, Addresses(t))
  <2>1. f \in [N -> Addresses(t)]
    BY DEF Addresses
  <2>2. \A a, b \in N : f[a] = f[b] => a = b
    BY <1>3
  <2>3. \A a \in Addresses(t) : \E n \in N : f[n] = a
    BY DEF Addresses
  <2> HIDE DEF f, N
  <2>4. f \in Injection(N, Addresses(t))
    BY <2>1, <2>2 DEF Injection, IsInjective
  <2>5. f \in Surjection(N, Addresses(t))
    BY <2>1, <2>3 DEF Surjection
  <2> QED  BY <2>4, <2>5 DEF Bijection
<1>6. IsFiniteSet(N) /\ Cardinality(N) = Numel(s)
  <2> DEFINE k == Numel(s)
  <2>1. k \in Nat
    BY <1>1
  <2> HIDE DEF k
  <2>2. /\ IsFiniteSet(0..k - 1)
        /\ Cardinality(0..k - 1) = IF 0 > k - 1 THEN 0 ELSE (k - 1) - 0 + 1
    BY <2>1, FS_Interval
  <2>3. IsFiniteSet(0..k - 1) /\ Cardinality(0..k - 1) = k
    BY <2>1, <2>2
  <2> QED  BY <2>3 DEF k
<1>7. Cardinality(Addresses(t)) = Numel(s)
  <2>1. ExistsBijection(N, Addresses(t))
    BY <1>5 DEF ExistsBijection
  <2> HIDE DEF N
  <2> QED  BY <1>6, <2>1, FS_Bijection
<1> QED  BY <1>4, <1>7

\* A contiguous tensor has its elements in row-major order.
LEMMA ContiguousDot ==
    ASSUME NEW t, IsLayout(t), IsContiguous(t), NEW c \in Coordinates(t.shape)
    PROVE  Dot(c, t.strides) = Ravel(c, t.shape)
<1> DEFINE s == t.shape
           n == Len(s)
           w == t.strides
<1>1. s \in Seq(Nat) /\ n \in Nat /\ Within(w, n, Int) /\ \A i \in 1..n : s[i] \in Nat
  BY LayoutType
<1>2. c \in [1..n -> Int] /\ \A i \in 1..n : c[i] \in Nat /\ c[i] < s[i]
  BY <1>1, CoordinatesType
<1>3. PICK f : Leads(f, c, w, n) /\ Dot(c, w) = f[n]
  <2> HIDE DEF n, w
  <2> QED  BY <1>1, <1>2, DotLeads
<1>4. PICK g : Advances(g, c, s) /\ Ravel(c, s) = g[n]
  <2> HIDE DEF s
  <2> QED  BY <1>1, <1>2, RavelAdvances DEF n
<1>5. ASSUME NEW i \in 1..n
      PROVE  c[i] * w[i] = c[i] * Width(s, i)
  <2>1. Numel(s) # 0
    <3>1. Ravel(c, s) \in 0..Numel(s) - 1
      BY <1>1, RavelRange
    <3> QED  BY <3>1
  <2>2. s[i] = 1 \/ w[i] = ContiguousStrides(s)[i]
    BY <2>1 DEF IsContiguous, Rank
  <2>3. CASE w[i] = ContiguousStrides(s)[i]
    BY <1>1, <2>3, StridesAreWidths
  <2>4. CASE s[i] = 1
    <3>1. c[i] = 0
      BY <1>2, <2>4
    <3>2. i \in 0..n
      BY <1>1
    <3>3. w[i] \in Int /\ Width(s, i) \in Int
      BY <1>1, <3>2, Widths DEF Within
    <3>4. \A a \in Int : 0 * a = 0
      OBVIOUS
    <3> QED  BY <3>1, <3>3, <3>4
  <2> QED  BY <2>2, <2>3, <2>4
<1>6. f[0] = g[0] /\ \A i \in 1..n : f[i - 1] = g[i - 1] => f[i] = g[i]
  BY <1>3, <1>4, <1>5 DEF Leads, Advances
<1> HIDE DEF n
<1>7. f[n] = g[n]
  <2>1. n \in 0..n
    BY <1>1
  <2>2. \A i \in 0..n : f[i] = g[i]
    <3>1. InStep(f, g, n)
      BY <1>6 DEF InStep
    <3> QED  BY <1>1, <3>1, InStepAgree
  <2> QED  BY <2>1, <2>2
<1> QED  BY <1>3, <1>4, <1>7

\* One step along an axis.
Unit(n, i) == [j \in 1..n |-> IF j = i THEN 1 ELSE 0]

\* One step along an axis moves by its stride.
LEMMA DotUnit ==
    ASSUME NEW n \in Nat, NEW i \in 1..n, NEW w, Within(w, n, Int)
    PROVE  Dot(Unit(n, i), w) = w[i]
<1> DEFINE c == Unit(n, i)
<1>1. \A j \in 1..n : c[j] = IF j = i THEN 1 ELSE 0
  BY DEF Unit
<1>2. PICK f : Leads(f, c, w, n) /\ Dot(c, w) = f[n]
  <2>1. c \in [1..n -> Int]
    BY DEF Unit
  <2> HIDE DEF c
  <2> QED  BY <2>1, DotLeads
<1> HIDE DEF c
<1>3. \A j \in 1..n : w[j] \in Int
  BY DEF Within
<1> DEFINE P == {j \in 0..n : f[j] = IF j < i THEN 0 ELSE w[i]}
<1>4. 0 \in P
  BY <1>2 DEF Leads
<1>5. ASSUME NEW j \in 1..n, j - 1 \in P
      PROVE  j \in P
  <2>1. f[j] = f[j - 1] + c[j] * w[j] /\ w[j] \in Int /\ w[i] \in Int
    BY <1>2, <1>3 DEF Leads
  <2>2. f[j - 1] = IF j - 1 < i THEN 0 ELSE w[i]
    BY <1>5
  <2>3. CASE j = i
    <3>1. f[j] = 0 + 1 * w[i]
      BY <1>1, <2>1, <2>2, <2>3
    <3>2. f[j] = w[i]
      BY <2>1, <3>1
    <3> QED  BY <2>3, <3>2
  <2>4. CASE j # i
    <3>1. c[j] = 0 /\ f[j - 1] \in Int
      BY <1>1, <2>1, <2>2, <2>4
    <3>2. f[j] = f[j - 1]
      BY <2>1, <3>1
    <3>3. j - 1 < i <=> j < i
      BY <2>4
    <3> QED  BY <2>2, <3>2, <3>3
  <2> QED  BY <2>3, <2>4
<1>6. n \in P
  <2>1. 0..n \subseteq P
    <3> HIDE DEF P
    <3> QED  BY <1>4, <1>5, UpTo
  <2> HIDE DEF P
  <2> QED  BY <2>1
<1>7. f[n] = w[i]
  BY <1>6
<1> QED  BY <1>2, <1>7 DEF c

\* So is_contiguous() means what its callers take it to mean.
LEMMA ContiguousConsecutive ==
    ASSUME NEW t, IsLayout(t)
    PROVE  IsContiguous(t) <=>
             \A n \in 0..Numel(t.shape) - 1 : Address(t, n) = t.offset + n
<1> DEFINE s == t.shape
           k == Len(s)
           w == t.strides
<1>1. /\ s \in Seq(Nat) /\ k \in Nat /\ Within(w, k, Int) /\ t.offset \in Int
      /\ \A i \in 1..k : s[i] \in Nat /\ w[i] \in Int
  BY LayoutType
<1>2. ASSUME IsContiguous(t), NEW n \in 0..Numel(s) - 1
      PROVE  Address(t, n) = t.offset + n
  <2>1. Unravel(n, s) \in Coordinates(s)
    BY <1>1, UnravelDigits
  <2>2. Dot(Unravel(n, s), w) = Ravel(Unravel(n, s), s)
    BY <1>2, <2>1, ContiguousDot
  <2>3. Ravel(Unravel(n, s), s) = n
    BY <1>1, RavelOfUnravel
  <2> QED  BY <2>2, <2>3 DEF Address
<1>3. ASSUME \A n \in 0..Numel(s) - 1 : Address(t, n) = t.offset + n, Numel(s) # 0,
             NEW i \in 1..k, s[i] # 1
      PROVE  w[i] = ContiguousStrides(s)[i]
  <2> DEFINE e == Unit(k, i)
             n == Ravel(e, s)
  <2>1. e \in Coordinates(s)
    <3>1. \A j \in 1..k : s[j] \in Nat \ {0}
      BY <1>1, <1>3, AllPositive
    <3>2. \A j \in 1..k : e[j] \in Nat /\ e[j] < s[j]
      BY <1>3, <3>1 DEF Unit
    <3>3. e \in [1..k -> Nat]
      BY DEF Unit
    <3> HIDE DEF e
    <3> QED  BY <3>2, <3>3 DEF Coordinates
  <2>2. n \in 0..Numel(s) - 1 /\ Unravel(n, s) = e
    BY <1>1, <2>1, RavelRange, UnravelOfRavel
  <2>3. n = ContiguousStrides(s)[i]
    <3> DEFINE v == ContiguousStrides(s)
    <3>1. v \in Seq(Nat) /\ Len(v) = k
      BY <1>1, StridesAreWidths
    <3>2. Within(v, k, Int)
      <4>1. Within(v, k, Nat)
        BY <3>1, SequencesAreWithin
      <4> QED  BY <4>1 DEF Within
    <3>3. Dot(e, v) = v[i]
      <4> HIDE DEF k, v
      <4> QED  BY <1>1, <3>2, DotUnit
    <3> QED  BY <3>3 DEF Ravel
  <2>4. Address(t, n) = t.offset + w[i]
    <3>1. Dot(e, w) = w[i]
      <4> HIDE DEF k, w
      <4> QED  BY <1>1, DotUnit
    <3> HIDE DEF n, e
    <3> QED  BY <2>2, <3>1 DEF Address
  <2>5. Address(t, n) = t.offset + n
    <3> HIDE DEF n
    <3> QED  BY <1>3, <2>2
  <2>6. n \in Int /\ w[i] \in Int /\ t.offset \in Int
    <3>1. Numel(s) \in Nat
      BY <1>1, NumelType
    <3> HIDE DEF n
    <3> QED  BY <1>1, <2>2, <3>1
  <2> HIDE DEF n, w
  <2>7. n = w[i]
    BY <2>4, <2>5, <2>6
  <2> QED  BY <2>3, <2>7 DEF w
<1>4. (\A n \in 0..Numel(s) - 1 : Address(t, n) = t.offset + n) => IsContiguous(t)
  BY <1>3 DEF IsContiguous, Rank
<1> QED  BY <1>2, <1>4

-----------------------------------------------------------------------------
(* Views. M takes a coordinate of the view u to one of t.                    *)

IsView(u, t, M) ==
    /\ IsLayout(u) /\ u.storage = t.storage
    /\ \A c \in Coordinates(u.shape) : M[c] \in Coordinates(t.shape) /\ Place(u, c) = Place(t, M[c])
    /\ \A c, d \in Coordinates(u.shape) : M[c] = M[d] => c = d

\* A view of a sound tensor is sound, if its offset is not negative.
LEMMA ViewsAreSound ==
    ASSUME NEW t, NEW u, NEW M, NEW size, Sound(t, size), IsView(u, t, M), u.offset >= 0
    PROVE  Sound(u, size)
<1>1. u.offset \in Nat /\ IsLayout(u)
  BY LayoutType DEF IsView
<1>2. ASSUME NEW c \in Coordinates(u.shape)
      PROVE  Place(u, c) \in 0..size - 1
  BY DEF Sound, IsView
<1>3. ASSUME NEW c \in Coordinates(u.shape), NEW d \in Coordinates(u.shape), Place(u, c) = Place(u, d)
      PROVE  c = d
  <2>1. M[c] \in Coordinates(t.shape) /\ M[d] \in Coordinates(t.shape)
        /\ Place(t, M[c]) = Place(t, M[d])
    BY <1>3 DEF IsView
  <2>2. M[c] = M[d]
    BY <2>1 DEF Sound
  <2> QED  BY <2>2 DEF IsView
<1> QED  BY <1>1, <1>2, <1>3 DEF Sound

\* A contiguous tensor under another shape with as many elements.
LEMMA ReshapedIsSound ==
    ASSUME NEW t, NEW size \in Nat, Sound(t, size), IsContiguous(t),
           NEW shape \in Seq(Nat), Numel(shape) = Numel(t.shape)
    PROVE  Sound([t EXCEPT !.shape = shape, !.strides = ContiguousStrides(shape)], size)
<1> DEFINE w == ContiguousStrides(shape)
           u == [t EXCEPT !.shape = shape, !.strides = w]
           N == Numel(t.shape)
<1>1. w \in Seq(Nat) /\ Len(w) = Len(shape) /\ t.shape \in Seq(Nat) /\ N \in Nat
  BY StridesAreWidths, LayoutType, NumelType DEF Sound
<1>2. w \in Seq(Int)
  BY <1>1, SeqMonotonic
<1>3. u.shape = shape /\ u.strides = w /\ u.offset = t.offset /\ u \in Layout /\ t.offset \in Nat
  <2>1. t \in Layout /\ t.offset \in Nat
    BY DEF Sound, IsLayout
  <2> HIDE DEF w
  <2> QED  BY <1>2, <2>1 DEF Layout
<1>4. IsLayout(u)
  <2> HIDE DEF u, w
  <2> QED  BY <1>1, <1>3 DEF IsLayout
<1>5. \A n \in 0..N - 1 : t.offset + n \in 0..size - 1
  <2>1. Addresses(t) \subseteq 0..size - 1
    BY SoundAddresses
  <2>2. \A n \in 0..N - 1 : Address(t, n) = t.offset + n
    BY ContiguousConsecutive DEF Sound
  <2>3. \A n \in 0..N - 1 : Address(t, n) \in Addresses(t)
    BY DEF Addresses
  <2> HIDE DEF N
  <2> QED  BY <2>1, <2>2, <2>3
<1>6. ASSUME NEW c \in Coordinates(shape)
      PROVE  Place(u, c) = t.offset + Ravel(c, shape) /\ Ravel(c, shape) \in 0..N - 1
  <2> HIDE DEF u
  <2> QED  BY <1>3, RavelRange DEF Place, Ravel
<1>7. ASSUME NEW c \in Coordinates(shape), NEW d \in Coordinates(shape), Place(u, c) = Place(u, d)
      PROVE  c = d
  <2>1. Ravel(c, shape) = Ravel(d, shape)
    <3> HIDE DEF u, N
    <3> QED  BY <1>1, <1>3, <1>6, <1>7
  <2> QED  BY <2>1, RavelInjective
<1> HIDE DEF u, N
<1>8. \A c \in Coordinates(shape) : Place(u, c) \in 0..size - 1
  BY <1>5, <1>6
<1> QED  BY <1>3, <1>4, <1>7, <1>8 DEF Sound, u

\* A view of a view is a view.
LEMMA ViewsCompose ==
    ASSUME NEW t, NEW u, NEW v, NEW M, NEW N, IsView(u, t, M), IsView(v, u, N)
    PROVE  \E L : IsView(v, t, L)
<1> DEFINE C == Coordinates(v.shape)
           L == [c \in C |-> M[N[c]]]
<1>1. \A c \in C : L[c] = M[N[c]] /\ N[c] \in Coordinates(u.shape)
  BY DEF IsView
<1>2. \A c \in C : L[c] \in Coordinates(t.shape) /\ Place(v, c) = Place(t, L[c])
  <2> HIDE DEF L
  <2> QED  BY <1>1 DEF IsView
<1>3. \A c, d \in C : L[c] = L[d] => c = d
  <2> HIDE DEF L
  <2> QED  BY <1>1 DEF IsView
<1> HIDE DEF L
<1>4. IsView(v, t, L)
  BY <1>2, <1>3 DEF IsView
<1> QED  BY <1>4

\* Any layout without elements is a view.
LEMMA EmptyViews ==
    ASSUME NEW t, NEW u, IsLayout(u), u.storage = t.storage,
           NEW k \in 1..Len(u.shape), u.shape[k] = 0
    PROVE  \E M : IsView(u, t, M)
<1>1. Coordinates(u.shape) = {}
  <2>1. \A c \in Coordinates(u.shape) : c[k] \in Nat /\ c[k] < u.shape[k]
    BY LayoutType, CoordinatesType
  <2> QED  BY <2>1
<1>2. IsView(u, t, <<>>)
  BY <1>1 DEF IsView
<1> QED  BY <1>2

\* n members of S, as a hypothesis of the lemmas below.
Vector(c, n, S) == c \in [1..n -> S]

\* The dot product is a total, for coordinates given as a Vector.
LEMMA DotIsTotal ==
    ASSUME NEW n \in Nat, NEW c, Vector(c, n, Int), NEW w, Within(w, n, Int)
    PROVE  /\ [i \in 1..n |-> c[i] * w[i]] \in Seq(Int)
           /\ Len([i \in 1..n |-> c[i] * w[i]]) = n
           /\ Dot(c, w) = Total([i \in 1..n |-> c[i] * w[i]])
BY DotLeads DEF Vector

\* One axis taken out of a product.
LEMMA DotWithout ==
    ASSUME NEW n \in Nat, NEW k \in 1..n, NEW l \in Nat,
           NEW c, NEW d, Vector(c, n, Int), Vector(d, l, Int),
           NEW w, NEW v, Within(w, n, Int), Within(v, l, Int),
           Omits(v, l, w, n, k), Omits(d, l, c, n, k)
    PROVE  /\ Dot(c, w) = Dot(d, v) + c[k] * w[k]
           /\ Dot(d, v) \in Int /\ c[k] \in Int /\ w[k] \in Int
<1> DEFINE x == [i \in 1..n |-> c[i] * w[i]]
           y == [i \in 1..l |-> d[i] * v[i]]
<1>1. x \in Seq(Int) /\ Len(x) = n /\ Dot(c, w) = Total(x)
  BY DotLeads DEF Vector
<1>2. y \in Seq(Int) /\ Len(y) = l /\ Dot(d, v) = Total(y)
  BY DotLeads DEF Vector
<1>3. Omits(y, l, x, n, k)
  <2>1. l = n - 1
    BY DEF Omits
  <2>2. ASSUME NEW i \in 1..l
        PROVE  y[i] = IF i < k THEN x[i] ELSE x[i + 1]
    <3>1. y[i] = d[i] * v[i] /\ i \in 1..n /\ i + 1 \in 1..n
      BY <2>1
    <3>2. x[i] = c[i] * w[i] /\ x[i + 1] = c[i + 1] * w[i + 1]
      BY <3>1
    <3>3. CASE i < k
      BY <3>1, <3>2, <3>3 DEF Omits
    <3>4. CASE ~(i < k)
      BY <3>1, <3>2, <3>4 DEF Omits
    <3> QED  BY <3>3, <3>4
  <2> HIDE DEF x, y
  <2> QED  BY <2>1, <2>2 DEF Omits
<1>4. x[k] = c[k] * w[k] /\ c[k] \in Int /\ w[k] \in Int
  BY DEF Within, Vector
<1> HIDE DEF x, y
<1>5. Total(x) = Total(y) + x[k]
  BY <1>1, <1>2, <1>3, TotalWithout
<1>6. Total(y) \in Int
  BY <1>2, TotalType
<1> QED  BY <1>1, <1>2, <1>4, <1>5, <1>6

\* The k-th of n axes dropped, and put back with the index a.
OneLess(l, n) == l \in Nat /\ l = n - 1
Without(c, l, k) == [j \in 1..l |-> IF j < k THEN c[j] ELSE c[j + 1]]
Inserted(c, n, k, a) == [j \in 1..n |-> IF j < k THEN c[j] ELSE IF j = k THEN a ELSE c[j - 1]]

\* Coordinates without one of them.
LEMMA WithoutCoordinates ==
    ASSUME NEW n \in Nat, NEW k \in 1..n, NEW l, OneLess(l, n),
           NEW c, Vector(c, n, Nat)
    PROVE  /\ Vector(Without(c, l, k), l, Nat) /\ Omits(Without(c, l, k), l, c, n, k)
           /\ l \in Nat
<1>1. ASSUME NEW j \in 1..l
      PROVE  (IF j < k THEN c[j] ELSE c[j + 1]) \in Nat
  <2>1. j \in 1..n /\ j + 1 \in 1..n
    BY DEF OneLess
  <2> QED  BY <2>1 DEF Vector
<1> QED  BY <1>1 DEF Without, Omits, OneLess, Vector

\* Coordinates with one more.
LEMMA InsertedCoordinates ==
    ASSUME NEW n \in Nat, NEW k \in 1..n, NEW l, OneLess(l, n),
           NEW c, Vector(c, l, Nat), NEW a \in Nat
    PROVE  /\ Vector(Inserted(c, n, k, a), n, Nat) /\ Inserted(c, n, k, a)[k] = a
           /\ Omits(c, l, Inserted(c, n, k, a), n, k)
           /\ l \in Nat
<1> DEFINE d == Inserted(c, n, k, a)
<1>1. \A j \in 1..n : d[j] = IF j < k THEN c[j] ELSE IF j = k THEN a ELSE c[j - 1]
  BY DEF Inserted
<1>2. ASSUME NEW j \in 1..n
      PROVE  (IF j < k THEN c[j] ELSE IF j = k THEN a ELSE c[j - 1]) \in Nat
  <2>1. CASE j < k
    <3>1. j \in 1..l
      BY <2>1 DEF OneLess
    <3> QED  BY <2>1, <3>1 DEF Vector
  <2>2. CASE j = k
    BY <2>2
  <2>3. CASE j > k
    <3>1. j - 1 \in 1..l
      BY <2>3 DEF OneLess
    <3> QED  BY <2>3, <3>1 DEF Vector
  <2> QED  BY <2>1, <2>2, <2>3
<1>3. d \in [1..n -> Nat]
  BY <1>2 DEF Inserted
<1>4. ASSUME NEW i \in 1..l
      PROVE  c[i] = IF i < k THEN d[i] ELSE d[i + 1]
  <2>1. i \in 1..n /\ i + 1 \in 1..n /\ (i + 1) - 1 = i
    BY DEF OneLess
  <2>2. CASE i < k
    BY <1>1, <2>1, <2>2
  <2>3. CASE ~(i < k)
    <3>1. d[i + 1] = c[(i + 1) - 1]
      BY <1>1, <2>1, <2>3
    <3> QED  BY <2>1, <2>3, <3>1
  <2> QED  BY <2>2, <2>3
<1> HIDE DEF d
<1> QED  BY <1>1, <1>3, <1>4 DEF Omits, OneLess, Vector, d

\* One axis selected at an index.
Selects(u, t, k, i) ==
    /\ Omits(u.shape, Len(u.shape), t.shape, Len(t.shape), k)
    /\ Omits(u.strides, Len(u.strides), t.strides, Len(t.strides), k)
    /\ u.offset = t.offset + i * t.strides[k] /\ u.storage = t.storage

\* The index put back into a coordinate.
Selecting(u, t, k, i) ==
    [c \in Coordinates(u.shape) |-> Inserted(c, Len(t.shape), k, i)]

\* select(): an axis is dropped and the offset moves to one of its elements.
LEMMA SelectionShows ==
    ASSUME NEW t, NEW u, IsLayout(t), IsLayout(u), NEW k \in 1..Len(t.shape),
           NEW i \in 0..t.shape[k] - 1, Selects(u, t, k, i)
    PROVE  IsView(u, t, Selecting(u, t, k, i))
<1> DEFINE n == Len(t.shape)
           l == Len(u.shape)
           C == Coordinates(u.shape)
           M == Selecting(u, t, k, i)
<1>1. /\ n \in Nat /\ k \in 1..n /\ l \in Nat /\ t.shape \in Seq(Nat) /\ u.shape \in Seq(Nat)
      /\ Within(t.strides, n, Int) /\ Within(u.strides, l, Int)
      /\ t.offset \in Int /\ u.offset \in Int /\ t.shape[k] \in Nat
  BY LayoutType
<1>2. l = n - 1
  BY DEF Selects, Omits
<1>3. i \in Nat /\ i < t.shape[k] /\ OneLess(l, n)
  <2> HIDE DEF n, l
  <2> QED  BY <1>1, <1>2, SMT DEF OneLess
<1>4. Omits(u.shape, l, t.shape, n, k) /\ Omits(u.strides, l, t.strides, n, k)
  BY LayoutType DEF Selects
<1>5. ASSUME NEW c \in C
      PROVE  /\ Inserted(c, n, k, i) \in Coordinates(t.shape)
             /\ Place(u, c) = Place(t, Inserted(c, n, k, i))
             /\ Omits(c, l, Inserted(c, n, k, i), n, k)
             /\ Vector(c, l, Nat)
  <2> DEFINE d == Inserted(c, n, k, i)
  <2>1. c \in [1..l -> Nat] /\ c \in [1..l -> Int] /\ \A j \in 1..l : c[j] < u.shape[j]
    BY <1>1, CoordinatesType
  <2>2. Vector(c, l, Nat) /\ Vector(c, l, Int)
    BY <2>1 DEF Vector
  <2>3. Vector(d, n, Nat) /\ d[k] = i /\ Omits(c, l, d, n, k) /\ l \in Nat
    <3> HIDE DEF n, l
    <3> QED  BY <1>1, <1>3, <2>2, InsertedCoordinates
  <2> HIDE DEF d
  <2>4. ASSUME NEW j \in 1..n
        PROVE  d[j] < t.shape[j]
    <3>1. CASE j < k
      <4>1. j \in 1..l
        BY <1>1, <1>2, <3>1
      <4> QED  BY <1>4, <2>1, <2>3, <3>1, <4>1 DEF Omits
    <3>2. CASE j = k
      BY <1>3, <2>3, <3>2
    <3>3. CASE j > k
      <4>1. j - 1 \in 1..l /\ ~(j - 1 < k) /\ (j - 1) + 1 = j
        <5>1. l = n - 1 /\ n \in Nat /\ k \in 1..n /\ j \in 1..n /\ j > k
          BY <1>1, <1>2, <3>3
        <5> HIDE DEF l, n
        <5> QED  BY <5>1
      <4> DEFINE i0 == j - 1
      <4>2. i0 \in 1..l /\ ~(i0 < k) /\ i0 + 1 = j
        BY <4>1
      <4> HIDE DEF i0
      <4>3. c[i0] = d[j] /\ u.shape[i0] = t.shape[j]
        BY <1>4, <2>3, <4>2 DEF Omits
      <4> QED  BY <2>1, <4>2, <4>3
    <3> QED  BY <3>1, <3>2, <3>3
  <2>5. d \in Coordinates(t.shape)
    BY <2>3, <2>4 DEF Coordinates, Vector
  <2>6. Place(u, c) = Place(t, d)
    <3>1. Vector(d, n, Int)
      BY <2>3 DEF Vector
    <3> HIDE DEF n, l
    <3>2. /\ Dot(d, t.strides) = Dot(c, u.strides) + d[k] * t.strides[k]
          /\ Dot(c, u.strides) \in Int /\ t.strides[k] \in Int
      BY <1>1, <1>4, <2>3, <2>2, <3>1, DotWithout, SMTT(30)
    <3> DEFINE x == i * t.strides[k]
               y == Dot(c, u.strides)
    <3>3. x \in Int
      BY <1>3, <3>2
    <3>4. u.offset = t.offset + x /\ Dot(d, t.strides) = y + x /\ y \in Int
      BY <2>3, <3>2 DEF Selects
    <3> HIDE DEF x
    <3>5. u.offset + y = t.offset + Dot(d, t.strides)
      <4> HIDE DEF y
      <4> QED  BY <1>1, <3>3, <3>4, SMT
    <3> QED  BY <3>5 DEF Place
  <2> QED  BY <2>3, <2>5, <2>6, <2>2 DEF d
<1>6. ASSUME NEW c \in C, NEW d \in C, Inserted(c, n, k, i) = Inserted(d, n, k, i)
      PROVE  c = d
  <2> DEFINE x == Inserted(c, n, k, i)
  <2> HIDE DEF n, l
  <2>1. Omits(c, l, x, n, k) /\ Omits(d, l, x, n, k) /\ Vector(c, l, Nat) /\ Vector(d, l, Nat)
    BY <1>5, <1>6
  <2> HIDE DEF x
  <2>2. \A j \in 1..l : c[j] = d[j]
    BY <2>1 DEF Omits
  <2>3. c = [j \in 1..l |-> c[j]] /\ d = [j \in 1..l |-> d[j]]
    BY <2>1 DEF Vector
  <2> QED  BY <2>2, <2>3, Zenon
<1>7. IsView(u, t, M)
  <2>1. \A c \in C : M[c] = Inserted(c, n, k, i)
    BY DEF Selecting
  <2>2. u.storage = t.storage
    BY DEF Selects
  <2> HIDE DEF M, n
  <2> QED  BY <1>5, <1>6, <2>1, <2>2 DEF IsView
<1> QED  BY <1>7

\* So selecting makes a view.
LEMMA SelectionIsView ==
    ASSUME NEW t, NEW u, IsLayout(t), IsLayout(u), NEW k \in 1..Len(t.shape),
           NEW i \in 0..t.shape[k] - 1, Selects(u, t, k, i)
    PROVE  \E M : IsView(u, t, M)
BY SelectionShows

\* An axis of one element put in.
Inserts(u, t, k) ==
    /\ Omits(t.shape, Len(t.shape), u.shape, Len(u.shape), k)
    /\ Omits(t.strides, Len(t.strides), u.strides, Len(u.strides), k)
    /\ u.shape[k] = 1 /\ u.offset = t.offset /\ u.storage = t.storage

\* The new axis left out of a coordinate.
Inserting(u, t, k) == [c \in Coordinates(u.shape) |-> Without(c, Len(t.shape), k)]

\* A new axis of one element shows the same elements.
LEMMA InsertionShows ==
    ASSUME NEW t, NEW u, IsLayout(t), IsLayout(u), NEW k \in 1..Len(u.shape), Inserts(u, t, k)
    PROVE  IsView(u, t, Inserting(u, t, k))
<1> DEFINE n == Len(u.shape)
           l == Len(t.shape)
           C == Coordinates(u.shape)
           M == Inserting(u, t, k)
<1>1. /\ n \in Nat /\ k \in 1..n /\ l \in Nat /\ t.shape \in Seq(Nat) /\ u.shape \in Seq(Nat)
      /\ Within(t.strides, l, Int) /\ Within(u.strides, n, Int)
      /\ t.offset \in Int /\ u.offset \in Int /\ u.shape[k] = 1
  BY LayoutType DEF Inserts
<1>2. l = n - 1 /\ OneLess(l, n)
  <2>1. l = n - 1
    BY DEF Inserts, Omits
  <2> HIDE DEF n, l
  <2> QED  BY <1>1, <2>1 DEF OneLess
<1>3. Omits(t.shape, l, u.shape, n, k) /\ Omits(t.strides, l, u.strides, n, k)
  BY LayoutType DEF Inserts
<1>4. ASSUME NEW c \in C
      PROVE  /\ Without(c, l, k) \in Coordinates(t.shape)
             /\ Place(u, c) = Place(t, Without(c, l, k))
             /\ Omits(Without(c, l, k), l, c, n, k)
             /\ Vector(c, n, Nat) /\ c[k] = 0
  <2> DEFINE d == Without(c, l, k)
  <2>1. c \in [1..n -> Nat] /\ c \in [1..n -> Int] /\ \A j \in 1..n : c[j] \in Nat /\ c[j] < u.shape[j]
    BY <1>1, CoordinatesType
  <2>2. Vector(c, n, Nat) /\ Vector(c, n, Int)
    BY <2>1 DEF Vector
  <2>3. c[k] = 0
    BY <1>1, <2>1
  <2>4. Vector(d, l, Nat) /\ Omits(d, l, c, n, k) /\ l \in Nat
    <3> HIDE DEF n, l
    <3> QED  BY <1>1, <1>2, <2>2, WithoutCoordinates
  <2> HIDE DEF d
  <2>5. ASSUME NEW j \in 1..l
        PROVE  d[j] < t.shape[j]
    <3> HIDE DEF n, l
    <3>1. j \in 1..n /\ j + 1 \in 1..n
      BY <1>1, <1>2
    <3>2. d[j] = (IF j < k THEN c[j] ELSE c[j + 1])
      BY <2>4 DEF Omits
    <3>3. t.shape[j] = (IF j < k THEN u.shape[j] ELSE u.shape[j + 1])
      BY <1>3 DEF Omits
    <3> QED  BY <2>1, <3>1, <3>2, <3>3
  <2>6. d \in Coordinates(t.shape)
    BY <2>4, <2>5 DEF Coordinates, Vector
  <2>7. Place(u, c) = Place(t, d)
    <3>1. Vector(d, l, Int)
      BY <2>4 DEF Vector
    <3> HIDE DEF n, l
    <3>2. /\ Dot(c, u.strides) = Dot(d, t.strides) + c[k] * u.strides[k]
          /\ Dot(d, t.strides) \in Int /\ u.strides[k] \in Int
      BY <1>1, <1>3, <2>4, <2>2, <3>1, DotWithout
    <3>3. c[k] * u.strides[k] = 0
      BY <2>3, <3>2
    <3>4. Dot(c, u.strides) = Dot(d, t.strides)
      BY <3>2, <3>3
    <3> QED  BY <3>4 DEF Place, Inserts
  <2> QED  BY <2>3, <2>4, <2>6, <2>7, <2>2 DEF d
<1>5. ASSUME NEW c \in C, NEW d \in C, Without(c, l, k) = Without(d, l, k)
      PROVE  c = d
  <2> DEFINE x == Without(c, l, k)
  <2> HIDE DEF n
  <2>1. /\ Omits(x, l, c, n, k) /\ Omits(x, l, d, n, k) /\ Vector(c, n, Nat) /\ Vector(d, n, Nat)
        /\ c[k] = 0 /\ d[k] = 0 /\ l = n - 1 /\ n \in Nat /\ k \in 1..n
    BY <1>1, <1>4, <1>5, <1>2
  <2> HIDE DEF x, l
  <2>2. ASSUME NEW j \in 1..n
        PROVE  c[j] = d[j]
    <3>1. CASE j < k
      <4>1. j \in 1..l
        BY <2>1, <3>1
      <4> QED  BY <2>1, <3>1, <4>1 DEF Omits
    <3>2. CASE j = k
      BY <2>1, <3>2
    <3>3. CASE j > k
      <4>1. j - 1 \in 1..l /\ ~(j - 1 < k) /\ (j - 1) + 1 = j
        BY <2>1, <3>3
      <4>2. x[j - 1] = c[(j - 1) + 1] /\ x[j - 1] = d[(j - 1) + 1]
        BY <2>1, <4>1 DEF Omits
      <4> QED  BY <4>1, <4>2
    <3> QED  BY <2>1, <3>1, <3>2, <3>3
  <2>3. c = [j \in 1..n |-> c[j]] /\ d = [j \in 1..n |-> d[j]]
    BY <2>1 DEF Vector
  <2> QED  BY <2>2, <2>3, Zenon
<1>6. IsView(u, t, M)
  <2>1. \A c \in C : M[c] = Without(c, l, k)
    BY DEF Inserting
  <2>2. u.storage = t.storage
    BY DEF Inserts
  <2> HIDE DEF M, l
  <2> QED  BY <1>4, <1>5, <2>1, <2>2 DEF IsView
<1> QED  BY <1>6

\* So inserting an axis makes a view.
LEMMA InsertionIsView ==
    ASSUME NEW t, NEW u, IsLayout(t), IsLayout(u), NEW k \in 1..Len(u.shape), Inserts(u, t, k)
    PROVE  \E M : IsView(u, t, M)
BY InsertionShows

\* A step along a sliced axis, in steps of the axis itself.
LEMMA Distributes ==
    ASSUME NEW a \in Int, NEW x \in Int, NEW w \in Int, NEW step \in Int
    PROVE  (a + x * step) * w = a * w + x * (w * step)
OBVIOUS

\* Different multiples of a step are different.
LEMMA Cancels ==
    ASSUME NEW x \in Int, NEW y \in Int, NEW step \in Int \ {0}, x * step = y * step
    PROVE  x = y
<1>1. (x - y) * step = 0
  OBVIOUS
<1>2. x - y = 0
  BY <1>1
<1> QED  BY <1>2

\* Another index along the k-th axis.
Moved(c, n, k, a) == [j \in 1..n |-> IF j = k THEN a ELSE c[j]]

\* An axis that starts elsewhere and takes other steps.
Slices(u, t, k, first, step) ==
    /\ Len(u.shape) = Len(t.shape)
    /\ \A j \in 1..Len(t.shape) : j # k => u.shape[j] = t.shape[j] /\ u.strides[j] = t.strides[j]
    /\ u.strides[k] = t.strides[k] * step
    /\ u.offset = t.offset + first * t.strides[k] /\ u.storage = t.storage

\* The index along the sliced axis, in steps from the first one.
Slicing(u, t, k, first, step) ==
    [c \in Coordinates(u.shape) |-> Moved(c, Len(t.shape), k, first + c[k] * step)]

\* slice(): every step-th element of an axis, from the first one taken, in
\* either direction.
LEMMA SliceShows ==
    ASSUME NEW t, NEW u, IsLayout(t), IsLayout(u), NEW k \in 1..Len(t.shape),
           NEW first \in Int, NEW step \in Int \ {0}, Slices(u, t, k, first, step),
           \A x \in Nat : x < u.shape[k] => first + x * step \in 0..t.shape[k] - 1
    PROVE  IsView(u, t, Slicing(u, t, k, first, step))
<1> DEFINE n == Len(t.shape)
           l == n - 1
           C == Coordinates(u.shape)
           to(c) == first + c[k] * step
           M == Slicing(u, t, k, first, step)
           w == t.strides
           v == u.strides
<1>1. /\ n \in Nat /\ k \in 1..n /\ t.shape \in Seq(Nat) /\ u.shape \in Seq(Nat)
      /\ Within(w, n, Int) /\ t.offset \in Int /\ u.offset \in Int /\ t.shape[k] \in Nat
  BY LayoutType
<1>2. Len(u.shape) = n /\ Within(v, n, Int)
  <2>1. Len(u.shape) = n
    BY DEF Slices
  <2>2. Within(v, Len(u.shape), Int)
    BY LayoutType
  <2> QED  BY <2>1, <2>2
<1>3. OneLess(l, n)
  <2> HIDE DEF n
  <2> QED  BY <1>1 DEF OneLess
<1>4. ASSUME NEW c \in C
      PROVE  /\ Moved(c, n, k, to(c)) \in Coordinates(t.shape)
             /\ Place(u, c) = Place(t, Moved(c, n, k, to(c)))
             /\ Vector(c, n, Nat)
  <2> DEFINE d == Moved(c, n, k, to(c))
  <2>1. c \in [1..n -> Nat] /\ \A j \in 1..n : c[j] \in Nat /\ c[j] < u.shape[j]
    BY <1>1, <1>2, CoordinatesType
  <2>2. Vector(c, n, Nat) /\ Vector(c, n, Int)
    BY <2>1 DEF Vector
  <2>3. to(c) \in Nat /\ to(c) < t.shape[k]
    <3>1. to(c) \in 0..t.shape[k] - 1
      BY <1>1, <2>1
    <3> QED  BY <1>1, <3>1, SMT
  <2>4. \A j \in 1..n : d[j] = IF j = k THEN to(c) ELSE c[j]
    BY DEF Moved
  <2>5. d \in [1..n -> Nat]
    <3> HIDE DEF to
    <3> QED  BY <2>1, <2>3 DEF Moved
  <2>6. Vector(d, n, Nat) /\ Vector(d, n, Int)
    BY <2>5 DEF Vector
  <2> HIDE DEF d
  <2>7. d \in Coordinates(t.shape)
    <3>1. \A j \in 1..n : d[j] < t.shape[j]
      <4> HIDE DEF to
      <4> QED  BY <2>1, <2>3, <2>4 DEF Slices
    <3> QED  BY <2>5, <3>1 DEF Coordinates
  <2>8. Place(u, c) = Place(t, d)
    <3> DEFINE r == Without(c, l, k)
               z == [j \in 1..l |-> IF j < k THEN w[j] ELSE w[j + 1]]
    <3>1. Vector(r, l, Int) /\ Omits(r, l, c, n, k) /\ l \in Nat
      <4>1. Vector(r, l, Nat) /\ Omits(r, l, c, n, k) /\ l \in Nat
        <5> HIDE DEF n, l
        <5> QED  BY <1>1, <1>3, <2>2, WithoutCoordinates
      <4> HIDE DEF r, l
      <4> QED  BY <4>1 DEF Vector
    <3>2. Omits(r, l, d, n, k)
      <4>1. \A j \in 1..l : /\ j < k => r[j] = c[j] /\ d[j] = c[j]
                            /\ ~(j < k) => r[j] = c[j + 1] /\ d[j + 1] = c[j + 1]
        <5>1. \A j \in 1..l : j \in 1..n /\ j + 1 \in 1..n
          <6> HIDE DEF n
          <6> QED  BY <1>1
        <5> HIDE DEF to, r, l
        <5> QED  BY <2>4, <3>1, <5>1 DEF Omits
      <4> HIDE DEF r
      <4> QED  BY <4>1 DEF Omits
    <3>3. Within(z, l, Int) /\ Omits(z, l, w, n, k) /\ Omits(z, l, v, n, k)
      <4>1. \A j \in 1..l : j \in 1..n /\ j + 1 \in 1..n
        <5> HIDE DEF n
        <5> QED  BY <1>1
      <4>2. \A j \in 1..l : z[j] = IF j < k THEN w[j] ELSE w[j + 1]
        OBVIOUS
      <4>3. \A j \in 1..n : j # k => v[j] = w[j]
        BY DEF Slices
      <4>4. \A j \in 1..l : z[j] = IF j < k THEN v[j] ELSE v[j + 1]
        <5> HIDE DEF z, l, v, w
        <5> QED  BY <4>1, <4>2, <4>3
      <4>5. \A j \in 1..l : z[j] \in Int
        <5> HIDE DEF z, l
        <5> QED  BY <1>1, <4>1, <4>2 DEF Within
      <4> HIDE DEF z
      <4> QED  BY <4>2, <4>4, <4>5 DEF Within, Omits
    <3> HIDE DEF n, l, r, z, w, v
    <3>4. /\ Dot(c, v) = Dot(r, z) + c[k] * v[k]
          /\ Dot(r, z) \in Int /\ c[k] \in Int /\ v[k] \in Int
      BY <1>1, <1>2, <2>2, <3>1, <3>3, DotWithout
    <3>5. Dot(d, w) = Dot(r, z) + d[k] * w[k] /\ w[k] \in Int
      BY <1>1, <2>6, <3>1, <3>2, <3>3, DotWithout, SMTT(30)
    <3>6. v[k] = w[k] * step /\ u.offset = t.offset + first * w[k] /\ d[k] = first + c[k] * step
      BY <1>1, <2>4 DEF Slices, v, w
    <3>7. (first + c[k] * step) * w[k] = first * w[k] + c[k] * (w[k] * step)
      BY <3>4, <3>5, Distributes
    <3> DEFINE x == first * w[k]
               y == c[k] * (w[k] * step)
               D == Dot(r, z)
    <3>8. x \in Int /\ y \in Int
      BY <3>4, <3>5
    <3>9. Dot(c, v) = D + y /\ Dot(d, w) = D + (x + y) /\ u.offset = t.offset + x /\ D \in Int
      BY <3>4, <3>5, <3>6, <3>7
    <3> HIDE DEF x, y, D
    <3>10. u.offset + Dot(c, v) = t.offset + Dot(d, w)
      BY <1>1, <3>8, <3>9
    <3> QED  BY <3>10 DEF Place, v, w
  <2> QED  BY <2>2, <2>7, <2>8 DEF d
<1>5. ASSUME NEW c \in C, NEW d \in C, Moved(c, n, k, to(c)) = Moved(d, n, k, to(d))
      PROVE  c = d
  <2>1. \A j \in 1..n : /\ j = k => to(c) = to(d)
                        /\ j # k => c[j] = d[j]
    <3>1. \A j \in 1..n : Moved(c, n, k, to(c))[j] = (IF j = k THEN to(c) ELSE c[j])
                          /\ Moved(d, n, k, to(d))[j] = (IF j = k THEN to(d) ELSE d[j])
      BY DEF Moved
    <3> HIDE DEF to
    <3> QED  BY <1>5, <3>1
  <2>2. Vector(c, n, Nat) /\ Vector(d, n, Nat)
    BY <1>4
  <2>3. c[k] \in Int /\ d[k] \in Int
    <3>1. c[k] \in Nat /\ d[k] \in Nat
      BY <2>2 DEF Vector
    <3> QED  BY <3>1
  <2>4. c[k] = d[k]
    <3> DEFINE x == c[k]
               y == d[k]
    <3>1. first + x * step = first + y * step
      BY <1>1, <2>1
    <3>2. x * step \in Int /\ y * step \in Int
      BY <2>3
    <3>3. x * step = y * step
      <4> DEFINE a == x * step
                 b == y * step
      <4>1. first + a = first + b /\ a \in Int /\ b \in Int
        BY <3>1, <3>2
      <4> HIDE DEF a, b
      <4>2. a = b
        BY <4>1
      <4> QED  BY <4>2 DEF a, b
    <3>4. x \in Int /\ y \in Int
      BY <2>3
    <3> HIDE DEF x, y
    <3>5. x = y
      BY <3>3, <3>4, Cancels
    <3> QED  BY <3>5 DEF x, y
  <2>5. \A j \in 1..n : c[j] = d[j]
    BY <2>1, <2>4
  <2>6. c = [j \in 1..n |-> c[j]] /\ d = [j \in 1..n |-> d[j]]
    BY <2>2 DEF Vector
  <2> QED  BY <2>5, <2>6, Zenon
<1>6. IsView(u, t, M)
  <2>1. \A c \in C : M[c] = Moved(c, n, k, to(c))
    BY DEF Slicing
  <2>2. u.storage = t.storage
    BY DEF Slices
  <2> HIDE DEF M, n, to
  <2> QED  BY <1>4, <1>5, <2>1, <2>2 DEF IsView
<1> QED  BY <1>6

\* So slicing makes a view.
LEMMA SliceIsView ==
    ASSUME NEW t, NEW u, IsLayout(t), IsLayout(u), NEW k \in 1..Len(t.shape),
           NEW first \in Int, NEW step \in Int \ {0}, Slices(u, t, k, first, step),
           \A x \in Nat : x < u.shape[k] => first + x * step \in 0..t.shape[k] - 1
    PROVE  \E M : IsView(u, t, M)
BY SliceShows

\* The axes in another order: the i-th is the p[i]-th of t.
Permutes(u, t, p) ==
    /\ Len(u.shape) = Len(t.shape)
    /\ \A i \in 1..Len(t.shape) : u.shape[i] = t.shape[p[i]] /\ u.strides[i] = t.strides[p[i]]
    /\ u.offset = t.offset /\ u.storage = t.storage

\* An injective list of n axes lists all of them.
LEMMA EveryIndexListed ==
    ASSUME NEW n \in Nat, NEW p, Rearranges(p, n)
    PROVE  \A j \in 1..n : \E i \in 1..n : p[i] = j
<1> DEFINE T == 1..n
           f == [i \in T |-> p[i]]
<1>1. IsFiniteSet(T)
  BY FS_Interval
<1>2. f \in Injection(T, T)
  <2>1. f \in [T -> T]
    BY DEF Rearranges
  <2>2. \A i, j \in T : f[i] = f[j] => i = j
    BY DEF Rearranges
  <2> HIDE DEF f, T
  <2> QED  BY <2>1, <2>2 DEF Injection, IsInjective
<1>3. f \in Surjection(T, T)
  <2> HIDE DEF f, T
  <2> QED  BY <1>1, <1>2, FS_Injection
<1>4. \A j \in T : \E i \in T : f[i] = j
  <2> HIDE DEF f, T
  <2> QED  BY <1>3 DEF Surjection
<1> QED  BY <1>4

\* The indices back in the order of the axes of t.
Listing(n, p) == [j \in 1..n |-> CHOOSE i \in 1..n : p[i] = j]
Permuting(u, n, p) ==
    [c \in Coordinates(u.shape) |-> [j \in 1..n |-> c[Listing(n, p)[j]]]]

\* permute(): the axes in another order.
LEMMA PermutationShows ==
    ASSUME NEW t, NEW u, IsLayout(t), IsLayout(u),
           NEW n, n = Len(t.shape), NEW p, Rearranges(p, n), Permutes(u, t, p)
    PROVE  IsView(u, t, Permuting(u, n, p))
<1> DEFINE C == Coordinates(u.shape)
           q == Listing(n, p)
           to(c) == [j \in 1..n |-> c[q[j]]]
           M == Permuting(u, n, p)
           w == t.strides
           v == u.strides
<1>1. /\ n \in Nat /\ t.shape \in Seq(Nat) /\ u.shape \in Seq(Nat) /\ Len(u.shape) = n
      /\ Within(w, n, Int) /\ t.offset \in Int /\ u.offset = t.offset
  <2>1. Len(u.shape) = n /\ u.offset = t.offset
    BY DEF Permutes
  <2> QED  BY <2>1, LayoutType
<1>2. Within(v, n, Int)
  <2>1. Within(v, Len(u.shape), Int)
    BY LayoutType
  <2> QED  BY <1>1, <2>1
<1>3. \A i \in 1..n : /\ p[i] \in 1..n /\ q[i] \in 1..n /\ p[q[i]] = i
                      /\ q[p[i]] = i
                      /\ u.shape[i] = t.shape[p[i]] /\ v[i] = w[p[i]]
  <2>1. \A j \in 1..n : \E i \in 1..n : p[i] = j
    BY <1>1, EveryIndexListed
  <2>2. \A j \in 1..n : q[j] \in 1..n /\ p[q[j]] = j
    BY <2>1 DEF Listing
  <2>3. \A i \in 1..n : p[i] \in 1..n
    BY DEF Rearranges
  <2>4. \A i \in 1..n : u.shape[i] = t.shape[p[i]] /\ v[i] = w[p[i]]
    BY DEF Permutes
  <2> HIDE DEF q, w, v
  <2>5. \A i \in 1..n : q[p[i]] = i
    BY <2>2, <2>3 DEF Rearranges
  <2> QED  BY <2>2, <2>3, <2>4, <2>5
<1> HIDE DEF q
<1>4. ASSUME NEW c \in C
      PROVE  /\ to(c) \in Coordinates(t.shape)
             /\ Place(u, c) = Place(t, to(c))
             /\ c \in [1..n -> Nat]
             /\ \A i \in 1..n : c[i] = to(c)[p[i]]
  <2> DEFINE d == to(c)
  <2>1. c \in [1..n -> Nat] /\ c \in [1..n -> Int] /\ \A j \in 1..n : c[j] \in Nat /\ c[j] < u.shape[j]
    BY <1>1, CoordinatesType
  <2>2. \A j \in 1..n : d[j] = c[q[j]]
    OBVIOUS
  <2>3. d \in [1..n -> Nat]
    BY <1>3, <2>1
  <2> HIDE DEF d
  <2>4. d \in Coordinates(t.shape)
    <3>1. \A j \in 1..n : d[j] < t.shape[j]
      BY <1>3, <2>1, <2>2
    <3> QED  BY <2>3, <3>1 DEF Coordinates
  <2>5. \A i \in 1..n : c[i] = d[p[i]]
    BY <1>3, <2>2
  <2>6. d \in [1..n -> Int]
    BY <2>3
  <2>7. Dot(c, v) = Dot(d, w)
    <3> DEFINE x == [i \in 1..n |-> d[i] * w[i]]
               y == [i \in 1..n |-> c[i] * v[i]]
    <3>1. x \in Seq(Int) /\ Len(x) = n /\ Dot(d, w) = Total(x)
      <4>1. Vector(d, n, Int)
        BY <2>6 DEF Vector
      <4>2. n \in Nat /\ Within(w, n, Int)
        BY <1>1
      <4> HIDE DEF w
      <4> QED  BY <4>1, <4>2, DotIsTotal
    <3>2. y \in Seq(Int) /\ Len(y) = n /\ Dot(c, v) = Total(y)
      <4>1. Vector(c, n, Int)
        BY <2>1 DEF Vector
      <4>2. n \in Nat /\ Within(v, n, Int)
        BY <1>1, <1>2
      <4> HIDE DEF v
      <4> QED  BY <4>1, <4>2, DotIsTotal
    <3>3. \A i \in 1..n : y[i] = x[p[i]]
      <4>1. \A i \in 1..n : p[i] \in 1..n
        BY <1>3
      <4>2. \A i \in 1..n : c[i] = d[p[i]] /\ v[i] = w[p[i]]
        BY <1>3, <2>5
      <4> HIDE DEF w, v
      <4> QED  BY <4>1, <4>2
    <3> HIDE DEF x, y
    <3> QED  BY <3>1, <3>2, <3>3, TotalRearranged
  <2>8. Place(u, c) = Place(t, d)
    BY <1>1, <2>7 DEF Place
  <2> QED  BY <2>1, <2>4, <2>5, <2>8 DEF d
<1>5. ASSUME NEW c \in C, NEW d \in C, to(c) = to(d)
      PROVE  c = d
  <2> HIDE DEF to
  <2>1. \A i \in 1..n : c[i] = d[i]
    BY <1>4, <1>5
  <2>2. c \in [1..n -> Nat] /\ d \in [1..n -> Nat]
    BY <1>4
  <2>3. c = [j \in 1..n |-> c[j]] /\ d = [j \in 1..n |-> d[j]]
    BY <2>2
  <2> QED  BY <2>1, <2>3, Zenon
<1>6. IsView(u, t, M)
  <2>1. \A c \in C : M[c] = to(c)
    BY DEF Permuting, q
  <2>2. u.storage = t.storage
    BY DEF Permutes
  <2> HIDE DEF M, to
  <2> QED  BY <1>4, <1>5, <2>1, <2>2 DEF IsView
<1> QED  BY <1>6

\* So permuting makes a view.
LEMMA PermutationIsView ==
    ASSUME NEW t, NEW u, IsLayout(t), IsLayout(u),
           NEW n, n = Len(t.shape), NEW p, Rearranges(p, n), Permutes(u, t, p)
    PROVE  \E M : IsView(u, t, M)
BY PermutationShows

-----------------------------------------------------------------------------
(* The views of each function.                                               *)

\* Other metadata in the storage of t.
LaidOut(t, shape, strides, offset) ==
    [t EXCEPT !.shape = shape, !.strides = strides, !.offset = offset]

\* Another shape, other strides and another offset over the same storage are a
\* layout.
LEMMA LayoutIs ==
    ASSUME NEW t, IsLayout(t), NEW shape \in Seq(Nat), NEW strides \in Seq(Int),
           Len(strides) = Len(shape), NEW offset \in Int
    PROVE  LET u == LaidOut(t, shape, strides, offset)
           IN  /\ IsLayout(u) /\ u.shape = shape /\ u.strides = strides
               /\ u.offset = offset /\ u.storage = t.storage
<1> DEFINE u == LaidOut(t, shape, strides, offset)
<1>1. /\ u \in Layout /\ u.shape = shape /\ u.strides = strides
      /\ u.offset = offset /\ u.storage = t.storage
  BY DEF IsLayout, Layout, LaidOut
<1> HIDE DEF u
<1>2. IsLayout(u)
  BY <1>1 DEF IsLayout
<1> QED  BY <1>1, <1>2 DEF u

\* select()'s tensor is a view of its operand.
LEMMA SelectedIs ==
    ASSUME NEW t, IsLayout(t), NEW axis \in 1..Len(t.shape), NEW i \in 0..t.shape[axis] - 1
    PROVE  LET u == [t EXCEPT !.shape = RemoveAt(@, axis), !.strides = RemoveAt(@, axis),
                              !.offset = @ + i * t.strides[axis]]
           IN  IsLayout(u) /\ Selects(u, t, axis, i)
<1> DEFINE n == Len(t.shape)
           shape == RemoveAt(t.shape, axis)
           strides == RemoveAt(t.strides, axis)
           offset == t.offset + i * t.strides[axis]
           u == LaidOut(t, shape, strides, offset)
<1>1. /\ t.shape \in Seq(Nat) /\ t.strides \in Seq(Int) /\ Len(t.strides) = n /\ n \in Nat
      /\ t.offset \in Int /\ t.strides[axis] \in Int /\ t.shape[axis] \in Nat
  BY LayoutType
<1>2. shape \in Seq(Nat) /\ Omits(shape, Len(shape), t.shape, Len(t.shape), axis)
  BY <1>1, RemoveAtIs
<1>3. strides \in Seq(Int) /\ Omits(strides, Len(strides), t.strides, Len(t.strides), axis)
  BY <1>1, RemoveAtIs
<1>4. Len(strides) = Len(shape)
  BY <1>1, <1>2, <1>3 DEF Omits
<1>5. offset \in Int
  <2> DEFINE x == i * t.strides[axis]
  <2>1. i \in Int
    BY <1>1
  <2>2. x \in Int
    BY <1>1, <2>1, SMT
  <2> HIDE DEF x
  <2>3. t.offset + x \in Int
    BY <1>1, <2>2, SMT
  <2> QED  BY <2>3 DEF x
<1> HIDE DEF shape, strides, offset
<1>6. /\ IsLayout(u) /\ u.shape = shape /\ u.strides = strides
      /\ u.offset = offset /\ u.storage = t.storage
  BY <1>2, <1>3, <1>4, <1>5, LayoutIs
<1> HIDE DEF u
<1>7. Selects(u, t, axis, i)
  BY <1>2, <1>3, <1>6 DEF Selects, offset
<1>8. IsLayout(u) /\ Selects(u, t, axis, i)
  BY <1>6, <1>7
<1> QED  BY <1>8 DEF u, shape, strides, offset, LaidOut

\* So it is a view.
LEMMA SelectedView ==
    ASSUME NEW t, IsLayout(t), NEW axis \in 1..Len(t.shape), NEW i \in 0..t.shape[axis] - 1
    PROVE  \E M : IsView([t EXCEPT !.shape = RemoveAt(@, axis), !.strides = RemoveAt(@, axis),
                                   !.offset = @ + i * t.strides[axis]], t, M)
<1> DEFINE u == [t EXCEPT !.shape = RemoveAt(@, axis), !.strides = RemoveAt(@, axis),
                          !.offset = @ + i * t.strides[axis]]
<1>1. IsLayout(u) /\ Selects(u, t, axis, i)
  BY SelectedIs
<1> HIDE DEF u
<1>2. \E M : IsView(u, t, M)
  BY <1>1, SelectionIsView
<1> QED  BY <1>2 DEF u

\* The last of 1 + m div step steps is within m.
LEMMA StepsFit ==
    ASSUME NEW m \in Nat, NEW step \in Nat \ {0}
    PROVE  /\ 1 + m \div step \in Nat
           /\ \A x \in Nat : x < 1 + m \div step => x * step \in 0..m
<1> DEFINE q == m \div step
<1>1. q \in Nat /\ m % step \in 0..step - 1 /\ m = (m % step) + q * step
  BY Division
<1> HIDE DEF q
<1>2. q * step <= m /\ q * step \in Int
  <2> DEFINE p == q * step
             r == m % step
  <2>1. p \in Int
    BY <1>1
  <2>2. r \in Nat /\ m = r + p
    BY <1>1
  <2> HIDE DEF p, r
  <2>3. p <= m
    BY <2>1, <2>2
  <2> QED  BY <2>1, <2>3 DEF p
<1>3. ASSUME NEW x \in Nat, x < 1 + q
      PROVE  x * step \in 0..m
  <2>1. q - x \in Nat
    BY <1>1, <1>3
  <2>2. (q - x) * step \in Nat
    BY <2>1
  <2>3. (q - x) * step = q * step - x * step
    BY <1>1
  <2>4. x * step \in Nat
    OBVIOUS
  <2> DEFINE p == q * step
             y == x * step
             z == (q - x) * step
  <2>5. z = p - y /\ z \in Nat /\ y \in Nat /\ p \in Int /\ p <= m
    BY <1>2, <2>2, <2>3, <2>4
  <2> HIDE DEF p, y, z
  <2>6. y \in 0..m
    BY <2>5
  <2> QED  BY <2>6 DEF y
<1> QED  BY <1>1, <1>3 DEF q

\* A sequence with one element replaced.
LEMMA ExceptIs ==
    ASSUME NEW S, NEW s \in Seq(S), NEW k \in 1..Len(s), NEW e \in S
    PROVE  /\ [s EXCEPT ![k] = e] \in Seq(S)
           /\ Len([s EXCEPT ![k] = e]) = Len(s)
           /\ [s EXCEPT ![k] = e][k] = e
           /\ \A j \in 1..Len(s) : j # k => [s EXCEPT ![k] = e][j] = s[j]
<1> DEFINE r == [s EXCEPT ![k] = e]
           n == Len(s)
<1>1. s \in [1..n -> S] /\ n \in Nat
  BY LenProperties
<1>2. r \in [1..n -> S] /\ r[k] = e /\ \A j \in 1..n : j # k => r[j] = s[j]
  BY <1>1
<1> HIDE DEF r
<1>3. r \in Seq(S) /\ Len(r) = n
  <2> HIDE DEF n
  <2> QED  BY <1>1, <1>2, FunctionsAreSequences
<1> QED  BY <1>2, <1>3 DEF r

\* length steps from the first index stay within an axis of the given size.
Fits(length, first, step, size) ==
    \A x \in Nat : x < length => first + x * step \in 0..size - 1

\* What slice() and index() make of one axis.
OneSliced(t, axis, length, first, step) ==
    LaidOut(t, [t.shape EXCEPT ![axis] = length],
            [t.strides EXCEPT ![axis] = t.strides[axis] * step],
            t.offset + first * t.strides[axis])

\* It is a slice.
LEMMA OneSlicedIs ==
    ASSUME NEW t, IsLayout(t), NEW axis \in 1..Len(t.shape), NEW length \in Nat,
           NEW first \in Int, NEW step \in Int \ {0}
    PROVE  LET u == OneSliced(t, axis, length, first, step)
           IN  IsLayout(u) /\ Slices(u, t, axis, first, step) /\ u.shape[axis] = length
<1> DEFINE n == Len(t.shape)
           w == t.strides[axis] * step
           shape == [t.shape EXCEPT ![axis] = length]
           strides == [t.strides EXCEPT ![axis] = w]
           offset == t.offset + first * t.strides[axis]
           u == LaidOut(t, shape, strides, offset)
<1>1. /\ t.shape \in Seq(Nat) /\ t.strides \in Seq(Int) /\ Len(t.strides) = n /\ n \in Nat
      /\ t.offset \in Int /\ t.strides[axis] \in Int
  BY LayoutType
<1>2. w \in Int
  BY <1>1, SMT
<1>3. offset \in Int
  <2> DEFINE x == first * t.strides[axis]
  <2>1. x \in Int
    BY <1>1
  <2> HIDE DEF x
  <2>2. t.offset + x \in Int
    BY <1>1, <2>1, SMT
  <2> QED  BY <2>2 DEF x
<1>4. /\ shape \in Seq(Nat) /\ Len(shape) = n /\ shape[axis] = length
      /\ \A j \in 1..n : j # axis => shape[j] = t.shape[j]
  BY <1>1, ExceptIs
<1>5. /\ strides \in Seq(Int) /\ Len(strides) = Len(t.strides) /\ strides[axis] = w
      /\ \A j \in 1..Len(t.strides) : j # axis => strides[j] = t.strides[j]
  <2>1. axis \in 1..Len(t.strides) /\ t.strides \in Seq(Int)
    BY <1>1
  <2> HIDE DEF w
  <2> QED  BY <1>2, <2>1, ExceptIs
<1> HIDE DEF shape, strides, offset
<1>6. /\ IsLayout(u) /\ u.shape = shape /\ u.strides = strides
      /\ u.offset = offset /\ u.storage = t.storage
  <2>1. Len(strides) = Len(shape)
    BY <1>1, <1>4, <1>5
  <2>2. shape \in Seq(Nat) /\ strides \in Seq(Int)
    BY <1>4, <1>5
  <2> QED  BY <1>3, <2>1, <2>2, LayoutIs
<1> HIDE DEF u
<1>7. Slices(u, t, axis, first, step)
  BY <1>1, <1>4, <1>5, <1>6 DEF Slices, offset
<1>8. IsLayout(u) /\ Slices(u, t, axis, first, step) /\ u.shape[axis] = length
  BY <1>4, <1>6, <1>7
<1> QED  BY <1>8 DEF u, shape, strides, offset, OneSliced

\* A slice of one axis that fits is a view.
LEMMA OneSlicedIsView ==
    ASSUME NEW t, IsLayout(t), NEW axis \in 1..Len(t.shape), NEW length \in Nat,
           NEW first \in Int, NEW step \in Int \ {0},
           Fits(length, first, step, t.shape[axis])
    PROVE  \E M : IsView(OneSliced(t, axis, length, first, step), t, M)
<1> DEFINE u == OneSliced(t, axis, length, first, step)
<1>1. IsLayout(u) /\ Slices(u, t, axis, first, step) /\ u.shape[axis] = length
  BY OneSlicedIs
<1>2. \A x \in Nat : x < u.shape[axis] => first + x * step \in 0..t.shape[axis] - 1
  BY <1>1 DEF Fits
<1> HIDE DEF u
<1>3. \E M : IsView(u, t, M)
  BY <1>1, <1>2, SliceIsView
<1> QED  BY <1>3 DEF u

\* slice()'s tensor is a view of its operand, whatever its bounds.
LEMMA SlicedIsView ==
    ASSUME NEW t, IsLayout(t), NEW axis \in 1..Len(t.shape), NEW start \in Int, NEW stop \in Int,
           NEW step \in Int, step > 0
    PROVE  \E M : IsView(SlicedView(t, axis, start, stop, step), t, M)
<1> DEFINE size == t.shape[axis]
           first == Clamp(NormalizedDim(start, size), 0, size)
           end == Clamp(NormalizedDim(stop, size), 0, size)
           length == IF end <= first THEN 0 ELSE 1 + (end - first - 1) \div step
<1>1. size \in Nat /\ t.shape \in Seq(Nat) /\ t.strides \in Seq(Int) /\ t.offset \in Int
  BY LayoutType
<1>2. first \in 0..size /\ end \in 0..size
  <2> HIDE DEF size
  <2> QED  BY <1>1 DEF Clamp, NormalizedDim
<1> HIDE DEF first, end
<1>3. length \in Nat /\ \A x \in Nat : x < length => first + x * step \in 0..size - 1
  <2>1. CASE end <= first
    BY <2>1
  <2>2. CASE ~(end <= first)
    <3> DEFINE m == end - first - 1
    <3>1. m \in Nat /\ first + m \in 0..size - 1 /\ first \in Nat
      <4> HIDE DEF size
      <4> QED  BY <1>1, <1>2, <2>2
    <3>2. length = 1 + m \div step
      BY <2>2
    <3> HIDE DEF m, length, size
    <3>3. step \in Nat \ {0}
      OBVIOUS
    <3>4. length \in Nat /\ \A x \in Nat : x < length => x * step \in 0..m
      BY <3>1, <3>2, <3>3, StepsFit
    <3>5. \A y \in 0..m : first + y \in 0..size - 1
      BY <1>1, <3>1
    <3> QED  BY <3>4, <3>5
  <2> QED  BY <2>1, <2>2
<1>4. SlicedView(t, axis, start, stop, step) = OneSliced(t, axis, length, first, step)
  <2> DEFINE u == SlicedView(t, axis, start, stop, step)
  <2>1. u = [t EXCEPT !.shape[axis] = length, !.strides[axis] = @ * step,
                      !.offset = @ + first * t.strides[axis]]
    BY DEF SlicedView, first, end
  <2> HIDE DEF length
  <2>2. t \in Layout
    BY DEF IsLayout
  <2>3. OneSliced(t, axis, length, first, step) =
          [t EXCEPT !.shape[axis] = length, !.strides[axis] = @ * step,
                    !.offset = @ + first * t.strides[axis]]
    BY <2>2 DEF OneSliced, LaidOut, Layout
  <2> QED  BY <2>1, <2>3
<1>5. first \in Int /\ step \in Int \ {0}
  <2> HIDE DEF size
  <2> QED  BY <1>1, <1>2
<1>6. Fits(length, first, step, t.shape[axis])
  <2> HIDE DEF length
  <2> QED  BY <1>3 DEF Fits
<1>7. length \in Nat
  BY <1>3
<1> HIDE DEF length, size
<1>8. \E M : IsView(OneSliced(t, axis, length, first, step), t, M)
  BY <1>5, <1>6, <1>7, OneSlicedIsView
<1> QED  BY <1>4, <1>8

-----------------------------------------------------------------------------
(* The invariant.                                                            *)

Good(t, storages) == t.storage \in DOMAIN storages /\ Sound(t, Len(storages[t.storage]))

AllGood(tensors, storages) ==
    /\ tensors = [s \in Slots |-> tensors[s]]
    /\ storages \in Seq(Seq(Int))
    /\ \A s \in Slots : tensors[s] # Undefined => Good(tensors[s], storages)

IInv == AllGood(slot, memory) /\ threw \in BOOLEAN /\ calls \in 0..MaxCalls

\* The storages of a call: those there were, and possibly another one.
Extends(storages, old) ==
    /\ storages \in Seq(Seq(Int))
    /\ \A i \in DOMAIN old : i \in DOMAIN storages /\ storages[i] = old[i]

\* A call that only adds a storage leaves the other tensors sound.
LEMMA StillGood ==
    ASSUME NEW t, NEW old, NEW storages, Good(t, old), Extends(storages, old)
    PROVE  Good(t, storages)
BY DEF Good, Extends

\* What is not referred to is freed, everything else stays.
LEMMA CollectedIsGood ==
    ASSUME NEW tensors, NEW storages, AllGood(tensors, storages)
    PROVE  AllGood(tensors, Collected(tensors, storages))
<1> DEFINE n == Len(storages)
           c == Collected(tensors, storages)
           used(i) == \E s \in Slots : tensors[s] # Undefined /\ tensors[s].storage = i
<1>1. storages \in Seq(Seq(Int)) /\ DOMAIN storages = 1..n /\ n \in Nat
      /\ \A i \in 1..n : storages[i] \in Seq(Int)
  BY LenProperties, ElementOfSeq DEF AllGood
<1>2. c = [i \in 1..n |-> IF used(i) THEN storages[i] ELSE Freed]
  BY <1>1 DEF Collected
<1>3. Freed \in Seq(Int)
  BY DEF Freed
<1> HIDE DEF n, used, c
<1>4. c \in [1..n -> Seq(Int)]
  BY <1>1, <1>2, <1>3
<1>5. c \in Seq(Seq(Int))
  BY <1>1, <1>4, FunctionsAreSequences
<1>6. ASSUME NEW s \in Slots, tensors[s] # Undefined
      PROVE  Good(tensors[s], c)
  <2> DEFINE i == tensors[s].storage
  <2>1. i \in 1..n /\ Sound(tensors[s], Len(storages[i]))
    BY <1>1, <1>6 DEF AllGood, Good
  <2>2. used(i)
    BY <1>6 DEF used
  <2>3. c[i] = storages[i] /\ DOMAIN c = 1..n
    BY <1>2, <2>1, <2>2
  <2> QED  BY <2>1, <2>3 DEF Good
<1> QED  BY <1>5, <1>6 DEF AllGood, c

\* A call that returns a sound tensor preserves the invariant, and so does
\* freeing what is no longer used.
LEMMA ReturnKeeps ==
    ASSUME IInv, NEW d \in Slots, NEW t, NEW storages, Extends(storages, memory),
           t = Undefined \/ Good(t, storages), Return(d, t, storages)
    PROVE  IInv'
<1>1. /\ slot' = [slot EXCEPT ![d] = t] /\ memory' = Collected(slot', storages)
      /\ threw' = FALSE /\ calls < MaxCalls /\ calls' = calls + 1
  BY DEF Return, Counted
<1>2. AllGood(slot, memory)
  BY DEF IInv
<1>3. AllGood(slot', storages)
  <2>1. \A s \in Slots : slot'[s] = IF s = d THEN t ELSE slot[s]
    BY <1>1, <1>2 DEF AllGood
  <2>2. slot' = [s \in Slots |-> slot'[s]]
    BY <1>1, <1>2 DEF AllGood
  <2>3. ASSUME NEW s \in Slots, slot'[s] # Undefined
        PROVE  Good(slot'[s], storages)
    <3>1. CASE s = d
      BY <2>1, <2>3, <3>1
    <3>2. CASE s # d
      <4>1. slot'[s] = slot[s] /\ Good(slot[s], memory)
        BY <1>2, <2>1, <2>3, <3>2 DEF AllGood
      <4> QED  BY <4>1, StillGood
    <3> QED  BY <3>1, <3>2
  <2>4. storages \in Seq(Seq(Int))
    BY DEF Extends
  <2> QED  BY <2>2, <2>3, <2>4 DEF AllGood
<1>4. AllGood(slot', memory')
  BY <1>1, <1>3, CollectedIsGood
<1>5. calls' \in 0..MaxCalls
  <2>1. calls \in 0..MaxCalls
    BY DEF IInv
  <2>2. calls < MaxCalls /\ calls' = calls + 1
    BY <1>1
  <2> QED  BY <2>1, <2>2, MaxCallsAssumption
<1>6. threw' \in BOOLEAN
  BY <1>1
<1> QED  BY <1>4, <1>5, <1>6 DEF IInv

\* A call that throws preserves the invariant.
LEMMA ThrowKeeps ==
    ASSUME IInv, Throw
    PROVE  IInv'
<1>1. slot' = slot /\ memory' = memory /\ threw' = TRUE /\ calls < MaxCalls /\ calls' = calls + 1
  BY DEF Throw, Counted
<1>2. calls' \in 0..MaxCalls
  BY <1>1, MaxCallsAssumption DEF IInv
<1> QED  BY <1>1, <1>2 DEF IInv

\* The operand of a call.
LEMMA OperandIsGood ==
    ASSUME IInv, NEW s \in Slots, slot[s] # Undefined
    PROVE  /\ Good(slot[s], memory) /\ IsLayout(slot[s])
           /\ Extends(memory, memory) /\ memory \in Seq(Seq(Int))
BY DEF IInv, AllGood, Good, Sound, Extends

\* The constructor's checks complete what a view function does.
LEMMA ConstructKeeps ==
    ASSUME IInv, NEW d \in Slots, NEW t, Good(t, memory),
           NEW u, NEW M, IsView(u, t, M), Construct(d, u)
    PROVE  IInv'
<1>1. Extends(memory, memory)
  BY DEF IInv, AllGood, Extends
<1>2. CASE ValidLayout(u)
  <2>1. u.offset >= 0 /\ Return(d, u, memory)
    BY <1>2 DEF ValidLayout, Construct
  <2>2. Good(u, memory)
    <3>1. u.storage = t.storage
      BY DEF IsView
    <3>2. Sound(u, Len(memory[t.storage]))
      BY <2>1, ViewsAreSound DEF Good
    <3> QED  BY <3>1, <3>2 DEF Good
  <2> QED  BY <1>1, <2>1, <2>2, ReturnKeeps
<1>3. CASE ~ValidLayout(u)
  BY <1>3, ThrowKeeps DEF Construct
<1> QED  BY <1>2, <1>3

-----------------------------------------------------------------------------
(* The calls.                                                                *)

\* A valid dimension names an axis.
LEMMA AxisInRange ==
    ASSUME NEW t, IsLayout(t), NEW dim \in Int, ValidDim(dim, Rank(t))
    PROVE  AxisOf(dim, t) \in 1..Len(t.shape)
<1> DEFINE n == Len(t.shape)
<1>1. n \in Nat
  BY LayoutType
<1>2. NormalizedDim(dim, n) \in 0..n - 1
  BY DEF ValidDim, Rank
<1>3. AxisOf(dim, t) = NormalizedDim(dim, n) + 1
  BY DEF AxisOf, Rank
<1> DEFINE x == NormalizedDim(dim, n)
<1> HIDE DEF n, x
<1> QED  BY <1>1, <1>2, <1>3 DEF x, n

\* select() preserves the invariant, whatever its arguments.
LEMMA SelectKeeps ==
    ASSUME IInv, NEW s \in Slots, NEW d \in Slots, slot[s] # Undefined,
           NEW dim \in Int, NEW index \in Int, Select(s, d, dim, index)
    PROVE  IInv'
<1> DEFINE t == slot[s]
           axis == AxisOf(dim, t)
           i == NormalizedDim(index, t.shape[axis])
           u == [t EXCEPT !.shape = RemoveAt(@, axis), !.strides = RemoveAt(@, axis),
                          !.offset = @ + i * t.strides[axis]]
<1>1. Good(t, memory) /\ IsLayout(t)
  BY OperandIsGood
<1>2. CASE ValidDim(dim, Rank(t)) /\ i \in 0..t.shape[axis] - 1
  <2>1. Construct(d, u)
    BY <1>2 DEF Select
  <2>2. axis \in 1..Len(t.shape)
    BY <1>1, <1>2, AxisInRange
  <2>3. \E M : IsView(u, t, M)
    <3> HIDE DEF t, axis, i
    <3> QED  BY <1>1, <1>2, <2>2, SelectedView, Zenon
  <2> HIDE DEF u
  <2> QED  BY <1>1, <2>1, <2>3, ConstructKeeps
<1>3. CASE ~(ValidDim(dim, Rank(t)) /\ i \in 0..t.shape[axis] - 1)
  <2>1. Throw
    BY <1>3 DEF Select
  <2> QED  BY <2>1, ThrowKeeps
<1> QED  BY <1>2, <1>3

\* slice() preserves the invariant, whatever its arguments.
LEMMA SliceKeeps ==
    ASSUME IInv, NEW s \in Slots, NEW d \in Slots, slot[s] # Undefined,
           NEW dim \in Int, NEW start \in Int, NEW stop \in Int, NEW step \in Int,
           Slice(s, d, dim, start, stop, step)
    PROVE  IInv'
<1> DEFINE t == slot[s]
           u == SlicedView(t, AxisOf(dim, t), start, stop, step)
<1>1. Good(t, memory) /\ IsLayout(t)
  BY OperandIsGood
<1>2. CASE step > 0 /\ ValidDim(dim, Rank(t))
  <2>1. Construct(d, u)
    BY <1>2 DEF Slice
  <2>2. \E M : IsView(u, t, M)
    <3> HIDE DEF t
    <3>1. AxisOf(dim, t) \in 1..Len(t.shape)
      BY <1>1, <1>2, AxisInRange
    <3> QED  BY <1>1, <1>2, <3>1, SlicedIsView
  <2> HIDE DEF u
  <2> QED  BY <1>1, <2>1, <2>2, ConstructKeeps
<1>3. CASE ~(step > 0 /\ ValidDim(dim, Rank(t)))
  <2>1. Throw
    BY <1>3 DEF Slice
  <2> QED  BY <2>1, ThrowKeeps
<1> QED  BY <1>2, <1>3

\* permute()'s tensor is a view of its operand.
LEMMA PermutedPermutes ==
    ASSUME NEW t, IsLayout(t), NEW axes, Rearranges(axes, Len(t.shape))
    PROVE  IsLayout(Permuted(t, axes)) /\ Permutes(Permuted(t, axes), t, axes)
<1> DEFINE n == Len(t.shape)
           shape == [i \in 1..n |-> t.shape[axes[i]]]
           strides == [i \in 1..n |-> t.strides[axes[i]]]
           u == LaidOut(t, shape, strides, t.offset)
<1>1. /\ t.shape \in Seq(Nat) /\ t.strides \in Seq(Int) /\ n \in Nat /\ t.offset \in Int
      /\ \A i \in 1..n : t.shape[i] \in Nat /\ t.strides[i] \in Int
  BY LayoutType
<1>2. \A i \in 1..n : axes[i] \in 1..n
  BY DEF Rearranges
<1>3. shape \in Seq(Nat) /\ Len(shape) = n
  <2>1. shape \in [1..n -> Nat]
    BY <1>1, <1>2
  <2> HIDE DEF n, shape
  <2> QED  BY <1>1, <2>1, FunctionsAreSequences
<1>4. strides \in Seq(Int) /\ Len(strides) = n
  <2>1. strides \in [1..n -> Int]
    BY <1>1, <1>2
  <2> HIDE DEF n, strides
  <2> QED  BY <1>1, <2>1, FunctionsAreSequences
<1>5. \A i \in 1..n : shape[i] = t.shape[axes[i]] /\ strides[i] = t.strides[axes[i]]
  OBVIOUS
<1> HIDE DEF shape, strides
<1>6. /\ IsLayout(u) /\ u.shape = shape /\ u.strides = strides
      /\ u.offset = t.offset /\ u.storage = t.storage
  BY <1>1, <1>3, <1>4, LayoutIs
<1>7. u = Permuted(t, axes)
  <2>1. t \in Layout
    BY DEF IsLayout
  <2> QED  BY <2>1 DEF Permuted, LaidOut, Layout, Rank, shape, strides
<1> HIDE DEF u
<1>8. Permutes(u, t, axes)
  BY <1>3, <1>5, <1>6 DEF Permutes
<1> QED  BY <1>6, <1>7, <1>8

\* So it is a view.
LEMMA PermutedIsView ==
    ASSUME NEW t, IsLayout(t), NEW axes, Rearranges(axes, Len(t.shape))
    PROVE  \E M : IsView(Permuted(t, axes), t, M)
<1> DEFINE u == Permuted(t, axes)
           n == Len(t.shape)
<1>1. IsLayout(u) /\ Permutes(u, t, axes)
  BY PermutedPermutes
<1>2. n = Len(t.shape) /\ Rearranges(axes, n)
  OBVIOUS
<1> HIDE DEF u, n
<1>3. \E M : IsView(u, t, M)
  BY <1>1, <1>2, PermutationIsView
<1> QED  BY <1>3 DEF u

\* The axes that permute() is given are an order of all axes.
LEMMA AxesRearrange ==
    ASSUME NEW t, IsLayout(t), NEW dims \in Seq(Int), Len(dims) = Rank(t),
           \A i \in 1..Rank(t) : ValidDim(dims[i], Rank(t)),
           IsInjective([i \in 1..Len(dims) |-> AxisOf(dims[i], t)])
    PROVE  Rearranges([i \in 1..Len(dims) |-> AxisOf(dims[i], t)], Len(t.shape))
<1> DEFINE axes == [i \in 1..Len(dims) |-> AxisOf(dims[i], t)]
<1>1. Len(dims) = Len(t.shape)
  BY DEF Rank
<1>2. ASSUME NEW i \in 1..Len(t.shape)
      PROVE  AxisOf(dims[i], t) \in 1..Len(t.shape)
  <2>1. ValidDim(dims[i], Rank(t))
    BY DEF Rank
  <2>2. dims[i] \in Int
    BY <1>1, ElementOfSeq
  <2> QED  BY <2>1, <2>2, AxisInRange
<1>3. \A i, j \in 1..Len(dims) : axes[i] = axes[j] => i = j
  BY DEF IsInjective
<1>4. \A i \in 1..Len(dims) : axes[i] = AxisOf(dims[i], t)
  OBVIOUS
<1> HIDE DEF axes
<1>5. Rearranges(axes, Len(t.shape))
  BY <1>1, <1>2, <1>3, <1>4 DEF Rearranges
<1> QED  BY <1>5 DEF axes

\* So are all axes with two of them swapped.
LEMMA SwapRearranges ==
    ASSUME NEW n \in Nat, NEW i \in 1..n, NEW j \in 1..n
    PROVE  Rearranges([[k \in 1..n |-> k] EXCEPT ![i] = j, ![j] = i], n)
<1> DEFINE axes == [[k \in 1..n |-> k] EXCEPT ![i] = j, ![j] = i]
<1>1. \A k \in 1..n : axes[k] = IF k = j THEN i ELSE IF k = i THEN j ELSE k
  OBVIOUS
<1> HIDE DEF axes
<1>2. Rearranges(axes, n)
  BY <1>1 DEF Rearranges
<1> QED  BY <1>2 DEF axes

\* permute() preserves the invariant, whatever its arguments.
LEMMA PermuteKeeps ==
    ASSUME IInv, NEW s \in Slots, NEW d \in Slots, slot[s] # Undefined,
           NEW dims \in Seq(Int), Permute(s, d, dims)
    PROVE  IInv'
<1> DEFINE t == slot[s]
           axes == [i \in 1..Len(dims) |-> AxisOf(dims[i], t)]
           valid == /\ Len(dims) = Rank(t)
                    /\ \A i \in 1..Rank(t) : ValidDim(dims[i], Rank(t))
                    /\ IsInjective(axes)
           u == Permuted(t, axes)
<1>1. Good(t, memory) /\ IsLayout(t)
  BY OperandIsGood
<1>2. CASE valid
  <2>1. Construct(d, u)
    BY <1>2 DEF Permute
  <2>2. Rearranges(axes, Len(t.shape))
    <3> HIDE DEF t
    <3> QED  BY <1>1, <1>2, AxesRearrange
  <2>3. \E M : IsView(u, t, M)
    <3> HIDE DEF t, axes
    <3> QED  BY <1>1, <2>2, PermutedIsView
  <2> HIDE DEF u
  <2> QED  BY <1>1, <2>1, <2>3, ConstructKeeps
<1>3. CASE ~valid
  <2>1. Throw
    BY <1>3 DEF Permute
  <2> QED  BY <2>1, ThrowKeeps
<1> QED  BY <1>2, <1>3

\* transpose() preserves the invariant, whatever its arguments.
LEMMA TransposeKeeps ==
    ASSUME IInv, NEW s \in Slots, NEW d \in Slots, slot[s] # Undefined,
           NEW dim0 \in Int, NEW dim1 \in Int, Transpose(s, d, dim0, dim1)
    PROVE  IInv'
<1> DEFINE t == slot[s]
           i == AxisOf(dim0, t)
           j == AxisOf(dim1, t)
           axes == [[k \in 1..Rank(t) |-> k] EXCEPT ![i] = j, ![j] = i]
           valid == ValidDim(dim0, Rank(t)) /\ ValidDim(dim1, Rank(t))
           u == Permuted(t, axes)
<1>1. Good(t, memory) /\ IsLayout(t)
  BY OperandIsGood
<1>2. CASE valid
  <2>1. Construct(d, u)
    BY <1>2 DEF Transpose
  <2>2. i \in 1..Len(t.shape) /\ j \in 1..Len(t.shape)
    <3> HIDE DEF t
    <3> QED  BY <1>1, <1>2, AxisInRange
  <2>3. Rearranges(axes, Len(t.shape))
    <3> DEFINE n == Len(t.shape)
    <3>1. axes = [[k \in 1..n |-> k] EXCEPT ![i] = j, ![j] = i]
      BY DEF Rank
    <3>2. n \in Nat /\ i \in 1..n /\ j \in 1..n
      BY <1>1, <2>2, LayoutType
    <3> HIDE DEF axes, i, j, n
    <3>3. Rearranges(axes, n)
      BY <3>1, <3>2, SwapRearranges
    <3> QED  BY <3>3 DEF n
  <2>4. \E M : IsView(u, t, M)
    <3> HIDE DEF t, axes
    <3> QED  BY <1>1, <2>3, PermutedIsView
  <2> HIDE DEF u
  <2> QED  BY <1>1, <2>1, <2>4, ConstructKeeps
<1>3. CASE ~valid
  <2>1. Throw
    BY <1>3 DEF Transpose
  <2> QED  BY <2>1, ThrowKeeps
<1> QED  BY <1>2, <1>3

\* The minimum of two numbers.
LEMMA MinOfTwo ==
    ASSUME NEW a \in Int, NEW b \in Int
    PROVE  Min({a, b}) = (IF a <= b THEN a ELSE b) /\ Min({a, b}) \in Int
<1>1. \E x \in {a, b} : \A y \in {a, b} : x <= y
  BY a <= b \/ b <= a
<1>2. Min({a, b}) \in {a, b} /\ Min({a, b}) <= a /\ Min({a, b}) <= b
  BY <1>1 DEF Min
<1> QED  BY <1>2

\* The maximum of two numbers.
LEMMA MaxOfTwo ==
    ASSUME NEW a \in Int, NEW b \in Int
    PROVE  Max({a, b}) = IF a >= b THEN a ELSE b
<1>1. \E x \in {a, b} : \A y \in {a, b} : x >= y
  BY a <= b \/ b <= a
<1>2. Max({a, b}) \in {a, b} /\ Max({a, b}) >= a /\ Max({a, b}) >= b
  BY <1>1 DEF Max
<1> QED  BY <1>2

\* split() preserves the invariant, whatever its arguments.
LEMMA SplitKeeps ==
    ASSUME IInv, NEW s \in Slots, NEW d \in Slots, slot[s] # Undefined,
           NEW size \in Int, NEW dim \in Int, NEW k \in Nat \ {0}, Split(s, d, size, dim, k)
    PROVE  IInv'
<1> DEFINE t == slot[s]
           axis == AxisOf(dim, t)
           pieces == (t.shape[axis] + size - 1) \div size
           start(j) == (j - 1) * size
           stop(j) == start(j) + Min({size, t.shape[axis] - start(j)})
           piece(j) == SlicedView(t, axis, start(j), stop(j), 1)
           valid == /\ size > 0 /\ ValidDim(dim, Rank(t))
                    /\ \A j \in 1..pieces : ValidLayout(piece(j))
           r == IF k <= pieces THEN piece(k) ELSE slot[d]
<1>1. Good(t, memory) /\ IsLayout(t) /\ Extends(memory, memory)
  BY OperandIsGood
<1>2. CASE valid
  <2>1. Return(d, r, memory)
    BY <1>2 DEF Split
  <2>2. CASE k <= pieces
    <3> DEFINE u == piece(k)
    <3>1. axis \in 1..Len(t.shape)
      BY <1>1, <1>2, AxisInRange
    <3>2. t.shape[axis] \in Nat
      BY <1>1, <3>1, LayoutType
    <3>3. start(k) \in Int
      OBVIOUS
    <3>4. stop(k) \in Int
      <4> DEFINE a == start(k)
                 b == t.shape[axis] - a
      <4>1. a \in Int /\ b \in Int
        BY <3>2, <3>3
      <4> HIDE DEF a, b
      <4>2. a + Min({size, b}) \in Int
        BY <4>1, MinOfTwo
      <4> QED  BY <4>2 DEF a, b
    <3>5. \E M : IsView(u, t, M)
      <4> DEFINE one == 1
      <4>1. one \in Int /\ one > 0
        OBVIOUS
      <4> HIDE DEF t, axis, start, stop, one
      <4>2. \E M : IsView(SlicedView(t, axis, start(k), stop(k), one), t, M)
        BY <1>1, <3>1, <3>3, <3>4, <4>1, SlicedIsView
      <4> QED  BY <4>2 DEF one
    <3>6. ValidLayout(u)
      <4>1. pieces \in Int
        BY <1>2, <3>2
      <4>2. k \in 1..pieces
        <5> HIDE DEF pieces
        <5> QED  BY <2>2, <4>1
      <4> HIDE DEF pieces, piece
      <4> QED  BY <1>2, <4>2
    <3>7. u.offset >= 0
      <4> HIDE DEF u
      <4> QED  BY <3>6 DEF ValidLayout
    <3> HIDE DEF u
    <3>8. Good(u, memory)
      <4>1. u.storage = t.storage
        BY <3>5 DEF IsView
      <4>2. Sound(u, Len(memory[t.storage]))
        BY <1>1, <3>5, <3>7, ViewsAreSound DEF Good
      <4> QED  BY <1>1, <4>1, <4>2 DEF Good
    <3>9. r = u
      BY <2>2 DEF u
    <3> HIDE DEF r
    <3> QED  BY <1>1, <2>1, <3>8, <3>9, ReturnKeeps
  <2>3. CASE ~(k <= pieces)
    <3>1. r = slot[d] /\ (slot[d] = Undefined \/ Good(slot[d], memory))
      BY <2>3, OperandIsGood
    <3> HIDE DEF r
    <3> QED  BY <1>1, <2>1, <3>1, ReturnKeeps
  <2> QED  BY <2>2, <2>3
<1>3. CASE ~valid
  <2>1. Throw
    BY <1>3 DEF Split
  <2> QED  BY <2>1, ThrowKeeps
<1> QED  BY <1>2, <1>3

\* chunk() preserves the invariant, whatever its arguments.
LEMMA ChunkKeeps ==
    ASSUME IInv, NEW s \in Slots, NEW d \in Slots, slot[s] # Undefined,
           NEW chunks \in Int, NEW dim \in Int, NEW k \in Nat \ {0}, Chunk(s, d, chunks, dim, k)
    PROVE  IInv'
<1> DEFINE t == slot[s]
           length == t.shape[AxisOf(dim, t)]
           count == (length + chunks - 1) \div chunks
           size == Max({count, 1})
<1>1. CASE chunks > 0 /\ ValidDim(dim, Rank(t))
  <2>1. Split(s, d, size, dim, k)
    BY <1>1 DEF Chunk
  <2>2. IsLayout(t)
    BY OperandIsGood
  <2>3. length \in Nat
    <3>1. AxisOf(dim, t) \in 1..Len(t.shape)
      BY <1>1, <2>2, AxisInRange
    <3> QED  BY <2>2, <3>1, LayoutType
  <2>4. count \in Int
    <3> HIDE DEF length
    <3> QED  BY <1>1, <2>3
  <2>5. size \in Int
    <3> HIDE DEF count
    <3> QED  BY <2>4, MaxOfTwo
  <2> HIDE DEF size
  <2> QED  BY <2>1, <2>5, SplitKeeps
<1>2. CASE ~(chunks > 0 /\ ValidDim(dim, Rank(t)))
  <2>1. Throw
    BY <1>2 DEF Chunk
  <2> QED  BY <2>1, ThrowKeeps
<1> QED  BY <1>1, <1>2

\* The next elements, moved from the end to the beginning.
Passes(m, i, i1, i2) == m \in Nat /\ i1 = i + m - 1 /\ i2 = i + m

\* Copying the next m elements of s behind a leaves the joined sequence as it
\* was.
LEMMA JoinedMoves ==
    ASSUME NEW S, NEW a \in Seq(S), NEW s \in Seq(S), NEW i, Position(i, s),
           NEW m, NEW i1, NEW i2, Passes(m, i, i1, i2), Position(i2, s)
    PROVE  LET b == a \o SubSeq(s, i, i1)
           IN  b \in Seq(S) /\ Len(b) = Len(a) + m /\ Rejoined(b, s, i2) = Rejoined(a, s, i)
<1> DEFINE n == Len(s)
           l == Len(a)
           c == SubSeq(s, i, i1)
           b == a \o c
           r == Rejoined(b, s, i2)
           q == Rejoined(a, s, i)
<1>1. /\ n \in Nat /\ l \in Nat /\ i \in 1..n + 1 /\ m \in Nat /\ i + m \in 1..n + 1
      /\ i1 = i + m - 1 /\ i2 = i + m
  BY DEF Position, Passes
<1>2. c \in Seq(S) /\ Len(c) = m /\ \A j \in 1..m : c[j] = s[i + j - 1]
  <2>1. i1 - i + 1 = m
    BY <1>1
  <2>2. i \in Nat \ {0} /\ i1 \in 0..n
    <3> HIDE DEF n
    <3> QED  BY <1>1
  <2>3. /\ SubSeq(s, i, i1) \in Seq(S)
        /\ Len(SubSeq(s, i, i1)) = (IF i <= i1 THEN i1 - i + 1 ELSE 0)
        /\ \A j \in 1..i1 - i + 1 : SubSeq(s, i, i1)[j] = s[i + j - 1]
    <3>1. i \in Nat \ {0} /\ i1 \in 0..Len(s)
      BY <2>2
    <3> HIDE DEF n
    <3> QED  BY <3>1, SubSeqIs
  <2>4. IF i <= i1 THEN m = i1 - i + 1 ELSE m = 0
    BY <1>1, <2>1, <2>2
  <2>5. c \in Seq(S) /\ Len(c) = m
    BY <2>3, <2>4
  <2>6. \A j \in 1..m : c[j] = s[i + j - 1]
    BY <2>1, <2>3
  <2> QED  BY <2>5, <2>6
<1> HIDE DEF c
<1>3. /\ b \in Seq(S) /\ Len(b) = l + m
      /\ \A j \in 1..l + m : b[j] = IF j <= l THEN a[j] ELSE c[j - l]
  <2>1. /\ b \in Seq(S) /\ Len(b) = Len(a) + Len(c)
        /\ \A j \in 1..Len(a) + Len(c) : b[j] = IF j <= Len(a) THEN a[j] ELSE c[j - Len(a)]
    BY <1>2, ConcatProperties
  <2> HIDE DEF b
  <2> QED  BY <1>2, <2>1
<1> HIDE DEF b
<1>4. q \in Seq(S) /\ Ends(q, a, s, i)
  BY JoinedIs
<1>5. r \in Seq(S) /\ Ends(r, b, s, i2)
  BY <1>3, JoinedIs
<1> HIDE DEF r, q, n, l
<1>6. Len(q) = l + (n - i + 1) /\ Len(r) = Len(q) /\ n - i2 + 1 = n - i + 1 - m
  <2>1. Len(q) = l + (n - i + 1)
    BY <1>4 DEF Ends, n, l
  <2>2. Len(r) = (l + m) + (n - i2 + 1)
    BY <1>3, <1>5 DEF Ends, n
  <2> QED  BY <1>1, <2>1, <2>2
<1>7. ASSUME NEW j \in 1..Len(q)
      PROVE  r[j] = q[j]
  <2>1. CASE j <= l
    <3>1. j \in 1..l /\ j \in 1..Len(b) /\ j \in 1..l + m
      BY <1>1, <1>3, <2>1
    <3> QED  BY <1>3, <1>4, <1>5, <2>1, <3>1 DEF Ends, l
  <2>2. CASE j > l /\ j <= l + m
    <3> DEFINE x == j - l
    <3>1. x \in 1..m /\ l + x = j /\ x \in 1..n - i + 1 /\ j \in 1..Len(b)
      BY <1>1, <1>3, <1>6, <2>2
    <3>2. r[j] = c[x]
      <4>1. r[j] = b[j]
        BY <1>5, <3>1 DEF Ends
      <4>2. b[j] = c[j - l]
        BY <1>1, <1>3, <2>2
      <4> QED  BY <4>1, <4>2
    <3> HIDE DEF x
    <3>3. q[l + x] = s[i + x - 1]
      BY <1>4, <3>1 DEF Ends, n, l
    <3> QED  BY <1>2, <3>1, <3>2, <3>3
  <2>3. CASE j > l + m
    <3> DEFINE x == j - (l + m)
    <3>1. /\ x \in 1..n - i2 + 1 /\ Len(b) + x = j
          /\ m + x \in 1..n - i + 1 /\ l + (m + x) = j
      BY <1>1, <1>3, <1>6, <2>3
    <3>2. i2 + x - 1 = i + (m + x) - 1
      BY <1>1, <3>1
    <3> HIDE DEF x
    <3>3. r[Len(b) + x] = s[i2 + x - 1]
      BY <1>5, <3>1 DEF Ends, n
    <3>4. q[l + (m + x)] = s[i + (m + x) - 1]
      BY <1>4, <3>1 DEF Ends, n, l
    <3> QED  BY <3>1, <3>2, <3>3, <3>4
  <2> QED  BY <1>1, <2>1, <2>2, <2>3
<1>8. r = q
  BY <1>4, <1>5, <1>6, <1>7, SeqEqual
<1> QED  BY <1>3, <1>8 DEF b, c, r, q, l

-----------------------------------------------------------------------------
(* Basic indexing. The view read so far, completed by the axes that are left,*)
(* is a view of the operand after every component.                           *)

Reader == [shape : Seq(Nat), strides : Seq(Int), offset : Int, axis : Nat, ok : BOOLEAN]
IsReader(v, t) ==
    v \in Reader /\ Len(v.strides) = Len(v.shape) /\ v.axis \in 1..Len(t.shape) + 1

Completed(v, t) ==
    LaidOut(t, Rejoined(v.shape, t.shape, v.axis), Rejoined(v.strides, t.strides, v.axis), v.offset)
IsReading(v, t) == IsReader(v, t) /\ \E M : IsView(Completed(v, t), t, M)

\* The types of the parts of a view being read.
LEMMA ReaderType ==
    ASSUME NEW t, IsLayout(t), NEW v, IsReader(v, t)
    PROVE  /\ v.shape \in Seq(Nat) /\ v.strides \in Seq(Int) /\ v.offset \in Int /\ v.axis \in Nat
           /\ Len(v.strides) = Len(v.shape) /\ Len(v.shape) \in Nat
           /\ Position(v.axis, t.shape) /\ Position(v.axis, t.strides)
<1>1. /\ v.shape \in Seq(Nat) /\ v.strides \in Seq(Int) /\ v.offset \in Int /\ v.axis \in Nat
      /\ Len(v.strides) = Len(v.shape) /\ v.axis \in 1..Len(t.shape) + 1
  BY DEF IsReader, Reader
<1>2. Len(t.strides) = Len(t.shape) /\ Len(v.shape) \in Nat
  BY <1>1, LayoutType
<1> QED  BY <1>1, <1>2 DEF Position

\* The parts of the completed view.
LEMMA CompletedIs ==
    ASSUME NEW t, IsLayout(t), NEW v, IsReader(v, t)
    PROVE  /\ IsLayout(Completed(v, t))
           /\ Completed(v, t).shape = Rejoined(v.shape, t.shape, v.axis)
           /\ Completed(v, t).strides = Rejoined(v.strides, t.strides, v.axis)
           /\ Completed(v, t).offset = v.offset /\ Completed(v, t).storage = t.storage
<1> DEFINE shape == Rejoined(v.shape, t.shape, v.axis)
           strides == Rejoined(v.strides, t.strides, v.axis)
<1>1. t.shape \in Seq(Nat) /\ t.strides \in Seq(Int) /\ Len(t.strides) = Len(t.shape)
  BY LayoutType
<1>2. /\ v.shape \in Seq(Nat) /\ v.strides \in Seq(Int) /\ v.offset \in Int
      /\ Len(v.strides) = Len(v.shape)
      /\ Position(v.axis, t.shape) /\ Position(v.axis, t.strides)
  BY ReaderType
<1>3. shape \in Seq(Nat) /\ Ends(shape, v.shape, t.shape, v.axis)
  BY <1>1, <1>2, JoinedIs
<1>4. strides \in Seq(Int) /\ Ends(strides, v.strides, t.strides, v.axis)
  BY <1>1, <1>2, JoinedIs
<1> HIDE DEF shape, strides
<1>5. Len(strides) = Len(shape)
  BY <1>1, <1>2, <1>3, <1>4 DEF Ends
<1>6. LET u == LaidOut(t, shape, strides, v.offset)
      IN  /\ IsLayout(u) /\ u.shape = shape /\ u.strides = strides
          /\ u.offset = v.offset /\ u.storage = t.storage
  BY <1>2, <1>3, <1>4, <1>5, LayoutIs
<1> QED  BY <1>6 DEF Completed, shape, strides

\* One more component: the completed view becomes a view of what it was.
LEMMA ReadsOn ==
    ASSUME NEW t, NEW v, NEW w, IsReading(v, t), IsReader(w, t),
           \E M : IsView(Completed(w, t), Completed(v, t), M)
    PROVE  IsReading(w, t)
<1>1. PICK M : IsView(Completed(v, t), t, M)
  BY DEF IsReading
<1>2. PICK N : IsView(Completed(w, t), Completed(v, t), N)
  OBVIOUS
<1>3. \E L : IsView(Completed(w, t), t, L)
  BY <1>1, <1>2, ViewsCompose
<1> QED  BY <1>3 DEF IsReading

\* index(): an integer selects an element of the next axis.
LEMMA IntegerSelects ==
    ASSUME NEW t, IsLayout(t), NEW v, IsReading(v, t), v.axis \in 1..Len(t.shape), v.ok = TRUE,
           NEW at \in Int, AtInteger(v, t, at).ok = TRUE
    PROVE  LET w == AtInteger(v, t, at)
               u == Completed(v, t)
               x == Completed(w, t)
               i == NormalizedDim(at, t.shape[v.axis])
               k == Len(v.shape) + 1
           IN  /\ IsReader(w, t) /\ IsNext(w.axis, v.axis) /\ Len(w.shape) + 1 = k
               /\ IsLayout(u) /\ IsLayout(x)
               /\ k \in 1..Len(u.shape) /\ u.shape[k] = t.shape[v.axis]
               /\ i \in 0..u.shape[k] - 1 /\ Selects(x, u, k, i)
<1> DEFINE axis == v.axis
           i == NormalizedDim(at, t.shape[axis])
           offset == v.offset + i * t.strides[axis]
           next == axis + 1
           w == AtInteger(v, t, at)
           u == Completed(v, t)
           x == Completed(w, t)
           k == Len(v.shape) + 1
<1>1. /\ t.shape \in Seq(Nat) /\ t.strides \in Seq(Int) /\ Len(t.strides) = Len(t.shape)
      /\ Len(t.shape) \in Nat /\ t.shape[axis] \in Nat /\ t.strides[axis] \in Int
  BY LayoutType
<1>2. /\ IsReader(v, t) /\ v \in Reader
      /\ v.shape \in Seq(Nat) /\ v.strides \in Seq(Int) /\ v.offset \in Int
      /\ Len(v.strides) = Len(v.shape) /\ Len(v.shape) \in Nat
  BY ReaderType DEF IsReading, IsReader
<1>3. i \in Int
  BY <1>1, SMT DEF NormalizedDim
<1>4. offset \in Int
  <2> DEFINE y == i * t.strides[axis]
  <2> HIDE DEF i
  <2>1. y \in Int
    BY <1>1, <1>3, SMT
  <2> HIDE DEF y
  <2>2. v.offset + y \in Int
    BY <1>2, <2>1
  <2> QED  BY <2>2 DEF y
<1>5. /\ w.shape = v.shape /\ w.strides = v.strides /\ w.offset = offset /\ w.axis = next
      /\ w.ok = (i \in 0..t.shape[axis] - 1)
      /\ w = [v EXCEPT !.ok = w.ok, !.offset = offset, !.axis = next]
  BY <1>2 DEF AtInteger, Reader
<1>6. next \in 1..Len(t.shape) + 1 /\ next \in Nat
  <2> DEFINE n == Len(t.shape)
  <2>1. n \in Nat /\ axis \in 1..n
    BY <1>1
  <2> HIDE DEF n
  <2>2. next \in 1..n + 1 /\ next \in Nat
    BY <2>1
  <2> QED  BY <2>2 DEF n
<1>7. i \in 0..t.shape[axis] - 1
  BY <1>5
<1> HIDE DEF i, offset, next, w
<1>8. IsReader(w, t)
  <2>1. w.ok \in BOOLEAN
    BY <1>5
  <2>2. w \in Reader
    BY <1>2, <1>4, <1>5, <1>6, <2>1 DEF Reader
  <2> QED  BY <1>2, <1>5, <1>6, <2>2 DEF IsReader
<1>9. /\ IsLayout(u) /\ u.shape = Rejoined(v.shape, t.shape, axis)
      /\ u.strides = Rejoined(v.strides, t.strides, axis)
      /\ u.offset = v.offset /\ u.storage = t.storage
  BY <1>2, CompletedIs
<1>10. /\ IsLayout(x) /\ x.shape = Rejoined(v.shape, t.shape, next)
       /\ x.strides = Rejoined(v.strides, t.strides, next)
       /\ x.offset = offset /\ x.storage = t.storage
  <2> HIDE DEF axis
  <2>1. /\ IsLayout(x) /\ x.shape = Rejoined(w.shape, t.shape, w.axis)
        /\ x.strides = Rejoined(w.strides, t.strides, w.axis)
        /\ x.offset = w.offset /\ x.storage = t.storage
    BY <1>8, CompletedIs
  <2> QED  BY <1>5, <2>1
<1> HIDE DEF u, x
<1>11. IsNext(next, axis) /\ Behind(k, v.shape) /\ Behind(k, v.strides)
  <2>1. IsNext(next, axis) /\ Behind(k, v.shape)
    BY DEF IsNext, Behind, next
  <2> QED  BY <1>2, <2>1 DEF Behind
<1> HIDE DEF k
<1>12. /\ k \in 1..Len(u.shape) /\ u.shape[k] = t.shape[axis]
       /\ Omits(x.shape, Len(x.shape), u.shape, Len(u.shape), k)
  <2> DEFINE r == Rejoined(v.shape, t.shape, axis)
             q == Rejoined(v.shape, t.shape, next)
  <2>1. k \in 1..Len(r) /\ r[k] = t.shape[axis] /\ Omits(q, Len(q), r, Len(r), k)
    BY <1>1, <1>2, <1>11, JoinedOmits
  <2> QED  BY <1>9, <1>10, <2>1
<1>13. /\ u.strides[k] = t.strides[axis]
       /\ Omits(x.strides, Len(x.strides), u.strides, Len(u.strides), k)
  <2>1. axis \in 1..Len(t.strides)
    BY <1>1
  <2> DEFINE r == Rejoined(v.strides, t.strides, axis)
             q == Rejoined(v.strides, t.strides, next)
  <2>2. k \in 1..Len(r) /\ r[k] = t.strides[axis] /\ Omits(q, Len(q), r, Len(r), k)
    BY <1>1, <1>2, <1>11, <2>1, JoinedOmits
  <2> QED  BY <1>9, <1>10, <2>2
<1>14. Selects(x, u, k, i) /\ i \in 0..u.shape[k] - 1
  <2>1. Selects(x, u, k, i)
    BY <1>9, <1>10, <1>12, <1>13 DEF Selects, offset
  <2> QED  BY <1>7, <1>12, <2>1
<1>15. Len(w.shape) + 1 = k
  BY <1>5 DEF k
<1> QED  BY <1>5, <1>8, <1>9, <1>10, <1>12, <1>14, <1>15 DEF w, u, x, i, k, next, IsNext

\* What has been read stays a view.
LEMMA IntegerReads ==
    ASSUME NEW t, IsLayout(t), NEW v, IsReading(v, t), v.axis \in 1..Len(t.shape), v.ok = TRUE,
           NEW at \in Int, AtInteger(v, t, at).ok = TRUE
    PROVE  /\ IsReading(AtInteger(v, t, at), t)
           /\ IsNext(AtInteger(v, t, at).axis, v.axis)
<1> DEFINE w == AtInteger(v, t, at)
           u == Completed(v, t)
           x == Completed(w, t)
           i == NormalizedDim(at, t.shape[v.axis])
           k == Len(v.shape) + 1
<1>1. /\ IsReader(w, t) /\ IsNext(w.axis, v.axis) /\ IsLayout(u) /\ IsLayout(x)
      /\ k \in 1..Len(u.shape) /\ i \in 0..u.shape[k] - 1 /\ Selects(x, u, k, i)
  BY IntegerSelects
<1> HIDE DEF w, u, x, i, k
<1>2. \E M : IsView(x, u, M)
  BY <1>1, SelectionIsView
<1> QED  BY <1>1, <1>2, ReadsOn DEF w, u, x

\* A clamped bound lies between its limits.
LEMMA ClampIs ==
    ASSUME NEW x \in Int, NEW low \in Int, NEW high \in Int, low <= high
    PROVE  Clamp(x, low, high) \in low..high
BY DEF Clamp

\* Products with a negated factor.
LEMMA Opposite ==
    ASSUME NEW x \in Int, NEW y \in Int
    PROVE  x * y = -(x * (-y)) /\ x * y \in Int
OBVIOUS

\* A normalized slice takes elements of its axis only, in either direction.
LEMMA NormalizedSliceFits ==
    ASSUME NEW slice, slice.start \in Int \cup {Omitted}, slice.stop \in Int \cup {Omitted},
           slice.step \in Int \ {0}, NEW size \in Nat
    PROVE  LET n == NormalizedSlice(slice, size)
           IN  n.length \in Nat /\ n.start \in Int /\ Fits(n.length, n.start, slice.step, size)
<1> DEFINE step == slice.step
           given(bound, default) == IF bound = Omitted THEN default ELSE NormalizedDim(bound, size)
           low == IF step > 0 THEN 0 ELSE -1
           high == IF step > 0 THEN size ELSE size - 1
           start == Clamp(given(slice.start, IF step > 0 THEN 0 ELSE size - 1), low, high)
           stop == Clamp(given(slice.stop, IF step > 0 THEN size ELSE -1), low, high)
           length == IF step > 0
                     THEN IF stop <= start THEN 0 ELSE 1 + (stop - start - 1) \div step
                     ELSE IF start <= stop THEN 0 ELSE 1 + (start - stop - 1) \div (-step)
<1>1. low \in Int /\ high \in Int /\ low <= high
  OBVIOUS
<1>2. start \in low..high
  <2> DEFINE x == given(slice.start, IF step > 0 THEN 0 ELSE size - 1)
  <2>1. x \in Int
    BY DEF NormalizedDim
  <2> HIDE DEF x, low, high
  <2>2. Clamp(x, low, high) \in low..high
    BY <1>1, <2>1, ClampIs
  <2> QED  BY <2>2 DEF x
<1>3. stop \in low..high
  <2> DEFINE x == given(slice.stop, IF step > 0 THEN size ELSE -1)
  <2>1. x \in Int
    BY DEF NormalizedDim
  <2> HIDE DEF x, low, high
  <2>2. Clamp(x, low, high) \in low..high
    BY <1>1, <2>1, ClampIs
  <2> QED  BY <2>2 DEF x
<1>4. NormalizedSlice(slice, size) = [start |-> start, length |-> length]
  BY DEF NormalizedSlice
<1> HIDE DEF start, stop
<1>5. length \in Nat /\ Fits(length, start, step, size)
  <2>1. CASE step > 0 /\ stop <= start
    BY <2>1 DEF Fits
  <2>2. CASE step > 0 /\ ~(stop <= start)
    <3> DEFINE m == stop - start - 1
    <3>1. m \in Nat /\ start + m \in 0..size - 1 /\ start \in Nat
      BY <1>2, <1>3, <2>2
    <3>2. length = 1 + m \div step /\ step \in Nat \ {0}
      BY <2>2
    <3> HIDE DEF m, length, step
    <3>3. length \in Nat /\ \A x \in Nat : x < length => x * step \in 0..m
      BY <3>1, <3>2, StepsFit
    <3>4. \A y \in 0..m : start + y \in 0..size - 1
      BY <3>1
    <3> QED  BY <3>3, <3>4 DEF Fits
  <2>3. CASE ~(step > 0) /\ start <= stop
    BY <2>3 DEF Fits
  <2>4. CASE ~(step > 0) /\ ~(start <= stop)
    <3> DEFINE m == start - stop - 1
               back == -step
    <3>1. m \in Nat /\ start - m \in 0..size - 1 /\ start \in 0..size - 1
      BY <1>2, <1>3, <2>4
    <3>2. length = 1 + m \div back /\ back \in Nat \ {0} /\ step \in Int
      BY <2>4
    <3>3. ASSUME NEW x \in Nat
          PROVE  x * step = -(x * back)
      BY <3>2, Opposite
    <3> HIDE DEF m, length, step, back
    <3>4. length \in Nat /\ \A x \in Nat : x < length => x * back \in 0..m
      BY <3>1, <3>2, StepsFit
    <3>5. \A y \in 0..m : start + (-y) \in 0..size - 1
      BY <3>1
    <3>6. ASSUME NEW x \in Nat, x < length
          PROVE  start + x * step \in 0..size - 1
      <4> DEFINE y == x * back
      <4>1. y \in 0..m /\ x * step = -y
        BY <3>3, <3>4, <3>6
      <4> HIDE DEF y
      <4> QED  BY <3>5, <4>1
    <3> QED  BY <3>4, <3>6 DEF Fits
  <2> QED  BY <2>1, <2>2, <2>3, <2>4
<1>6. start \in Int
  BY <1>1, <1>2
<1> HIDE DEF length
<1> QED  BY <1>4, <1>5, <1>6

\* index(): a slice takes elements of the next axis, in either direction.
LEMMA SliceSlices ==
    ASSUME NEW t, IsLayout(t), NEW v, IsReading(v, t), v.axis \in 1..Len(t.shape), v.ok = TRUE,
           NEW slice, slice.start \in Int \cup {Omitted}, slice.stop \in Int \cup {Omitted},
           slice.step \in Int, AtSlice(v, t, slice).ok = TRUE
    PROVE  LET w == AtSlice(v, t, slice)
               u == Completed(v, t)
               x == Completed(w, t)
               n == NormalizedSlice(slice, t.shape[v.axis])
               k == Len(v.shape) + 1
           IN  /\ IsReader(w, t) /\ IsNext(w.axis, v.axis) /\ Len(w.shape) = k
               /\ IsLayout(u) /\ IsLayout(x) /\ x.storage = u.storage
               /\ k \in 1..Len(u.shape) /\ u.shape[k] = t.shape[v.axis] /\ x.shape[k] = n.length
               /\ Replaces(x.shape, u.shape, k) /\ Replaces(x.strides, u.strides, k)
               /\ n.length # 0 => Slices(x, u, k, n.start, slice.step)
               /\ n.length = 0 => x.offset = u.offset
               /\ slice.step \in Int \ {0}
<1> DEFINE axis == v.axis
           step == slice.step
           n == NormalizedSlice(slice, t.shape[axis])
           length == n.length
           start == n.start
           stride == t.strides[axis] * step
           offset == IF length # 0 THEN v.offset + start * t.strides[axis] ELSE v.offset
           next == axis + 1
           shape == Append(v.shape, length)
           strides == Append(v.strides, stride)
           w == AtSlice(v, t, slice)
           u == Completed(v, t)
           x == Completed(w, t)
           k == Len(v.shape) + 1
<1>1. /\ t.shape \in Seq(Nat) /\ t.strides \in Seq(Int) /\ Len(t.strides) = Len(t.shape)
      /\ Len(t.shape) \in Nat /\ t.shape[axis] \in Nat /\ t.strides[axis] \in Int
  BY LayoutType
<1>2. /\ IsReader(v, t) /\ v \in Reader
      /\ v.shape \in Seq(Nat) /\ v.strides \in Seq(Int) /\ v.offset \in Int
      /\ Len(v.strides) = Len(v.shape) /\ Len(v.shape) \in Nat
  BY ReaderType DEF IsReading, IsReader
<1>3. step # 0
  <2> SUFFICES ASSUME step = 0
               PROVE  FALSE
    OBVIOUS
  <2>1. w = [v EXCEPT !.ok = FALSE]
    BY DEF AtSlice
  <2>2. w.ok = FALSE
    BY <1>2, <2>1 DEF Reader
  <2> QED  BY <2>2
<1>4. length \in Nat /\ start \in Int /\ Fits(length, start, step, t.shape[axis])
  <2> HIDE DEF axis
  <2> QED  BY <1>1, <1>3, NormalizedSliceFits
<1>5. /\ w.shape = shape /\ w.strides = strides /\ w.offset = offset /\ w.axis = next
      /\ w.ok = v.ok
      /\ w = [v EXCEPT !.shape = shape, !.strides = strides, !.offset = offset, !.axis = next]
  <2> HIDE DEF n
  <2>1. w = [v EXCEPT !.shape = shape, !.strides = strides, !.offset = offset, !.axis = next]
    BY <1>2, <1>3 DEF AtSlice, Keep, Reader, n
  <2> HIDE DEF w, shape, strides, offset, next
  <2> QED  BY <1>2, <2>1 DEF Reader
<1>6. next \in 1..Len(t.shape) + 1 /\ next \in Nat
  <2> DEFINE l == Len(t.shape)
  <2>1. l \in Nat /\ axis \in 1..l
    BY <1>1
  <2> HIDE DEF l
  <2>2. next \in 1..l + 1 /\ next \in Nat
    BY <2>1
  <2> QED  BY <2>2 DEF l
<1>7. offset \in Int /\ stride \in Int
  <2> DEFINE unit == t.strides[axis]
             y == start * unit
  <2> HIDE DEF start, length
  <2>1. unit \in Int /\ start \in Int /\ slice.step \in Int
    BY <1>1, <1>4
  <2>2. y \in Int
    <3> HIDE DEF unit
    <3> QED  BY <2>1
  <2>3. stride \in Int
    <3>1. unit * slice.step \in Int
      <4> HIDE DEF unit
      <4> QED  BY <2>1
    <3> QED  BY <3>1
  <2>4. y \in Int /\ stride \in Int
    BY <2>2, <2>3
  <2> HIDE DEF y
  <2>5. v.offset + y \in Int
    BY <1>2, <2>4
  <2> QED  BY <1>2, <2>4, <2>5 DEF y
<1> HIDE DEF n, length, start, stride, offset, next, w
<1>8. IsReader(w, t)
  <2>1. shape \in Seq(Nat) /\ strides \in Seq(Int) /\ Len(shape) = k /\ Len(strides) = k
    BY <1>2, <1>4, <1>7, AppendProperties
  <2> HIDE DEF shape, strides
  <2>2. w \in Reader
    BY <1>2, <1>5, <1>6, <1>7, <2>1 DEF Reader
  <2> QED  BY <1>5, <1>6, <2>1, <2>2 DEF IsReader
<1>9. /\ IsLayout(u) /\ u.shape = Rejoined(v.shape, t.shape, axis)
      /\ u.strides = Rejoined(v.strides, t.strides, axis)
      /\ u.offset = v.offset /\ u.storage = t.storage
  BY <1>2, CompletedIs
<1>10. /\ IsLayout(x) /\ x.shape = Rejoined(shape, t.shape, next)
       /\ x.strides = Rejoined(strides, t.strides, next)
       /\ x.offset = offset /\ x.storage = t.storage
  <2> HIDE DEF axis
  <2>1. /\ IsLayout(x) /\ x.shape = Rejoined(w.shape, t.shape, w.axis)
        /\ x.strides = Rejoined(w.strides, t.strides, w.axis)
        /\ x.offset = w.offset /\ x.storage = t.storage
    BY <1>8, CompletedIs
  <2> QED  BY <1>5, <2>1
<1> HIDE DEF u, x
<1>11. IsNext(next, axis) /\ Behind(k, v.shape) /\ Behind(k, v.strides)
  <2>1. IsNext(next, axis) /\ Behind(k, v.shape)
    BY DEF IsNext, Behind, next
  <2> QED  BY <1>2, <2>1 DEF Behind
<1> HIDE DEF k
<1>12. /\ k \in 1..Len(u.shape) /\ x.shape[k] = length /\ u.shape[k] = t.shape[axis]
       /\ Len(x.shape) = Len(u.shape)
       /\ \A j \in 1..Len(u.shape) : j # k => x.shape[j] = u.shape[j]
  <2> DEFINE r == Rejoined(shape, t.shape, next)
             q == Rejoined(v.shape, t.shape, axis)
  <2>1. k \in 1..Len(q) /\ r[k] = length /\ q[k] = t.shape[axis] /\ Replaces(r, q, k)
    <3>1. v.shape \in Seq(Nat) /\ t.shape \in Seq(Nat) /\ axis \in 1..Len(t.shape) /\ length \in Nat
      BY <1>1, <1>2, <1>4
    <3>2. IsNext(next, axis) /\ Behind(k, v.shape)
      BY <1>11
    <3> HIDE DEF axis
    <3> QED  BY <3>1, <3>2, JoinedReplaces DEF shape
  <2>2. r = x.shape /\ q = u.shape
    BY <1>9, <1>10
  <2> HIDE DEF r, q
  <2> QED  BY <2>1, <2>2 DEF Replaces
<1>13. /\ x.strides[k] = stride /\ u.strides[k] = t.strides[axis]
       /\ Len(x.strides) = Len(u.strides)
       /\ \A j \in 1..Len(u.strides) : j # k => x.strides[j] = u.strides[j]
  <2> DEFINE r == Rejoined(strides, t.strides, next)
             q == Rejoined(v.strides, t.strides, axis)
             a == v.strides
             b == t.strides
  <2>1. a \in Seq(Int) /\ b \in Seq(Int) /\ axis \in 1..Len(b)
    BY <1>1, <1>2
  <2>2. stride \in Int
    BY <1>7
  <2>3. IsNext(next, axis) /\ Behind(k, a)
    BY <1>11
  <2>4. r[k] = stride /\ q[k] = b[axis] /\ Replaces(r, q, k)
    <3> HIDE DEF a, b, axis
    <3>1. LET p == Rejoined(Append(a, stride), b, next)
          IN  k \in 1..Len(Rejoined(a, b, axis)) /\ p[k] = stride /\ Rejoined(a, b, axis)[k] = b[axis]
              /\ Replaces(p, Rejoined(a, b, axis), k)
      BY <2>1, <2>2, <2>3, JoinedReplaces
    <3> QED  BY <3>1 DEF a, b
  <2> QED  BY <1>9, <1>10, <2>4 DEF Replaces
<1>14. ASSUME length # 0
       PROVE  Slices(x, u, k, start, step)
  <2>1. \A j \in 1..Len(u.shape) : j # k => x.shape[j] = u.shape[j] /\ x.strides[j] = u.strides[j]
    <3>1. Len(u.strides) = Len(u.shape)
      BY <1>9, LayoutType
    <3> QED  BY <1>12, <1>13, <3>1
  <2> QED  BY <1>9, <1>10, <1>12, <1>13, <1>14, <2>1 DEF Slices, offset, stride
<1>15. ASSUME length = 0
       PROVE  x.offset = u.offset
  BY <1>9, <1>10, <1>15 DEF offset
<1>16. Len(w.shape) = k
  <2>1. Len(shape) = Len(v.shape) + 1
    BY <1>2, <1>4, AppendProperties
  <2> QED  BY <1>5, <2>1 DEF k
<1>17. Replaces(x.shape, u.shape, k) /\ Replaces(x.strides, u.strides, k)
  BY <1>12, <1>13 DEF Replaces
<1>18. IsNext(w.axis, axis)
  BY <1>5, <1>11
<1> QED  BY <1>3, <1>8, <1>9, <1>10, <1>12, <1>14, <1>15, <1>16, <1>17, <1>18
         DEF w, u, x, k, n, length, start

\* What has been read stays a view.
LEMMA SliceReads ==
    ASSUME NEW t, IsLayout(t), NEW v, IsReading(v, t), v.axis \in 1..Len(t.shape), v.ok = TRUE,
           NEW slice, slice.start \in Int \cup {Omitted}, slice.stop \in Int \cup {Omitted},
           slice.step \in Int, AtSlice(v, t, slice).ok = TRUE
    PROVE  /\ IsReading(AtSlice(v, t, slice), t)
           /\ IsNext(AtSlice(v, t, slice).axis, v.axis)
<1> DEFINE w == AtSlice(v, t, slice)
           u == Completed(v, t)
           x == Completed(w, t)
           size == t.shape[v.axis]
           n == NormalizedSlice(slice, size)
           length == n.length
           start == n.start
           step == slice.step
           k == Len(v.shape) + 1
<1>1. /\ IsReader(w, t) /\ IsNext(w.axis, v.axis)
      /\ IsLayout(u) /\ IsLayout(x) /\ x.storage = u.storage
      /\ k \in 1..Len(u.shape) /\ u.shape[k] = size /\ x.shape[k] = length
      /\ Replaces(x.shape, u.shape, k) /\ (length # 0 => Slices(x, u, k, start, step))
      /\ step \in Int \ {0}
  BY SliceSlices
<1>2. length \in Nat /\ start \in Int /\ Fits(length, start, step, size)
  <2>1. size \in Nat
    BY LayoutType
  <2> HIDE DEF size
  <2> QED  BY <1>1, <2>1, NormalizedSliceFits
<1> HIDE DEF w, u, x, k, n, length, start, step, size
<1>3. \E M : IsView(x, u, M)
  <2>1. CASE length = 0
    <3>1. k \in 1..Len(x.shape) /\ x.shape[k] = 0
      BY <1>1, <2>1 DEF Replaces
    <3> QED  BY <1>1, <3>1, EmptyViews
  <2>2. CASE length # 0
    <3>1. \A y \in Nat : y < x.shape[k] => start + y * step \in 0..u.shape[k] - 1
      BY <1>1, <1>2 DEF Fits
    <3> QED  BY <1>1, <1>2, <2>2, <3>1, SliceIsView
  <2> QED  BY <2>1, <2>2
<1> QED  BY <1>1, <1>3, ReadsOn DEF w, u, x

\* index(): none inserts an axis of one element.
LEMMA NewAxisInserts ==
    ASSUME NEW t, IsLayout(t), NEW v, IsReading(v, t)
    PROVE  LET w == Keep(v, 1, 0)
               u == Completed(v, t)
               x == Completed(w, t)
               k == Len(v.shape) + 1
           IN  /\ IsReader(w, t) /\ w.axis = v.axis /\ w.ok = v.ok /\ Len(w.shape) = k
               /\ IsLayout(u) /\ IsLayout(x) /\ k \in 1..Len(x.shape) /\ Inserts(x, u, k)
<1> DEFINE axis == v.axis
           shape == Append(v.shape, 1)
           strides == Append(v.strides, 0)
           w == Keep(v, 1, 0)
           u == Completed(v, t)
           x == Completed(w, t)
           k == Len(v.shape) + 1
<1>1. t.shape \in Seq(Nat) /\ t.strides \in Seq(Int) /\ Len(t.strides) = Len(t.shape)
  BY LayoutType
<1>2. /\ IsReader(v, t) /\ v \in Reader /\ axis \in 1..Len(t.shape) + 1
      /\ v.shape \in Seq(Nat) /\ v.strides \in Seq(Int) /\ v.offset \in Int
      /\ Len(v.strides) = Len(v.shape) /\ Len(v.shape) \in Nat
  BY ReaderType DEF IsReading, IsReader
<1>3. /\ w.shape = shape /\ w.strides = strides /\ w.offset = v.offset /\ w.axis = axis
      /\ w.ok = v.ok
      /\ w = [v EXCEPT !.shape = shape, !.strides = strides]
  <2>1. w = [v EXCEPT !.shape = shape, !.strides = strides]
    BY <1>2 DEF Keep, Reader
  <2> HIDE DEF w, shape, strides
  <2> QED  BY <1>2, <2>1 DEF Reader
<1> HIDE DEF w
<1>4. IsReader(w, t)
  <2>1. shape \in Seq(Nat) /\ strides \in Seq(Int) /\ Len(shape) = k /\ Len(strides) = k
    BY <1>2, AppendProperties
  <2> HIDE DEF shape, strides
  <2>2. w \in Reader
    BY <1>2, <1>3, <2>1 DEF Reader
  <2> QED  BY <1>2, <1>3, <2>1, <2>2 DEF IsReader
<1>5. /\ IsLayout(u) /\ u.shape = Rejoined(v.shape, t.shape, axis)
      /\ u.strides = Rejoined(v.strides, t.strides, axis)
      /\ u.offset = v.offset /\ u.storage = t.storage
  BY <1>2, CompletedIs
<1>6. /\ IsLayout(x) /\ x.shape = Rejoined(shape, t.shape, axis)
      /\ x.strides = Rejoined(strides, t.strides, axis)
      /\ x.offset = v.offset /\ x.storage = t.storage
  <2> HIDE DEF axis
  <2>1. /\ IsLayout(x) /\ x.shape = Rejoined(w.shape, t.shape, w.axis)
        /\ x.strides = Rejoined(w.strides, t.strides, w.axis)
        /\ x.offset = w.offset /\ x.storage = t.storage
    BY <1>4, CompletedIs
  <2> QED  BY <1>3, <2>1
<1> HIDE DEF u, x
<1>7. Behind(k, v.shape) /\ Behind(k, v.strides)
  BY <1>2 DEF Behind
<1> HIDE DEF k
<1>8. /\ k \in 1..Len(x.shape) /\ x.shape[k] = 1
      /\ Omits(u.shape, Len(u.shape), x.shape, Len(x.shape), k)
  <2> DEFINE r == Rejoined(shape, t.shape, axis)
             q == Rejoined(v.shape, t.shape, axis)
             one == 1
  <2>1. one \in Nat
    OBVIOUS
  <2> HIDE DEF one
  <2>2. LET p == Rejoined(Append(v.shape, one), t.shape, axis)
        IN  k \in 1..Len(p) /\ p[k] = one /\ Omits(q, Len(q), p, Len(p), k)
    BY <1>1, <1>2, <1>7, <2>1, JoinedInserts
  <2>3. k \in 1..Len(r) /\ r[k] = 1 /\ Omits(q, Len(q), r, Len(r), k)
    BY <2>2 DEF one
  <2> QED  BY <1>5, <1>6, <2>3
<1>9. Omits(u.strides, Len(u.strides), x.strides, Len(x.strides), k)
  <2> DEFINE r == Rejoined(strides, t.strides, axis)
             q == Rejoined(v.strides, t.strides, axis)
             zero == 0
  <2>1. zero \in Int /\ axis \in 1..Len(t.strides) + 1
    BY <1>1, <1>2
  <2> HIDE DEF zero
  <2>2. LET p == Rejoined(Append(v.strides, zero), t.strides, axis)
        IN  Omits(q, Len(q), p, Len(p), k)
    BY <1>1, <1>2, <1>7, <2>1, JoinedInserts
  <2>3. Omits(q, Len(q), r, Len(r), k)
    BY <2>2 DEF zero
  <2> QED  BY <1>5, <1>6, <2>3
<1>10. Inserts(x, u, k)
  BY <1>5, <1>6, <1>8, <1>9 DEF Inserts
<1>11. Len(w.shape) = k
  <2> DEFINE one == 1
  <2>1. one \in Nat
    OBVIOUS
  <2> HIDE DEF one
  <2>2. Len(Append(v.shape, one)) = Len(v.shape) + 1
    BY <1>2, <2>1, AppendProperties
  <2> QED  BY <1>3, <2>2 DEF one, k
<1> QED  BY <1>3, <1>4, <1>5, <1>6, <1>8, <1>10, <1>11 DEF w, u, x, k

\* What has been read stays a view.
LEMMA NewAxisReads ==
    ASSUME NEW t, IsLayout(t), NEW v, IsReading(v, t)
    PROVE  /\ IsReading(Keep(v, 1, 0), t)
           /\ Keep(v, 1, 0).axis = v.axis /\ Keep(v, 1, 0).ok = v.ok
<1> DEFINE w == Keep(v, 1, 0)
           u == Completed(v, t)
           x == Completed(w, t)
           k == Len(v.shape) + 1
<1>1. /\ IsReader(w, t) /\ w.axis = v.axis /\ w.ok = v.ok
      /\ IsLayout(u) /\ IsLayout(x) /\ k \in 1..Len(x.shape) /\ Inserts(x, u, k)
  BY NewAxisInserts
<1> HIDE DEF w, u, x, k
<1>2. \E M : IsView(x, u, M)
  BY <1>1, InsertionIsView
<1> QED  BY <1>1, <1>2, ReadsOn DEF w, u, x

\* index(): an ellipsis keeps the axes it stands for.
LEMMA EllipsisReads ==
    ASSUME NEW t, IsLayout(t), NEW v, IsReading(v, t), NEW m \in Nat,
           v.axis + m \in 1..Len(t.shape) + 1
    PROVE  /\ IsReading(KeepAll(v, t, m), t)
           /\ KeepAll(v, t, m).axis = v.axis + m /\ KeepAll(v, t, m).ok = v.ok
           /\ Len(KeepAll(v, t, m).shape) = Len(v.shape) + m
           /\ Completed(KeepAll(v, t, m), t) = Completed(v, t)
<1> DEFINE axis == v.axis
           next == axis + m
           shape == v.shape \o SubSeq(t.shape, axis, axis + m - 1)
           strides == v.strides \o SubSeq(t.strides, axis, axis + m - 1)
           w == KeepAll(v, t, m)
<1>1. t.shape \in Seq(Nat) /\ t.strides \in Seq(Int) /\ Len(t.strides) = Len(t.shape)
  BY LayoutType
<1>2. /\ IsReader(v, t) /\ v \in Reader /\ axis \in 1..Len(t.shape) + 1
      /\ v.shape \in Seq(Nat) /\ v.strides \in Seq(Int) /\ v.offset \in Int
      /\ Len(v.strides) = Len(v.shape) /\ Len(v.shape) \in Nat
  BY ReaderType DEF IsReading, IsReader
<1>3. /\ w.shape = shape /\ w.strides = strides /\ w.offset = v.offset /\ w.axis = next
      /\ w.ok = v.ok
      /\ w = [v EXCEPT !.shape = shape, !.strides = strides, !.axis = next]
  <2>1. w = [v EXCEPT !.shape = shape, !.strides = strides, !.axis = next]
    BY <1>2 DEF KeepAll, Reader
  <2> HIDE DEF w, shape, strides, next
  <2> QED  BY <1>2, <2>1 DEF Reader
<1> HIDE DEF w
<1>4. /\ shape \in Seq(Nat) /\ Len(shape) = Len(v.shape) + m
      /\ Rejoined(shape, t.shape, next) = Rejoined(v.shape, t.shape, axis)
  <2> DEFINE a == v.shape
             s == t.shape
             last == axis + m - 1
  <2>1. a \in Seq(Nat) /\ s \in Seq(Nat) /\ Position(axis, s) /\ Position(next, s)
    BY <1>1, <1>2 DEF Position
  <2>2. Passes(m, axis, last, next)
    BY DEF Passes
  <2> HIDE DEF a, s, axis, last, next
  <2>3. LET b == a \o SubSeq(s, axis, last)
        IN  b \in Seq(Nat) /\ Len(b) = Len(a) + m /\ Rejoined(b, s, next) = Rejoined(a, s, axis)
    BY <2>1, <2>2, JoinedMoves
  <2> QED  BY <2>3 DEF a, s, last
<1>5. /\ strides \in Seq(Int) /\ Len(strides) = Len(v.strides) + m
      /\ Rejoined(strides, t.strides, next) = Rejoined(v.strides, t.strides, axis)
  <2> DEFINE a == v.strides
             s == t.strides
             last == axis + m - 1
  <2>1. a \in Seq(Int) /\ s \in Seq(Int) /\ Position(axis, s) /\ Position(next, s)
    BY <1>1, <1>2 DEF Position
  <2>2. Passes(m, axis, last, next)
    BY DEF Passes
  <2> HIDE DEF a, s, axis, last, next
  <2>3. LET b == a \o SubSeq(s, axis, last)
        IN  b \in Seq(Int) /\ Len(b) = Len(a) + m /\ Rejoined(b, s, next) = Rejoined(a, s, axis)
    BY <2>1, <2>2, JoinedMoves
  <2> QED  BY <2>3 DEF a, s, last
<1> HIDE DEF shape, strides
<1>6. IsReader(w, t)
  <2>1. next \in Nat
    BY <1>2
  <2> HIDE DEF next
  <2>2. w \in Reader
    BY <1>2, <1>3, <1>4, <1>5, <2>1 DEF Reader
  <2> QED  BY <1>2, <1>3, <1>4, <1>5, <2>2 DEF IsReader, next
<1>7. Completed(w, t) = Completed(v, t)
  BY <1>3, <1>4, <1>5 DEF Completed
<1>8. Len(w.shape) = Len(v.shape) + m
  BY <1>3, <1>4
<1> QED  BY <1>3, <1>6, <1>7, <1>8 DEF IsReading, w

\* What is left of the axes is kept as it is.
LEMMA ViewIsCompleted ==
    ASSUME NEW t, IsLayout(t), NEW v, IsReading(v, t)
    PROVE  LET view == KeepAll(v, t, Rank(t) + 1 - v.axis)
           IN  [t EXCEPT !.shape = view.shape, !.strides = view.strides, !.offset = view.offset]
                   = Completed(v, t)
<1> DEFINE axis == v.axis
           n == Len(t.shape)
           m == n + 1 - axis
           view == KeepAll(v, t, m)
<1>1. t.shape \in Seq(Nat) /\ t.strides \in Seq(Int) /\ Len(t.strides) = n /\ n \in Nat
  BY LayoutType
<1>2. v \in Reader /\ axis \in 1..n + 1
  BY DEF IsReading, IsReader
<1>3. axis + m - 1 = n
  BY <1>1, <1>2
<1> DEFINE shape == v.shape \o SubSeq(t.shape, axis, axis + m - 1)
           strides == v.strides \o SubSeq(t.strides, axis, axis + m - 1)
<1>4. shape = Rejoined(v.shape, t.shape, axis) /\ strides = Rejoined(v.strides, t.strides, axis)
  <2> HIDE DEF m, axis
  <2> QED  BY <1>1, <1>3 DEF Rejoined
<1>5. view = [v EXCEPT !.shape = shape, !.strides = strides, !.axis = axis + m]
  BY <1>2 DEF KeepAll, Reader
<1> HIDE DEF view, shape, strides, m
<1>6. view.shape = shape /\ view.strides = strides /\ view.offset = v.offset
  BY <1>2, <1>5 DEF Reader
<1>7. [t EXCEPT !.shape = view.shape, !.strides = view.strides, !.offset = view.offset]
          = Completed(v, t)
  BY <1>4, <1>6 DEF Completed, LaidOut
<1> QED  BY <1>7 DEF view, m, Rank

\* The axes that a component passes; an ellipsis passes those no other component consumes.
Advance(component, unconsumed) ==
    IF component.kind \in {"int", "slice"} THEN 1
    ELSE IF component.kind = "ellipsis" THEN unconsumed ELSE 0

\* index(): whatever the component, what has been read stays a view.
LEMMA ComponentReads ==
    ASSUME NEW t, IsLayout(t), NEW v, IsReading(v, t), v.ok = TRUE, NEW x \in Component,
           NEW m \in Nat,
           x.kind \in {"int", "slice"} => v.axis \in 1..Len(t.shape),
           x.kind = "ellipsis" => v.axis + m \in 1..Len(t.shape) + 1
    PROVE  LET w == AtComponent(v, t, x, m)
           IN  /\ w.ok \in BOOLEAN
               /\ w.ok = TRUE => IsReading(w, t) /\ w.axis = v.axis + Advance(x, m)
<1> DEFINE w == AtComponent(v, t, x, m)
           Claim == /\ w.ok \in BOOLEAN
                    /\ w.ok = TRUE => IsReading(w, t) /\ w.axis = v.axis + Advance(x, m)
<1> SUFFICES Claim
  OBVIOUS
<1>1. v \in Reader /\ v.axis \in Nat
  BY DEF IsReading, IsReader, Reader
<1>2. CASE x.kind = "int"
  <2>1. w = AtInteger(v, t, x.at) /\ x.at \in Int
    BY <1>2 DEF AtComponent, Component
  <2>2. w.ok \in BOOLEAN
    <3>1. AtInteger(v, t, x.at).ok = (NormalizedDim(x.at, t.shape[v.axis]) \in 0..t.shape[v.axis] - 1)
      BY <1>1 DEF AtInteger, Reader
    <3>2. AtInteger(v, t, x.at).ok \in BOOLEAN
      <4> DEFINE i == NormalizedDim(x.at, t.shape[v.axis])
                 range == 0..t.shape[v.axis] - 1
      <4> HIDE DEF i, range
      <4>1. (i \in range) \in BOOLEAN
        OBVIOUS
      <4> QED  BY <3>1, <4>1, Zenon DEF i, range
    <3> QED  BY <2>1, <3>2
  <2>3. Advance(x, m) = 1
    BY <1>2 DEF Advance
  <2>4. w.ok = TRUE => IsReading(w, t) /\ w.axis = v.axis + 1
    <3>1. ASSUME AtInteger(v, t, x.at).ok = TRUE
          PROVE  IsReading(AtInteger(v, t, x.at), t) /\ AtInteger(v, t, x.at).axis = v.axis + 1
      <4> DEFINE at == x.at
      <4>1. at \in Int
        BY <2>1
      <4>2. AtInteger(v, t, at).ok = TRUE
        BY <3>1
      <4>3. v.axis \in 1..Len(t.shape)
        BY <1>2
      <4> HIDE DEF at
      <4>4. IsReading(AtInteger(v, t, at), t) /\ IsNext(AtInteger(v, t, at).axis, v.axis)
        BY <4>1, <4>2, <4>3, IntegerReads
      <4> QED  BY <4>4 DEF at, IsNext
    <3> HIDE DEF w
    <3> QED  BY <2>1, <3>1
  <2> HIDE DEF w
  <2> QED  BY <2>2, <2>3, <2>4
<1>3. CASE x.kind = "slice"
  <2>1. /\ w = AtSlice(v, t, x) /\ x.start \in Int \cup {Omitted}
        /\ x.stop \in Int \cup {Omitted} /\ x.step \in Int
    BY <1>3 DEF AtComponent, Component
  <2>2. w.ok \in BOOLEAN
    <3>1. AtSlice(v, t, x).ok \in BOOLEAN
      BY <1>1 DEF AtSlice, Keep, Reader
    <3> QED  BY <2>1, <3>1
  <2>3. Advance(x, m) = 1
    BY <1>3 DEF Advance
  <2>4. w.ok = TRUE => IsReading(w, t) /\ w.axis = v.axis + 1
    <3>1. ASSUME AtSlice(v, t, x).ok = TRUE
          PROVE  IsReading(AtSlice(v, t, x), t) /\ AtSlice(v, t, x).axis = v.axis + 1
      <4>1. v.axis \in 1..Len(t.shape)
        BY <1>3
      <4> HIDE DEF w
      <4>2. IsReading(AtSlice(v, t, x), t) /\ IsNext(AtSlice(v, t, x).axis, v.axis)
        BY <2>1, <3>1, <4>1, SliceReads
      <4> QED  BY <4>2 DEF IsNext
    <3> HIDE DEF w
    <3> QED  BY <2>1, <3>1
  <2> HIDE DEF w
  <2> QED  BY <2>2, <2>3, <2>4
<1>4. CASE x.kind = "none"
  <2>1. w = Keep(v, 1, 0)
    BY <1>4 DEF AtComponent
  <2>2. IsReading(w, t) /\ w.axis = v.axis /\ w.ok = v.ok
    BY <2>1, NewAxisReads
  <2>3. Advance(x, m) = 0
    BY <1>4 DEF Advance
  <2>4. w.ok \in BOOLEAN
    BY <1>1, <2>2 DEF Reader
  <2> HIDE DEF w
  <2> QED  BY <1>1, <2>2, <2>3, <2>4
<1>5. CASE x.kind = "ellipsis"
  <2>1. w = KeepAll(v, t, m)
    BY <1>5 DEF AtComponent
  <2>2. IsReading(w, t) /\ w.axis = v.axis + m /\ w.ok = v.ok
    BY <1>5, <2>1, EllipsisReads
  <2>3. Advance(x, m) = m
    BY <1>5 DEF Advance
  <2>4. w.ok \in BOOLEAN
    BY <1>1, <2>2 DEF Reader
  <2> HIDE DEF w
  <2> QED  BY <2>2, <2>3, <2>4
<1>6. x.kind \in {"int", "slice", "none", "ellipsis"}
  BY DEF Component
<1> QED  BY <1>2, <1>3, <1>4, <1>5, <1>6

\* How many of the first k numbers are in a set, for every k up to n.
Counts(count, T, n) ==
    /\ count[0] = 0 /\ count[n] = Cardinality(T)
    /\ \A k \in 0..n : count[k] \in Nat /\ count[k] <= count[n]
    /\ \A k \in 1..n : count[k] = count[k - 1] + (IF k \in T THEN 1 ELSE 0)

\* The members of a set of positions can be counted from left to right.
LEMMA CountsExist ==
    ASSUME NEW n \in Nat, NEW T \in SUBSET (1..n)
    PROVE  \E count : Counts(count, T, n)
<1> DEFINE upTo(k) == T \cap 1..k
           count == [k \in 0..n |-> Cardinality(upTo(k))]
<1>1. IsFiniteSet(T)
  <2>1. IsFiniteSet(1..n)
    BY FS_Interval
  <2> QED  BY <2>1, FS_Subset
<1>2. upTo(0) = {} /\ upTo(n) = T
  <2>1. \A k \in T : k \in 1..n /\ k \notin 1..0
    OBVIOUS
  <2> QED  BY <2>1
<1>3. ASSUME NEW k \in 0..n
      PROVE  count[k] \in Nat /\ count[k] <= Cardinality(T)
  <2>1. upTo(k) \in SUBSET T
    OBVIOUS
  <2> HIDE DEF upTo
  <2> QED  BY <1>1, <2>1, FS_Subset, FS_CardinalityType
<1>4. ASSUME NEW k \in 1..n
      PROVE  count[k] = count[k - 1] + (IF k \in T THEN 1 ELSE 0)
  <2> DEFINE S == upTo(k - 1)
  <2>1. k - 1 \in 0..n /\ k \in 0..n
    OBVIOUS
  <2>2. S \in SUBSET T /\ k \notin S
    OBVIOUS
  <2>3. IF k \in T THEN upTo(k) = S \cup {k} ELSE upTo(k) = S
    OBVIOUS
  <2>4. count[k] = Cardinality(upTo(k)) /\ count[k - 1] = Cardinality(S)
    BY <2>1
  <2> HIDE DEF S, upTo, count
  <2>5. IsFiniteSet(S)
    BY <1>1, <2>2, FS_Subset
  <2>6. Cardinality(S \cup {k}) = Cardinality(S) + 1
    BY <2>2, <2>5, FS_AddElement
  <2>7. Cardinality(S) \in Nat
    BY <2>5, FS_CardinalityType
  <2> QED  BY <2>3, <2>4, <2>6, <2>7
<1>5. count[0] = 0 /\ count[n] = Cardinality(T)
  <2>1. 0 \in 0..n /\ n \in 0..n
    OBVIOUS
  <2> HIDE DEF upTo
  <2> QED  BY <1>2, <2>1, FS_EmptySet
<1> HIDE DEF count
<1> QED  BY <1>3, <1>4, <1>5 DEF Counts

\* f[k] is the view after k components.
Reads(f, t, m, start, x, n) ==
    f[0] = start /\ \A k \in 1..n : f[k] = AtComponent(f[k - 1], t, x[k], m)

\* A subscript can be read component by component.
LEMMA ReadsExist ==
    ASSUME NEW t, NEW m, NEW start, NEW x, NEW n \in Nat
    PROVE  \E f : Reads(f, t, m, start, x, n)
<1> DEFINE P == {k \in 0..n : \E f : Reads(f, t, m, start, x, k)}
<1>1. 0 \in P
  <2> DEFINE f == [i \in 0..0 |-> start]
  <2>1. Reads(f, t, m, start, x, 0)
    BY DEF Reads
  <2> QED  BY <2>1
<1>2. ASSUME NEW k \in 1..n, k - 1 \in P
      PROVE  k \in P
  <2>1. PICK g : Reads(g, t, m, start, x, k - 1)
    BY <1>2
  <2> DEFINE last == AtComponent(g[k - 1], t, x[k], m)
             f == [i \in 0..k |-> IF i = k THEN last ELSE g[i]]
  <2> HIDE DEF last
  <2>2. f[k] = last /\ \A i \in 0..k - 1 : f[i] = g[i]
    OBVIOUS
  <2> HIDE DEF f
  <2>3. f[0] = start
    BY <2>1, <2>2 DEF Reads
  <2>4. ASSUME NEW i \in 1..k
        PROVE  f[i] = AtComponent(f[i - 1], t, x[i], m)
    <3>1. CASE i = k
      <4>1. f[k - 1] = g[k - 1]
        BY <2>2
      <4> QED  BY <2>2, <3>1, <4>1 DEF last
    <3>2. CASE i # k
      <4>1. i \in 1..k - 1 /\ i - 1 \in 0..k - 1 /\ i \in 0..k - 1
        BY <3>2
      <4>2. g[i] = AtComponent(g[i - 1], t, x[i], m)
        BY <2>1, <4>1 DEF Reads
      <4> QED  BY <2>2, <4>1, <4>2
    <3> QED  BY <3>1, <3>2
  <2>5. Reads(f, t, m, start, x, k)
    BY <2>3, <2>4 DEF Reads
  <2> QED  BY <2>5
<1>3. n \in P
  <2>1. 0..n \subseteq P
    <3> HIDE DEF P
    <3> QED  BY <1>1, <1>2, UpTo
  <2> HIDE DEF P
  <2> QED  BY <2>1
<1> QED  BY <1>3

\* index() reads the components from left to right.
LEMMA ReadingIsFolded ==
    ASSUME NEW t, NEW m, NEW x, Len(x) \in Nat
    PROVE  \E f : /\ Reads(f, t, m, Beginning(t), x, Len(x))
                  /\ Reading(t, x, m) = f[Len(x)]
<1> DEFINE n == Len(x)
           start == Beginning(t)
           recursive(f) ==
               f = [k \in 0..n |-> IF k = 0 THEN start ELSE AtComponent(f[k - 1], t, x[k], m)]
<1>1. PICK g : Reads(g, t, m, start, x, n)
  BY ReadsExist
<1> DEFINE f == [k \in 0..n |-> g[k]]
<1>2. n \in Nat
  OBVIOUS
<1>3. recursive(f)
  <2> HIDE DEF n
  <2>1. \A k \in 0..n : k = 0 \/ (k \in 1..n /\ k - 1 \in 0..n)
    BY <1>2
  <2>2. g[0] = start
    BY <1>1 DEF Reads
  <2>3. ASSUME NEW k \in 0..n
        PROVE  f[k] = IF k = 0 THEN start ELSE AtComponent(f[k - 1], t, x[k], m)
    <3>1. CASE k = 0
      BY <2>2, <3>1
    <3>2. CASE k # 0
      <4>1. k \in 1..n /\ f[k - 1] = g[k - 1] /\ f[k] = g[k]
        BY <2>1, <3>2
      <4>2. g[k] = AtComponent(g[k - 1], t, x[k], m)
        BY <1>1, <4>1 DEF Reads
      <4> QED  BY <3>2, <4>1, <4>2
    <3> QED  BY <3>1, <3>2
  <2> QED  BY <2>3
<1> DEFINE upTo == CHOOSE h : recursive(h)
<1>4. recursive(upTo)
  <2> HIDE DEF recursive, f
  <2> QED  BY <1>3
<1>5. Reading(t, x, m) = upTo[n]
  BY DEF Reading, Folded
<1> HIDE DEF upTo
<1>6. Reads(upTo, t, m, start, x, n)
  <2> HIDE DEF n
  <2>1. \A k \in 1..n : k \in 0..n /\ k # 0
    BY <1>2
  <2>2. 0 \in 0..n
    BY <1>2
  <2>3. \A k \in 0..n : upTo[k] = IF k = 0 THEN start ELSE AtComponent(upTo[k - 1], t, x[k], m)
    BY <1>4
  <2> QED  BY <2>1, <2>2, <2>3 DEF Reads
<1> QED  BY <1>5, <1>6

\* All of a sequence.
LEMMA JoinedAll ==
    ASSUME NEW S, NEW s \in Seq(S)
    PROVE  Rejoined(<<>>, s, 1) = s
<1> DEFINE a == <<>>
           i == 1
           r == Rejoined(a, s, i)
<1>1. a \in Seq(S) /\ Position(i, s) /\ Len(s) \in Nat /\ Len(a) = 0 /\ i = 1
  BY LenProperties DEF Position
<1> HIDE DEF a, i
<1>2. r \in Seq(S) /\ Ends(r, a, s, i)
  BY <1>1, JoinedIs
<1> HIDE DEF r
<1>3. Len(r) = Len(s) /\ \A j \in 1..Len(s) : r[j] = s[j]
  <2>1. Len(r) = Len(s)
    BY <1>1, <1>2 DEF Ends
  <2>2. \A j \in 1..Len(s) : r[0 + j] = s[1 + j - 1]
    BY <1>1, <1>2 DEF Ends
  <2>3. \A j \in 1..Len(s) : 0 + j = j /\ 1 + j - 1 = j
    OBVIOUS
  <2> QED  BY <2>1, <2>2, <2>3
<1>4. r = s
  BY <1>2, <1>3, SeqEqual
<1> QED  BY <1>4 DEF r, a, i

\* Nothing is read at the beginning.
LEMMA BeginningReads ==
    ASSUME NEW t, IsLayout(t)
    PROVE  IsReading(Beginning(t), t) /\ Completed(Beginning(t), t) = t
<1> DEFINE v == Beginning(t)
<1>1. /\ t \in Layout /\ t.shape \in Seq(Nat) /\ t.strides \in Seq(Int) /\ t.offset \in Int
      /\ Len(t.shape) \in Nat /\ Len(t.strides) = Len(t.shape)
  BY LayoutType DEF IsLayout
<1>2. IsReader(v, t)
  BY <1>1 DEF IsReader, Reader, Beginning
<1>3. Completed(v, t) = t
  <2>1. Rejoined(<<>>, t.shape, 1) = t.shape /\ Rejoined(<<>>, t.strides, 1) = t.strides
    BY <1>1, JoinedAll
  <2>2. Completed(v, t) = LaidOut(t, t.shape, t.strides, t.offset)
    BY <2>1 DEF Completed, Beginning
  <2> QED  BY <1>1, <2>2 DEF LaidOut, Layout
<1>4. \E M : IsView(t, t, M)
  <2> DEFINE M == [c \in Coordinates(t.shape) |-> c]
  <2>1. IsView(t, t, M)
    BY DEF IsView
  <2> QED  BY <2>1
<1> QED  BY <1>2, <1>3, <1>4 DEF IsReading

\* A component for which an axis is left, or as many as an ellipsis stands for.
MayRead(v, c, t, m) ==
    /\ IsReading(v, t) /\ c \in Component
    /\ c.kind \in {"int", "slice"} => v.axis \in 1..Len(t.shape)
    /\ c.kind = "ellipsis" => v.axis + m \in 1..Len(t.shape) + 1

\* The axes suffice for every component of a subscript whose consuming
\* components and unconsumed axes add up to the rank.
LEMMA ReadingGoesOn ==
    ASSUME NEW t, IsLayout(t), NEW n \in Nat, NEW x, \A k \in 1..n : x[k] \in Component,
           NEW axes,
           Counts(axes, {k \in 1..n : x[k].kind \in {"int", "slice"}}, n),
           NEW gaps, Counts(gaps, {k \in 1..n : x[k].kind = "ellipsis"}, n),
           NEW m \in Nat, axes[n] + m = Len(t.shape), gaps[n] <= 1,
           NEW f, Reads(f, t, m, Beginning(t), x, n)
    PROVE  /\ f[n].ok \in BOOLEAN /\ (f[n].ok = TRUE => IsReading(f[n], t))
           /\ \A k \in 1..n : f[k - 1].ok = TRUE => MayRead(f[k - 1], x[k], t, m)
<1> DEFINE r == Len(t.shape)
           position(k) == 1 + axes[k] + (IF gaps[k] = 0 THEN 0 ELSE m)
           Claim(k) == /\ f[k].ok \in BOOLEAN
                       /\ f[k].ok = TRUE => IsReading(f[k], t) /\ f[k].axis = position(k)
           P == {k \in 0..n : Claim(k)}
<1>1. r \in Nat /\ axes[n] \in Nat /\ gaps[n] \in Nat
  <2>1. n \in 0..n
    OBVIOUS
  <2> QED  BY <2>1, LayoutType DEF Counts
<1>2. 0 \in P
  <2>1. f[0] = Beginning(t)
    BY DEF Reads
  <2>2. f[0].ok = TRUE /\ f[0].axis = 1
    BY <2>1 DEF Beginning
  <2>3. position(0) = 1
    BY DEF Counts
  <2>4. IsReading(f[0], t)
    BY <2>1, BeginningReads
  <2>5. Claim(0)
    <3> HIDE DEF position
    <3> QED  BY <2>2, <2>3, <2>4
  <2> HIDE DEF Claim
  <2> QED  BY <2>5
<1>3. ASSUME NEW k \in 1..n, Claim(k - 1), f[k - 1].ok = TRUE
      PROVE  /\ MayRead(f[k - 1], x[k], t, m)
             /\ position(k) = f[k - 1].axis + Advance(x[k], m)
  <2> DEFINE v == f[k - 1]
             c == x[k]
  <2>1. IsReading(v, t) /\ v.axis = position(k - 1) /\ c \in Component
    BY <1>3
  <2>2. /\ axes[k - 1] \in Nat /\ axes[k] \in Nat /\ axes[k] <= axes[n]
        /\ gaps[k - 1] \in Nat /\ gaps[k] \in Nat /\ gaps[k] <= gaps[n]
    <3>1. k - 1 \in 0..n /\ k \in 0..n
      OBVIOUS
    <3> QED  BY <3>1 DEF Counts
  <2>3. axes[k] = axes[k - 1] + (IF c.kind \in {"int", "slice"} THEN 1 ELSE 0)
    BY DEF Counts
  <2>4. gaps[k] = gaps[k - 1] + (IF c.kind = "ellipsis" THEN 1 ELSE 0)
    BY DEF Counts
  <2> DEFINE a == axes[k - 1]
             b == axes[k]
             g == gaps[k - 1]
             h == gaps[k]
             last == axes[n]
             p == v.axis
  <2>5. /\ a \in Nat /\ b \in Nat /\ g \in Nat /\ h \in Nat /\ last \in Nat
        /\ b <= last /\ h <= 1 /\ last + m = r /\ r \in Nat
        /\ p = 1 + a + (IF g = 0 THEN 0 ELSE m)
    <3>1. h <= gaps[n] /\ gaps[n] <= 1 /\ h \in Nat /\ gaps[n] \in Nat
      BY <1>1, <2>2
    <3>2. h <= 1
      <4> DEFINE l == gaps[n]
      <4> HIDE DEF h, l
      <4> QED  BY <3>1 DEF l
    <3> QED  BY <1>1, <2>1, <2>2, <3>2
  <2>6. /\ b = a + (IF c.kind \in {"int", "slice"} THEN 1 ELSE 0)
        /\ h = g + (IF c.kind = "ellipsis" THEN 1 ELSE 0)
        /\ position(k) = 1 + b + (IF h = 0 THEN 0 ELSE m)
    BY <2>3, <2>4
  <2> HIDE DEF v, c, r, a, b, g, h, last, p
  <2>7. c.kind \in {"int", "slice"} => p \in 1..r
    BY <2>5, <2>6, SMT
  <2>8. c.kind = "ellipsis" => p + m \in 1..r + 1
    <3> SUFFICES ASSUME c.kind = "ellipsis"
                 PROVE  p + m \in 1..r + 1
      OBVIOUS
    <3>1. g = 0 /\ b = a
      BY <2>5, <2>6
    <3> QED  BY <2>5, <3>1, SMT
  <2>9. position(k) = p + Advance(c, m)
    <3> HIDE DEF position
    <3>1. CASE c.kind = "ellipsis"
      <4>1. g = 0 /\ h = 1 /\ b = a /\ Advance(c, m) = m
        BY <2>5, <2>6, <3>1 DEF Advance
      <4> QED  BY <2>5, <2>6, <4>1
    <3>2. CASE c.kind # "ellipsis"
      <4>1. g = h /\ b = a + Advance(c, m) /\ Advance(c, m) \in Nat
        BY <2>5, <2>6, <3>2 DEF Advance
      <4> QED  BY <2>5, <2>6, <4>1, SMT
    <3> QED  BY <3>1, <3>2
  <2> HIDE DEF position
  <2>10. MayRead(v, c, t, m)
    BY <2>1, <2>7, <2>8 DEF MayRead, p, r
  <2> QED  BY <2>9, <2>10 DEF v, c, p
<1>4. ASSUME NEW k \in 1..n, Claim(k - 1)
      PROVE  Claim(k)
  <2> DEFINE v == f[k - 1]
             w == f[k]
             c == x[k]
  <2>1. w = AtComponent(v, t, c, m)
    BY DEF Reads
  <2>2. CASE v.ok = FALSE
    <3>1. w = v
      BY <2>1, <2>2 DEF AtComponent
    <3> QED  BY <2>2, <3>1
  <2>3. CASE v.ok = TRUE
    <3>1. MayRead(v, c, t, m) /\ position(k) = v.axis + Advance(c, m)
      <4> HIDE DEF Claim, position
      <4> QED  BY <1>3, <1>4, <2>3
    <3> HIDE DEF v, w, c, position
    <3>2. /\ w.ok \in BOOLEAN
          /\ w.ok = TRUE => IsReading(w, t) /\ w.axis = v.axis + Advance(c, m)
      BY <2>1, <2>3, <3>1, ComponentReads DEF MayRead
    <3> QED  BY <3>1, <3>2 DEF w
  <2>4. v.ok \in BOOLEAN
    BY <1>4
  <2> HIDE DEF Claim
  <2> QED  BY <2>2, <2>3, <2>4
<1>5. \A k \in 0..n : Claim(k)
  <2>1. ASSUME NEW k \in 1..n, k - 1 \in P
        PROVE  k \in P
    <3>1. Claim(k - 1) /\ k \in 0..n
      BY <2>1
    <3> HIDE DEF Claim
    <3>2. Claim(k)
      BY <1>4, <3>1
    <3> QED  BY <3>1, <3>2
  <2>2. 0..n \subseteq P
    <3> HIDE DEF P
    <3> QED  BY <1>2, <2>1, UpTo
  <2> HIDE DEF Claim
  <2> QED  BY <2>2
<1>6. ASSUME NEW k \in 1..n, f[k - 1].ok = TRUE
      PROVE  MayRead(f[k - 1], x[k], t, m)
  <2>1. k - 1 \in 0..n
    OBVIOUS
  <2> HIDE DEF Claim, position
  <2> QED  BY <1>3, <1>5, <1>6, <2>1
<1>7. n \in 0..n
  OBVIOUS
<1> HIDE DEF position
<1> QED  BY <1>5, <1>6, <1>7

\* index() preserves the invariant, whatever its arguments.
LEMMA IndexKeeps ==
    ASSUME IInv, NEW s \in Slots, NEW d \in Slots, slot[s] # Undefined,
           NEW x \in Seq(Component), Index(s, d, x)
    PROVE  IInv'
<1> DEFINE t == slot[s]
           r == Rank(t)
           n == Len(x)
           Axes == {k \in 1..n : x[k].kind \in {"int", "slice"}}
           Gaps == {k \in 1..n : x[k].kind = "ellipsis"}
           m == r - Cardinality(Axes)
           read == Reading(t, x, m)
           view == KeepAll(read, t, r + 1 - read.axis)
           u == [t EXCEPT !.shape = view.shape, !.strides = view.strides, !.offset = view.offset]
<1>1. Good(t, memory) /\ IsLayout(t)
  BY OperandIsGood
<1>2. n \in Nat /\ DOMAIN x = 1..n /\ \A k \in 1..n : x[k] \in Component
  BY LenProperties, ElementOfSeq
<1>3. IF Cardinality(Gaps) <= 1 /\ Cardinality(Axes) <= r /\ read.ok THEN Construct(d, u) ELSE Throw
  BY <1>2 DEF Index
<1>4. CASE Cardinality(Gaps) <= 1 /\ Cardinality(Axes) <= r /\ read.ok
  <2> HIDE DEF t, read
  <2>1. PICK axes : Counts(axes, Axes, n)
    <3>1. Axes \in SUBSET (1..n)
      OBVIOUS
    <3> HIDE DEF Axes, n
    <3> QED  BY <1>2, <3>1, CountsExist
  <2>2. PICK gaps : Counts(gaps, Gaps, n)
    <3>1. Gaps \in SUBSET (1..n)
      OBVIOUS
    <3> HIDE DEF Gaps, n
    <3> QED  BY <1>2, <3>1, CountsExist
  <2>3. PICK f : Reads(f, t, m, Beginning(t), x, n) /\ read = f[n]
    <3> DEFINE c == m
    <3> HIDE DEF c
    <3>1. \E f : Reads(f, t, c, Beginning(t), x, Len(x)) /\ Reading(t, x, c) = f[Len(x)]
      BY <1>2, ReadingIsFolded
    <3> QED  BY <3>1 DEF c, read
  <2>4. m \in Nat /\ axes[n] + m = Len(t.shape) /\ gaps[n] <= 1
    <3>1. axes[n] = Cardinality(Axes) /\ axes[n] \in Nat /\ gaps[n] = Cardinality(Gaps)
      <4>1. n \in 0..n
        BY <1>2
      <4> HIDE DEF n, Axes, Gaps
      <4> QED  BY <2>1, <2>2, <4>1 DEF Counts
    <3>2. r = Len(t.shape) /\ r \in Nat
      BY <1>1, LayoutType DEF Rank
    <3> HIDE DEF n, Axes, Gaps
    <3> QED  BY <1>4, <3>1, <3>2
  <2>5. IsReading(read, t)
    <3>1. f[n].ok \in BOOLEAN /\ (f[n].ok = TRUE => IsReading(f[n], t))
      <4> HIDE DEF n, m
      <4> QED  BY <1>1, <1>2, <2>1, <2>2, <2>3, <2>4, ReadingGoesOn
    <3>2. read.ok = TRUE
      <4> DEFINE ok == read.ok
      <4>1. ok \in BOOLEAN
        BY <2>3, <3>1
      <4>2. ok
        BY <1>4
      <4> HIDE DEF ok
      <4> QED  BY <4>1, <4>2 DEF ok
    <3> QED  BY <2>3, <3>1, <3>2
  <2>6. u = Completed(read, t)
    BY <1>1, <2>5, ViewIsCompleted, Zenon
  <2>7. PICK M : IsView(u, t, M)
    <3> HIDE DEF u
    <3> QED  BY <2>5, <2>6 DEF IsReading
  <2>8. Construct(d, u)
    BY <1>3, <1>4
  <2> HIDE DEF u
  <2> QED  BY <1>1, <2>7, <2>8, ConstructKeeps
<1>5. CASE ~(Cardinality(Gaps) <= 1 /\ Cardinality(Axes) <= r /\ read.ok)
  <2>1. Throw
    BY <1>3, <1>5
  <2> QED  BY <2>1, ThrowKeeps
<1> QED  BY <1>4, <1>5

-----------------------------------------------------------------------------
(* New storages.                                                             *)

\* make_contiguous_strides() counts empty dimensions as one.
Padded(shape) == [i \in 1..Len(shape) |-> Max({shape[i], 1})]
FreshLayout(shape, storage) ==
    [shape |-> shape, offset |-> 0, storage |-> storage,
     strides |-> ContiguousStrides(Padded(shape))]

\* Padding leaves a shape as it is, except for its empty axes.
LEMMA PaddedIs ==
    ASSUME NEW shape \in Seq(Nat)
    PROVE  /\ Padded(shape) \in Seq(Nat) /\ Len(Padded(shape)) = Len(shape)
           /\ (\A i \in 1..Len(shape) : shape[i] # 0) => Padded(shape) = shape
<1> DEFINE n == Len(shape)
           p == Padded(shape)
<1>1. n \in Nat /\ \A i \in 1..n : shape[i] \in Nat
  BY LenProperties, ElementOfSeq
<1>2. \A i \in 1..n : p[i] \in Nat /\ p[i] = IF shape[i] = 0 THEN 1 ELSE shape[i]
  <2> SUFFICES ASSUME NEW i \in 1..n
               PROVE  p[i] \in Nat /\ p[i] = IF shape[i] = 0 THEN 1 ELSE shape[i]
    OBVIOUS
  <2> DEFINE a == shape[i]
             one == 1
  <2>1. a \in Nat /\ a \in Int /\ one \in Int
    BY <1>1
  <2>2. p[i] = Max({a, one})
    BY DEF Padded
  <2> HIDE DEF a, one, p
  <2>3. Max({a, one}) = IF a >= one THEN a ELSE one
    BY <2>1, MaxOfTwo
  <2> QED  BY <2>1, <2>2, <2>3 DEF a, one
<1>3. p \in Seq(Nat) /\ Len(p) = n
  <2>1. p = [i \in 1..n |-> p[i]] /\ DOMAIN p = 1..n
    BY DEF Padded
  <2> HIDE DEF p, n
  <2>2. p \in [1..n -> Nat]
    BY <1>2, <2>1
  <2> QED  BY <1>1, <2>1, <2>2, FunctionsAreSequences
<1> HIDE DEF p
<1>4. ASSUME \A i \in 1..n : shape[i] # 0
      PROVE  p = shape
  <2>1. \A k \in 1..n : p[k] = shape[k]
    BY <1>2, <1>4
  <2> QED  BY <1>3, <2>1, SeqEqual
<1> QED  BY <1>3, <1>4 DEF p, n

\* A new tensor uses its storage from first to last element.
LEMMA FreshIsSound ==
    ASSUME NEW shape \in Seq(Nat), NEW storage \in Nat
    PROVE  Sound(FreshLayout(shape, storage), Numel(shape))
<1> DEFINE t == FreshLayout(shape, storage)
           n == Len(shape)
           p == Padded(shape)
           w == ContiguousStrides(p)
<1> SUFFICES Sound(t, Numel(shape))
  OBVIOUS
<1>1. n \in Nat /\ \A i \in 1..n : shape[i] \in Nat
  BY LenProperties, ElementOfSeq
<1>2. p \in Seq(Nat) /\ Len(p) = n /\ ((\A i \in 1..n : shape[i] # 0) => p = shape)
  BY PaddedIs
<1> HIDE DEF p
<1>3. w \in Seq(Nat) /\ w \in Seq(Int) /\ Len(w) = n
  BY <1>2, StridesAreWidths, SeqMonotonic
<1>4. /\ t.shape = shape /\ t.strides = w /\ t.offset = 0 /\ t.storage = storage
      /\ t = [shape |-> shape, strides |-> w, offset |-> 0, storage |-> storage]
  BY DEF FreshLayout, p
<1> HIDE DEF t, w
<1>5. IsLayout(t) /\ t.offset \in Nat
  <2>1. t \in Layout
    BY <1>3, <1>4 DEF Layout
  <2> QED  BY <1>3, <1>4, <2>1 DEF IsLayout
<1>6. CASE \E k \in 1..n : shape[k] = 0
  <2>1. Coordinates(shape) = {}
    <3>1. PICK k \in 1..n : shape[k] = 0
      BY <1>6
    <3>2. ASSUME NEW c \in Coordinates(shape)
          PROVE  FALSE
      <4>1. c[k] \in Nat /\ c[k] < shape[k]
        BY CoordinatesType
      <4> QED  BY <3>1, <4>1
    <3> QED  BY <3>2
  <2>2. Coordinates(t.shape) = {}
    BY <1>4, <2>1
  <2> QED  BY <1>5, <2>2 DEF Sound
<1>7. CASE \A k \in 1..n : shape[k] # 0
  <2>1. p = shape
    BY <1>2, <1>7
  <2>2. \A c \in Coordinates(shape) : Place(t, c) = Ravel(c, shape) /\ Place(t, c) \in 0..Numel(shape) - 1
    <3> SUFFICES ASSUME NEW c \in Coordinates(shape)
                 PROVE  Place(t, c) = Ravel(c, shape) /\ Place(t, c) \in 0..Numel(shape) - 1
      OBVIOUS
    <3>1. Place(t, c) = 0 + Ravel(c, shape)
      BY <1>4, <2>1 DEF Place, Ravel, w
    <3>2. Ravel(c, shape) \in 0..Numel(shape) - 1
      BY RavelRange
    <3>3. 0 + Ravel(c, shape) = Ravel(c, shape)
      <4> DEFINE r == Ravel(c, shape)
                 l == Numel(shape)
      <4>1. r \in 0..l - 1 /\ l \in Nat
        BY <3>2, NumelType
      <4> HIDE DEF r, l
      <4>2. 0 + r = r
        BY <4>1
      <4> QED  BY <4>2 DEF r
    <3> QED  BY <3>1, <3>2, <3>3
  <2>3. \A c, d \in Coordinates(shape) : Place(t, c) = Place(t, d) => c = d
    <3> SUFFICES ASSUME NEW c \in Coordinates(shape), NEW d \in Coordinates(shape),
                        Place(t, c) = Place(t, d)
                 PROVE  c = d
      OBVIOUS
    <3>1. Ravel(c, shape) = Ravel(d, shape)
      BY <2>2
    <3> QED  BY <3>1, RavelInjective
  <2>4. Coordinates(t.shape) = Coordinates(shape)
    BY <1>4
  <2> QED  BY <1>5, <2>2, <2>3, <2>4 DEF Sound
<1> QED  BY <1>6, <1>7

\* A storage behind the others.
LEMMA AppendExtends ==
    ASSUME NEW storages \in Seq(Seq(Int)), NEW data \in Seq(Int)
    PROVE  /\ Extends(Append(storages, data), storages)
           /\ Len(storages) + 1 \in DOMAIN Append(storages, data)
           /\ Append(storages, data)[Len(storages) + 1] = data
           /\ Len(storages) + 1 \in Nat
<1> DEFINE n == Len(storages)
           more == Append(storages, data)
<1>1. /\ more \in Seq(Seq(Int)) /\ Len(more) = n + 1 /\ more[n + 1] = data /\ n \in Nat
      /\ \A i \in 1..n : more[i] = storages[i]
  BY AppendProperties, LenProperties
<1>2. DOMAIN storages = 1..n /\ DOMAIN more = 1..n + 1
  BY <1>1, LenProperties
<1> HIDE DEF more, n
<1>3. n + 1 \in 1..n + 1 /\ n + 1 \in Nat /\ \A i \in 1..n : i \in 1..n + 1
  BY <1>1
<1> QED  BY <1>1, <1>2, <1>3 DEF Extends, more, n

\* Allocating a tensor preserves the invariant.
LEMMA FreshKeeps ==
    ASSUME IInv, NEW d \in Slots, NEW shape \in Seq(Nat), NEW data \in Seq(Int),
           Len(data) = Numel(shape), Fresh(d, shape, data)
    PROVE  IInv'
<1> DEFINE n == Len(memory) + 1
           t == FreshLayout(shape, n)
           storages == Append(memory, data)
<1>1. memory \in Seq(Seq(Int))
  BY DEF IInv, AllGood
<1>2. Extends(storages, memory) /\ n \in DOMAIN storages /\ storages[n] = data /\ n \in Nat
  BY <1>1, AppendExtends
<1>3. Return(d, t, storages)
  BY DEF Fresh, FreshLayout, Padded
<1>4. t.storage = n
  BY DEF FreshLayout
<1> HIDE DEF n, storages
<1>5. Sound(t, Len(data))
  BY <1>2, FreshIsSound
<1> HIDE DEF t
<1>6. Good(t, storages)
  BY <1>2, <1>4, <1>5 DEF Good
<1> QED  BY <1>2, <1>3, <1>6, ReturnKeeps

\* A contiguous copy has one element for each of the tensor.
LEMMA MaterializedIs ==
    ASSUME NEW t, Good(t, memory), memory \in Seq(Seq(Int))
    PROVE  Materialized(t) \in Seq(Int) /\ Len(Materialized(t)) = Numel(t.shape)
<1> DEFINE k == Numel(t.shape)
           store == memory[t.storage]
           size == Len(store)
           data == Materialized(t)
<1>1. t.shape \in Seq(Nat) /\ k \in Nat
  BY LayoutType, NumelType DEF Good, Sound
<1>2. store \in Seq(Int) /\ size \in Nat /\ \A i \in 1..size : store[i] \in Int
  <2>1. DOMAIN memory = 1..Len(memory)
    BY LenProperties
  <2>2. store \in Seq(Int)
    BY <2>1, ElementOfSeq DEF Good
  <2> HIDE DEF store
  <2> QED  BY <2>2, LenProperties, ElementOfSeq
<1>3. Addresses(t) \subseteq 0..size - 1
  BY <1>2, SoundAddresses DEF Good
<1>4. ASSUME NEW n \in 1..k
      PROVE  store[Address(t, n - 1) + 1] \in Int
  <2>1. n - 1 \in 0..k - 1
    BY <1>1
  <2>2. Address(t, n - 1) \in Addresses(t)
    BY <2>1 DEF Addresses
  <2> DEFINE a == Address(t, n - 1)
  <2>3. a \in 0..size - 1
    BY <1>3, <2>2
  <2> HIDE DEF a, size
  <2>4. a + 1 \in 1..size
    BY <1>2, <2>3
  <2> QED  BY <1>2, <2>4 DEF a
<1>5. data = [n \in 1..k |-> store[Address(t, n - 1) + 1]]
  BY DEF Materialized
<1> HIDE DEF k, store, data
<1>6. data \in [1..k -> Int]
  BY <1>4, <1>5
<1> QED  BY <1>1, <1>6, FunctionsAreSequences DEF data, k

\* contiguous() of a tensor, under another shape.
LEMMA ReshapedKeeps ==
    ASSUME IInv, NEW d \in Slots, NEW t, Good(t, memory), NEW shape \in Seq(Nat),
           Numel(shape) = Numel(t.shape), Reshaped(d, t, shape)
    PROVE  IInv'
<1>1. memory \in Seq(Seq(Int)) /\ Extends(memory, memory)
  BY DEF IInv, AllGood, Extends
<1>2. CASE IsContiguous(t)
  <2> DEFINE u == [t EXCEPT !.shape = shape, !.strides = ContiguousStrides(shape)]
             size == Len(memory[t.storage])
  <2>1. Construct(d, u)
    BY <1>2 DEF Reshaped
  <2>2. size \in Nat /\ t.storage \in DOMAIN memory
    <3>1. DOMAIN memory = 1..Len(memory) /\ t.storage \in DOMAIN memory
      BY <1>1, LenProperties DEF Good
    <3>2. memory[t.storage] \in Seq(Int)
      BY <1>1, <3>1, ElementOfSeq
    <3> QED  BY <3>1, <3>2, LenProperties
  <2>3. Sound(u, size)
    <3> HIDE DEF size
    <3>1. Sound(t, size)
      BY DEF Good, size
    <3> QED  BY <1>2, <2>2, <3>1, ReshapedIsSound, Zenon
  <2>4. u.storage = t.storage
    BY DEF Good, Sound, IsLayout, Layout
  <2> HIDE DEF u
  <2>5. Good(u, memory)
    BY <2>2, <2>3, <2>4 DEF Good
  <2>6. CASE ValidLayout(u)
    BY <1>1, <2>1, <2>5, <2>6, ReturnKeeps DEF Construct
  <2>7. CASE ~ValidLayout(u)
    BY <2>1, <2>7, ThrowKeeps DEF Construct
  <2> QED  BY <2>6, <2>7
<1>3. CASE ~IsContiguous(t)
  <2> DEFINE data == Materialized(t)
  <2>1. data \in Seq(Int) /\ Len(data) = Numel(shape)
    BY <1>1, MaterializedIs
  <2>2. Fresh(d, shape, data)
    BY <1>3 DEF Reshaped
  <2> HIDE DEF data
  <2> QED  BY <2>1, <2>2, FreshKeeps
<1> QED  BY <1>2, <1>3

\* Axes of one element left out.
Squeezes(f, s, n) ==
    /\ f[0] = <<>>
    /\ \A k \in 1..n : f[k] = IF s[k] = 1 THEN f[k - 1] ELSE Append(f[k - 1], s[k])

\* A shape can be squeezed axis by axis.
LEMMA SqueezesExist ==
    ASSUME NEW n \in Nat, NEW s, Within(s, n, Nat)
    PROVE  \E f : Squeezes(f, s, n)
<1> DEFINE D == Seq(Nat)
           step == [i \in 1..n |-> [r \in D |-> IF s[i] = 1 THEN r ELSE Append(r, s[i])]]
           empty == <<>>
<1>1. empty \in D
  OBVIOUS
<1>2. \A i \in 1..n, r \in D : (IF s[i] = 1 THEN r ELSE Append(r, s[i])) \in D
  BY AppendProperties DEF Within
<1> HIDE DEF D
<1>3. step \in [1..n -> [D -> D]]
  BY <1>2
<1>4. PICK f : Iteration(f, n, D, empty, step)
  <2> HIDE DEF step, empty
  <2> QED  BY <1>1, <1>3, Iterates
<1>5. f[0] = empty /\ \A i \in 1..n : f[i] = step[i][f[i - 1]] /\ i - 1 \in 0..n /\ f[i - 1] \in D
  <2> HIDE DEF step, empty
  <2>1. \A i \in 1..n : i - 1 \in 0..n
    OBVIOUS
  <2> QED  BY <1>4, <2>1 DEF Iteration
<1>6. \A i \in 1..n, r \in D : step[i][r] = IF s[i] = 1 THEN r ELSE Append(r, s[i])
  OBVIOUS
<1> HIDE DEF step
<1>7. \A i \in 1..n : f[i] = IF s[i] = 1 THEN f[i - 1] ELSE Append(f[i - 1], s[i])
  BY <1>5, <1>6
<1>8. Squeezes(f, s, n)
  BY <1>5, <1>7 DEF Squeezes
<1> QED  BY <1>8

\* squeeze() drops the axes of one element from left to right.
LEMMA SqueezedIsFolded ==
    ASSUME NEW s \in Seq(Nat)
    PROVE  \E f : Squeezes(f, s, Len(s)) /\ Squeezed(s) = f[Len(s)]
<1> DEFINE n == Len(s)
           recursive(f) ==
               f = [k \in 0..n |-> IF k = 0 THEN <<>>
                                   ELSE IF s[k] = 1 THEN f[k - 1] ELSE Append(f[k - 1], s[k])]
<1>1. n \in Nat /\ Within(s, n, Nat)
  BY SequencesAreWithin
<1>2. PICK g : Squeezes(g, s, n)
  <2> HIDE DEF n
  <2> QED  BY <1>1, SqueezesExist
<1> DEFINE f == [k \in 0..n |-> g[k]]
<1>3. recursive(f)
  <2> HIDE DEF n
  <2>1. \A k \in 0..n : k = 0 \/ (k \in 1..n /\ k - 1 \in 0..n)
    BY <1>1
  <2>2. g[0] = <<>>
    BY <1>2 DEF Squeezes
  <2>3. ASSUME NEW k \in 0..n
        PROVE  f[k] = IF k = 0 THEN <<>>
                      ELSE IF s[k] = 1 THEN f[k - 1] ELSE Append(f[k - 1], s[k])
    <3>1. CASE k = 0
      BY <2>2, <3>1
    <3>2. CASE k # 0
      <4>1. k \in 1..n /\ f[k - 1] = g[k - 1] /\ f[k] = g[k]
        BY <2>1, <3>2
      <4>2. g[k] = IF s[k] = 1 THEN g[k - 1] ELSE Append(g[k - 1], s[k])
        BY <1>2, <4>1 DEF Squeezes
      <4> QED  BY <3>2, <4>1, <4>2
    <3> QED  BY <3>1, <3>2
  <2> QED  BY <2>3
<1> DEFINE upTo == CHOOSE h : recursive(h)
<1>4. recursive(upTo)
  <2> HIDE DEF recursive, f
  <2> QED  BY <1>3
<1>5. Squeezed(s) = upTo[n]
  BY DEF Squeezed, Folded
<1> HIDE DEF upTo
<1>6. Squeezes(upTo, s, n)
  <2> HIDE DEF n
  <2>1. \A k \in 1..n : k \in 0..n /\ k # 0
    BY <1>1
  <2>2. 0 \in 0..n
    BY <1>1
  <2>3. \A k \in 0..n : upTo[k] = IF k = 0 THEN <<>>
                                  ELSE IF s[k] = 1 THEN upTo[k - 1] ELSE Append(upTo[k - 1], s[k])
    BY <1>4
  <2> QED  BY <2>1, <2>2, <2>3 DEF Squeezes
<1> QED  BY <1>5, <1>6

\* A squeezed shape has as many elements.
LEMMA SqueezedIs ==
    ASSUME NEW s \in Seq(Nat)
    PROVE  Squeezed(s) \in Seq(Nat) /\ Numel(Squeezed(s)) = Numel(s)
<1> DEFINE n == Len(s)
<1>1. n \in Nat /\ Within(s, n, Nat)
  BY SequencesAreWithin
<1>2. PICK f : Squeezes(f, s, n) /\ Squeezed(s) = f[n]
  BY SqueezedIsFolded
<1>3. PICK g : Accumulates(g, s, n, 1, Times) /\ Numel(s) = g[n]
  BY NumelIsFolded
<1>4. \A k \in 0..n : g[k] \in Nat
  BY <1>1, <1>3, TimesIsMonoid, FoldsStay
<1> DEFINE P == {k \in 0..n : f[k] \in Seq(Nat) /\ Numel(f[k]) = g[k]}
<1>5. 0 \in P
  <2>1. f[0] = <<>> /\ g[0] = 1
    BY <1>2, <1>3 DEF Squeezes, Accumulates
  <2>2. 0 \in 0..n
    BY <1>1
  <2> DEFINE empty == <<>>
  <2>3. empty \in Seq(Nat) /\ Numel(empty) = 1 /\ f[0] = empty
    BY <2>1, NumelEmpty
  <2> HIDE DEF n, empty
  <2> QED  BY <2>1, <2>2, <2>3
<1>6. ASSUME NEW k \in 1..n, k - 1 \in P
      PROVE  k \in P
  <2> DEFINE r == f[k - 1]
             e == s[k]
  <2>1. r \in Seq(Nat) /\ Numel(r) = g[k - 1] /\ e \in Nat /\ k \in 0..n /\ k - 1 \in 0..n
    BY <1>1, <1>6 DEF Within
  <2>2. f[k] = IF e = 1 THEN r ELSE Append(r, e)
    BY <1>2 DEF Squeezes
  <2>3. g[k] = g[k - 1] * e
    <3>1. g[k] = Times[g[k - 1]][e] /\ g[k - 1] \in Nat
      BY <1>3, <1>4, <2>1 DEF Accumulates
    <3> QED  BY <2>1, <3>1 DEF Times
  <2>4. g[k - 1] \in Nat
    BY <1>4, <2>1
  <2> HIDE DEF r, e, n
  <2>5. CASE e = 1
    <3>1. g[k] = g[k - 1]
      BY <2>3, <2>4, <2>5
    <3> QED  BY <2>1, <2>2, <2>5, <3>1
  <2>6. CASE e # 1
    <3>1. Append(r, e) = r \o <<e>> /\ <<e>> \in Seq(Nat)
      BY <2>1, AppendIsConcat
    <3>2. Numel(<<e>>) = e
      BY <2>1, NumelSingle
    <3>3. r \o <<e>> \in Seq(Nat) /\ Numel(r \o <<e>>) = Numel(r) * Numel(<<e>>)
      BY <2>1, <3>1, NumelJoin
    <3>4. f[k] = r \o <<e>>
      BY <2>2, <2>6, <3>1
    <3> QED  BY <2>1, <2>3, <3>2, <3>3, <3>4
  <2> QED  BY <2>5, <2>6
<1>7. n \in P
  <2>1. 0..n \subseteq P
    <3> HIDE DEF P, n
    <3> QED  BY <1>1, <1>5, <1>6, UpTo
  <2>2. n \in 0..n
    BY <1>1
  <2> HIDE DEF P, n
  <2> QED  BY <2>1, <2>2
<1> QED  BY <1>2, <1>3, <1>7

\* squeeze() of all axes preserves the invariant.
LEMMA SqueezeAllKeeps ==
    ASSUME IInv, NEW s \in Slots, NEW d \in Slots, slot[s] # Undefined, SqueezeAll(s, d)
    PROVE  IInv'
<1> DEFINE t == slot[s]
<1>1. Good(t, memory) /\ t.shape \in Seq(Nat)
  BY OperandIsGood, LayoutType
<1>2. Squeezed(t.shape) \in Seq(Nat) /\ Numel(Squeezed(t.shape)) = Numel(t.shape)
  BY <1>1, SqueezedIs
<1>3. Reshaped(d, t, Squeezed(t.shape))
  BY DEF SqueezeAll
<1> HIDE DEF t
<1> QED  BY <1>1, <1>2, <1>3, ReshapedKeeps

\* An axis of one element put in.
LEMMA UnsqueezedIs ==
    ASSUME NEW s \in Seq(Nat), NEW k, Position(k, s)
    PROVE  InsertAt(s, k, 1) \in Seq(Nat) /\ Numel(InsertAt(s, k, 1)) = Numel(s)
<1> DEFINE one == 1
           shape == InsertAt(s, k, one)
           m == Len(s)
           l == Len(shape)
<1>1. m \in Nat /\ k \in 1..m + 1 /\ one \in Nat
  BY LenProperties DEF Position
<1> HIDE DEF one
<1>2. shape \in Seq(Nat) /\ shape[k] = one /\ Omits(s, m, shape, l, k)
  BY <1>1, InsertAtIs
<1> HIDE DEF shape
<1>3. k \in 1..l
  <2>1. m = l - 1 /\ l \in Nat
    BY <1>2 DEF Omits
  <2> HIDE DEF l, m
  <2> QED  BY <1>1, <2>1
<1>4. Numel(shape) = Numel(s) * shape[k] /\ Numel(s) \in Nat
  BY <1>2, <1>3, NumelWithout, NumelType
<1>5. Numel(shape) = Numel(s) * 1
  BY <1>2, <1>4 DEF one
<1> QED  BY <1>2, <1>4, <1>5 DEF shape, one

\* An axis of one element left out.
LEMMA SqueezedAtIs ==
    ASSUME NEW s \in Seq(Nat), NEW k \in 1..Len(s), s[k] = 1
    PROVE  RemoveAt(s, k) \in Seq(Nat) /\ Numel(RemoveAt(s, k)) = Numel(s)
<1> DEFINE shape == RemoveAt(s, k)
<1>1. shape \in Seq(Nat) /\ Omits(shape, Len(shape), s, Len(s), k)
  BY RemoveAtIs
<1> HIDE DEF shape
<1>2. Numel(s) = Numel(shape) * s[k] /\ Numel(shape) \in Nat
  BY <1>1, NumelWithout, NumelType
<1>3. Numel(s) = Numel(shape)
  BY <1>2
<1> QED  BY <1>1, <1>3 DEF shape

\* squeeze() preserves the invariant, whatever its arguments.
LEMMA SqueezeKeeps ==
    ASSUME IInv, NEW s \in Slots, NEW d \in Slots, slot[s] # Undefined, NEW dim \in Int,
           Squeeze(s, d, dim)
    PROVE  IInv'
<1> DEFINE t == slot[s]
           axis == AxisOf(dim, t)
           shape == RemoveAt(t.shape, axis)
<1>1. Good(t, memory) /\ IsLayout(t) /\ t.shape \in Seq(Nat) /\ Extends(memory, memory)
  BY OperandIsGood, LayoutType
<1>2. CASE ~ValidDim(dim, Rank(t))
  BY <1>2, ThrowKeeps DEF Squeeze
<1>3. CASE ValidDim(dim, Rank(t)) /\ t.shape[axis] = 1
  <2>1. Reshaped(d, t, shape)
    BY <1>3 DEF Squeeze
  <2>2. axis \in 1..Len(t.shape)
    BY <1>1, <1>3, AxisInRange
  <2>3. shape \in Seq(Nat) /\ Numel(shape) = Numel(t.shape)
    <3> HIDE DEF axis, t
    <3> QED  BY <1>1, <1>3, <2>2, SqueezedAtIs
  <2> HIDE DEF shape, t
  <2> QED  BY <1>1, <2>1, <2>3, ReshapedKeeps
<1>4. CASE ValidDim(dim, Rank(t)) /\ t.shape[axis] # 1
  <2>1. Return(d, t, memory)
    BY <1>4 DEF Squeeze
  <2> HIDE DEF t
  <2> QED  BY <1>1, <2>1, ReturnKeeps
<1> QED  BY <1>2, <1>3, <1>4

\* unsqueeze() preserves the invariant, whatever its arguments.
LEMMA UnsqueezeKeeps ==
    ASSUME IInv, NEW s \in Slots, NEW d \in Slots, slot[s] # Undefined, NEW dim \in Int,
           Unsqueeze(s, d, dim)
    PROVE  IInv'
<1> DEFINE t == slot[s]
           n == Len(t.shape)
           i == NormalizedDim(dim, n + 1)
           k == i + 1
           shape == InsertAt(t.shape, k, 1)
<1>1. Good(t, memory) /\ t.shape \in Seq(Nat) /\ n \in Nat
  BY OperandIsGood, LayoutType
<1>2. CASE ValidDim(dim, n + 1)
  <2>1. Reshaped(d, t, shape)
    BY <1>2 DEF Unsqueeze, Rank
  <2>2. Position(k, t.shape) /\ k \in 1..n + 1
    <3>1. i \in 0..n + 1 - 1
      BY <1>2 DEF ValidDim
    <3> HIDE DEF i, n
    <3>2. k \in 1..n + 1
      BY <1>1, <3>1
    <3> QED  BY <3>2 DEF Position, n
  <2>3. shape \in Seq(Nat) /\ Numel(shape) = Numel(t.shape)
    <3> HIDE DEF k, t
    <3> QED  BY <1>1, <2>2, UnsqueezedIs
  <2> HIDE DEF shape, t
  <2> QED  BY <1>1, <2>1, <2>3, ReshapedKeeps
<1>3. CASE ~ValidDim(dim, n + 1)
  BY <1>3, ThrowKeeps DEF Unsqueeze, Rank
<1> QED  BY <1>2, <1>3

\* a and b are the same but for the k-th of them.
LEMMA NumelReplaced ==
    ASSUME NEW a \in Seq(Nat), NEW b \in Seq(Nat), NEW k \in 1..Len(a), Replaces(a, b, k),
           b[k] = 1
    PROVE  Numel(a) = Numel(b) * a[k]
<1> DEFINE n == Len(a)
           r == RemoveAt(a, k)
           l == Len(r)
<1>1. n \in Nat /\ Len(b) = n /\ \A i \in 1..n : i # k => a[i] = b[i]
  BY LenProperties DEF Replaces
<1>2. r \in Seq(Nat) /\ Omits(r, l, a, n, k)
  BY RemoveAtIs
<1>3. Numel(a) = Numel(r) * a[k]
  BY <1>2, NumelWithout
<1>4. Omits(r, Len(r), b, Len(b), k)
  <2>1. l = n - 1 /\ \A i \in 1..l : r[i] = IF i < k THEN a[i] ELSE a[i + 1]
    BY <1>2 DEF Omits
  <2>2. k \in 1..n
    OBVIOUS
  <2> HIDE DEF r, l, n
  <2>3. ASSUME NEW i \in 1..l
        PROVE  r[i] = IF i < k THEN b[i] ELSE b[i + 1]
    <3>1. CASE i < k
      <4>1. i \in 1..n /\ i # k
        BY <1>1, <2>1, <3>1
      <4> QED  BY <1>1, <2>1, <3>1, <4>1
    <3>2. CASE ~(i < k)
      <4>1. i + 1 \in 1..n /\ i + 1 # k
        BY <1>1, <2>1, <2>2, <3>2
      <4> QED  BY <1>1, <2>1, <3>2, <4>1
    <3> QED  BY <3>1, <3>2
  <2> QED  BY <1>1, <2>1, <2>3 DEF Omits, l
<1>5. Numel(b) = Numel(r) * b[k]
  <2>1. k \in 1..Len(b)
    BY <1>1
  <2> HIDE DEF r
  <2> QED  BY <1>2, <1>4, <2>1, NumelWithout
<1>6. Numel(r) \in Nat
  BY <1>2, NumelType
<1> HIDE DEF r
<1>7. Numel(b) = Numel(r)
  BY <1>5, <1>6
<1> QED  BY <1>3, <1>7

\* resolved_shape() yields as many elements as there are.
LEMMA ResolvedShapeIs ==
    ASSUME NEW t, t.shape \in Seq(Nat), NEW shape \in Seq(Int), Resolvable(t, shape)
    PROVE  /\ ResolvedShape(t, shape) \in Seq(Nat)
           /\ Numel(ResolvedShape(t, shape)) = Numel(t.shape)
<1> DEFINE n == Len(shape)
           N == Numel(t.shape)
           ones == [i \in 1..n |-> IF shape[i] = -1 THEN 1 ELSE shape[i]]
           known == Numel(ones)
           q == N \div known
           r == ResolvedShape(t, shape)
           Inferred == {i \in 1..n : shape[i] = -1}
<1>1. n \in Nat /\ DOMAIN shape = 1..n /\ \A i \in 1..n : shape[i] \in Int
  BY LenProperties, ElementOfSeq
<1>2. Known(shape) = known
  BY <1>1 DEF Known
<1>3. /\ \A i \in 1..n : shape[i] >= -1
      /\ \/ Inferred = {} /\ known = N
         \/ Cardinality(Inferred) = 1 /\ known # 0 /\ N % known = 0
  BY <1>1, <1>2 DEF Resolvable
<1>4. r = [i \in 1..n |-> IF shape[i] = -1 THEN q ELSE shape[i]]
  BY <1>1, <1>2 DEF ResolvedShape
<1>5. ones \in Seq(Nat) /\ Len(ones) = n /\ N \in Nat
  <2>1. \A i \in 1..n : (IF shape[i] = -1 THEN 1 ELSE shape[i]) \in Nat
    BY <1>1, <1>3
  <2> HIDE DEF n
  <2>2. ones \in [1..n -> Nat]
    BY <2>1
  <2> HIDE DEF ones
  <2> QED  BY <1>1, <2>2, FunctionsAreSequences, NumelType
<1>6. \A i \in 1..n : ones[i] = IF shape[i] = -1 THEN 1 ELSE shape[i]
  OBVIOUS
<1>7. known \in Nat
  BY <1>5, NumelType
<1> SUFFICES r \in Seq(Nat) /\ Numel(r) = N
  OBVIOUS
<1> HIDE DEF ones, r, n, N
<1>8. CASE Inferred = {} /\ known = N
  <2>1. \A i \in 1..n : shape[i] # -1
    BY <1>8
  <2>2. r = [i \in 1..n |-> shape[i]] /\ ones = [i \in 1..n |-> shape[i]]
    BY <1>4, <2>1 DEF ones
  <2> QED  BY <1>5, <1>8, <2>2
<1>9. CASE Cardinality(Inferred) = 1 /\ known # 0 /\ N % known = 0
  <2>1. PICK k : Inferred = {k}
    <3>1. IsFiniteSet(1..n) /\ Inferred \in SUBSET (1..n)
      BY <1>1, FS_Interval
    <3> HIDE DEF Inferred
    <3>2. IsFiniteSet(Inferred)
      BY <3>1, FS_Subset
    <3> QED  BY <1>9, <3>2, FS_Singleton
  <2>2. k \in 1..n /\ shape[k] = -1 /\ \A i \in 1..n : i # k => shape[i] # -1
    BY <2>1
  <2>3. q \in Nat /\ known * q = N
    <3> HIDE DEF known
    <3>1. N \in Nat /\ known \in Nat \ {0}
      BY <1>5, <1>7, <1>9
    <3>2. q \in Nat /\ N = known * q + (N % known)
      BY <3>1, SMT
    <3> HIDE DEF q
    <3>3. known * q \in Nat
      BY <3>1, <3>2
    <3> DEFINE y == known * q
    <3> HIDE DEF y
    <3>4. y \in Nat /\ N = y + 0
      BY <1>9, <3>2, <3>3 DEF y
    <3>5. y = N
      BY <3>4
    <3> QED  BY <3>2, <3>5 DEF y
  <2> HIDE DEF q, known
  <2>4. r \in Seq(Nat) /\ Len(r) = n
    <3>1. \A i \in 1..n : (IF shape[i] = -1 THEN q ELSE shape[i]) \in Nat
      BY <1>1, <1>3, <2>3
    <3>2. r \in [1..n -> Nat]
      BY <1>4, <3>1
    <3> QED  BY <1>1, <3>2, FunctionsAreSequences
  <2>5. r[k] = q /\ ones[k] = 1 /\ Replaces(r, ones, k)
    <3>1. r[k] = q /\ ones[k] = 1
      BY <1>4, <1>6, <2>2
    <3>2. \A i \in 1..n : i # k => r[i] = ones[i]
      BY <1>4, <1>6, <2>2
    <3> QED  BY <1>5, <2>4, <3>1, <3>2 DEF Replaces
  <2>6. Numel(r) = Numel(ones) * r[k]
    <3>1. k \in 1..Len(r)
      BY <2>2, <2>4
    <3> QED  BY <1>5, <2>4, <2>5, <3>1, NumelReplaced
  <2> QED  BY <2>3, <2>4, <2>5, <2>6 DEF known
<1> QED  BY <1>3, <1>8, <1>9

\* reshape() and view() preserve the invariant, whatever the shape requested.
LEMMA ReshapeKeeps ==
    ASSUME IInv, NEW s \in Slots, NEW d \in Slots, slot[s] # Undefined, NEW shape \in Seq(Int),
           Reshape(s, d, shape)
    PROVE  IInv'
<1> DEFINE t == slot[s]
           r == ResolvedShape(t, shape)
<1>1. Good(t, memory) /\ t.shape \in Seq(Nat)
  BY OperandIsGood, LayoutType
<1>2. CASE Resolvable(t, shape)
  <2>1. Reshaped(d, t, r)
    BY <1>2 DEF Reshape
  <2>2. r \in Seq(Nat) /\ Numel(r) = Numel(t.shape)
    BY <1>1, <1>2, ResolvedShapeIs
  <2> HIDE DEF r, t
  <2> QED  BY <1>1, <2>1, <2>2, ReshapedKeeps
<1>3. CASE ~Resolvable(t, shape)
  BY <1>3, ThrowKeeps DEF Reshape
<1> QED  BY <1>2, <1>3

\* s is made of what is before i, from i to j and after j.
InPieces(s, i, j, S) ==
    /\ SubSeq(s, 1, i - 1) \in Seq(S) /\ SubSeq(s, i, j) \in Seq(S)
    /\ SubSeq(s, j + 1, Len(s)) \in Seq(S)
    /\ s = SubSeq(s, 1, i - 1) \o SubSeq(s, i, j) \o SubSeq(s, j + 1, Len(s))

\* A sequence in three pieces.
LEMMA Pieces ==
    ASSUME NEW S, NEW s \in Seq(S), NEW i \in 1..Len(s), NEW j \in 1..Len(s), i <= j
    PROVE  InPieces(s, i, j, S)
<1> DEFINE n == Len(s)
           one == 1
           h == i - 1
           k == j + 1
           m == j - i + 1
           empty == <<>>
           a == SubSeq(s, one, h)
           b == SubSeq(s, i, j)
           c == SubSeq(s, k, n)
<1>1. n \in Nat /\ i \in 1..n /\ j \in 1..n
  BY LenProperties
<1>2. a \in Seq(S) /\ b \in Seq(S) /\ c \in Seq(S)
  <2>1. one \in Nat \ {0} /\ i \in Nat \ {0} /\ k \in Nat \ {0}
    BY <1>1
  <2>2. h \in 0..n /\ j \in 0..n /\ n \in 0..n
    <3> HIDE DEF n
    <3> QED  BY <1>1
  <2> HIDE DEF one, h, k
  <2> QED  BY <2>1, <2>2, SubSeqIs
<1>3. Passes(h, one, h, i) /\ Passes(m, i, j, k)
  <2> HIDE DEF n
  <2> QED  BY <1>1 DEF Passes
<1>4. Position(one, s) /\ Position(i, s) /\ Position(k, s)
  <2>1. one \in 1..n + 1 /\ i \in 1..n + 1 /\ k \in 1..n + 1
    <3> HIDE DEF n
    <3> QED  BY <1>1
  <2> QED  BY <2>1 DEF Position
<1>5. empty \in Seq(S) /\ Rejoined(empty, s, one) = s
  BY JoinedAll
<1> HIDE DEF one, h, k, m, a, b
<1>6. empty \o a = a
  BY <1>2
<1> HIDE DEF empty
<1>7. Rejoined(a, s, i) = s
  <2>1. LET x == empty \o SubSeq(s, one, h)
        IN  x \in Seq(S) /\ Len(x) = Len(empty) + h /\ Rejoined(x, s, i) = Rejoined(empty, s, one)
    BY <1>3, <1>4, <1>5, JoinedMoves
  <2> QED  BY <1>5, <1>6, <2>1 DEF a
<1>8. Rejoined(a \o b, s, k) = Rejoined(a, s, i)
  <2> DEFINE p == i
             q == j
  <2>1. a \in Seq(S) /\ Passes(m, p, q, k) /\ Position(p, s) /\ Position(k, s)
    BY <1>2, <1>3, <1>4
  <2>2. Rejoined(a \o SubSeq(s, p, q), s, k) = Rejoined(a, s, p)
    <3> HIDE DEF p, q
    <3> QED  BY <2>1, JoinedMoves
  <2> QED  BY <2>2 DEF b
<1>9. s = a \o b \o c
  BY <1>7, <1>8 DEF Rejoined
<1> QED  BY <1>2, <1>9 DEF a, b, one, h, k, InPieces

\* The axes from the i-th to the j-th merged into one.
Merged(s, i, j) == SubSeq(s, 1, i - 1) \o <<Numel(SubSeq(s, i, j))>> \o SubSeq(s, j + 1, Len(s))

\* As many elements as before.
LEMMA MergedIs ==
    ASSUME NEW s \in Seq(Nat), NEW i \in 1..Len(s), NEW j \in 1..Len(s), i <= j
    PROVE  Merged(s, i, j) \in Seq(Nat) /\ Numel(Merged(s, i, j)) = Numel(s)
<1> DEFINE before == SubSeq(s, 1, i - 1)
           between == SubSeq(s, i, j)
           after == SubSeq(s, j + 1, Len(s))
           merged == <<Numel(between)>>
           shape == before \o merged \o after
<1>1. before \in Seq(Nat) /\ between \in Seq(Nat) /\ after \in Seq(Nat)
      /\ s = before \o between \o after
  <2>1. InPieces(s, i, j, Nat)
    BY Pieces
  <2> QED  BY <2>1 DEF InPieces
<1>2. Merged(s, i, j) = shape
  BY DEF Merged
<1> HIDE DEF before, between, after
<1>3. Numel(s) = (Numel(before) * Numel(between)) * Numel(after)
  <2>1. before \o between \in Seq(Nat) /\ Numel(before \o between) = Numel(before) * Numel(between)
    BY <1>1, NumelJoin
  <2> DEFINE c == before \o between
  <2> HIDE DEF c
  <2>2. Numel(c \o after) = Numel(c) * Numel(after)
    BY <1>1, <2>1, NumelJoin DEF c
  <2> QED  BY <1>1, <2>1, <2>2 DEF c
<1>4. merged \in Seq(Nat) /\ Numel(merged) = Numel(between)
  BY <1>1, NumelType, NumelSingle
<1> HIDE DEF merged
<1>5. shape \in Seq(Nat) /\ Numel(shape) = (Numel(before) * Numel(merged)) * Numel(after)
  <2>1. before \o merged \in Seq(Nat) /\ Numel(before \o merged) = Numel(before) * Numel(merged)
    BY <1>1, <1>4, NumelJoin
  <2> DEFINE c == before \o merged
  <2> HIDE DEF c
  <2>2. c \o after \in Seq(Nat) /\ Numel(c \o after) = Numel(c) * Numel(after)
    BY <1>1, <2>1, NumelJoin DEF c
  <2> QED  BY <2>1, <2>2 DEF c
<1> HIDE DEF shape
<1>6. Numel(shape) = Numel(s)
  BY <1>3, <1>4, <1>5
<1> QED  BY <1>2, <1>5, <1>6

\* flatten() preserves the invariant, whatever its arguments.
LEMMA FlattenKeeps ==
    ASSUME IInv, NEW s \in Slots, NEW d \in Slots, slot[s] # Undefined,
           NEW first \in Int, NEW last \in Int, Flatten(s, d, first, last)
    PROVE  IInv'
<1> DEFINE t == slot[s]
           i == AxisOf(first, t)
           j == AxisOf(last, t)
           shape == Merged(t.shape, i, j)
<1>1. Good(t, memory) /\ IsLayout(t) /\ t.shape \in Seq(Nat)
  BY OperandIsGood, LayoutType
<1>2. CASE ValidDim(first, Rank(t)) /\ ValidDim(last, Rank(t)) /\ i <= j
  <2>1. Reshaped(d, t, shape)
    BY <1>2 DEF Flatten, Rank, Merged
  <2>2. i \in 1..Len(t.shape) /\ j \in 1..Len(t.shape) /\ i <= j
    BY <1>1, <1>2, AxisInRange
  <2> HIDE DEF t, i, j
  <2>3. shape \in Seq(Nat) /\ Numel(shape) = Numel(t.shape)
    BY <1>1, <2>2, MergedIs
  <2> HIDE DEF shape
  <2> QED  BY <1>1, <2>1, <2>3, ReshapedKeeps
<1>3. CASE ~(ValidDim(first, Rank(t)) /\ ValidDim(last, Rank(t)) /\ i <= j)
  BY <1>3, ThrowKeeps DEF Flatten
<1> QED  BY <1>2, <1>3

\* contiguous() preserves the invariant.
LEMMA ContiguousKeeps ==
    ASSUME IInv, NEW s \in Slots, NEW d \in Slots, slot[s] # Undefined, Contiguous(s, d)
    PROVE  IInv'
<1> DEFINE t == slot[s]
<1>1. /\ Good(t, memory) /\ t.shape \in Seq(Nat) /\ memory \in Seq(Seq(Int))
      /\ Extends(memory, memory)
  BY OperandIsGood, LayoutType
<1>2. CASE IsContiguous(t)
  <2>1. Return(d, t, memory)
    BY <1>2 DEF Contiguous
  <2> HIDE DEF t
  <2> QED  BY <1>1, <2>1, ReturnKeeps
<1>3. CASE ~IsContiguous(t)
  <2> DEFINE data == Materialized(t)
             shape == t.shape
  <2>1. data \in Seq(Int) /\ Len(data) = Numel(shape)
    BY <1>1, MaterializedIs
  <2>2. Fresh(d, shape, data)
    BY <1>3 DEF Contiguous
  <2>3. shape \in Seq(Nat)
    BY <1>1
  <2> HIDE DEF data, shape
  <2> QED  BY <2>1, <2>2, <2>3, FreshKeeps
<1> QED  BY <1>2, <1>3

\* copy() preserves the invariant.
LEMMA CopyKeeps ==
    ASSUME IInv, NEW s \in Slots, NEW d \in Slots, slot[s] # Undefined, Copy(s, d)
    PROVE  IInv'
<1> DEFINE t == slot[s]
           n == Len(memory) + 1
           data == memory[t.storage]
           storages == Append(memory, data)
           u == [t EXCEPT !.storage = n]
<1>1. Good(t, memory) /\ IsLayout(t) /\ memory \in Seq(Seq(Int))
  BY OperandIsGood
<1>2. data \in Seq(Int)
  <2>1. DOMAIN memory = 1..Len(memory) /\ t.storage \in DOMAIN memory
    BY <1>1, LenProperties DEF Good
  <2> QED  BY <1>1, <2>1, ElementOfSeq
<1>3. Return(d, u, storages)
  BY DEF Copy
<1>4. /\ u.shape = t.shape /\ u.strides = t.strides /\ u.offset = t.offset /\ u.storage = n
      /\ u = [t EXCEPT !.storage = n] /\ t \in Layout
  BY <1>1 DEF IsLayout, Layout
<1>5. Extends(storages, memory) /\ n \in DOMAIN storages /\ storages[n] = data /\ n \in Nat
  <2> HIDE DEF data
  <2> QED  BY <1>1, <1>2, AppendExtends
<1>6. Sound(t, Len(data))
  BY <1>1 DEF Good
<1> HIDE DEF t, n, data, storages, u
<1>7. IsLayout(u)
  <2>1. u \in Layout
    BY <1>4, <1>5 DEF Layout
  <2> QED  BY <1>1, <1>4, <2>1 DEF IsLayout
<1>8. Sound(u, Len(data))
  BY <1>4, <1>6, <1>7 DEF Sound, Place
<1>9. Good(u, storages)
  BY <1>4, <1>5, <1>8 DEF Good
<1> QED  BY <1>3, <1>5, <1>9, ReturnKeeps

\* from_vector() preserves the invariant.
LEMMA FromVectorKeeps ==
    ASSUME IInv, NEW d \in Slots, NEW shape \in Seq(Nat), NEW size \in Nat,
           FromVector(d, shape, size)
    PROVE  IInv'
<1> DEFINE k == Numel(shape)
           data == [n \in 1..k |-> n]
<1>1. k \in Nat
  BY NumelType
<1>2. CASE k # size
  <2>1. Throw
    BY <1>2 DEF FromVector
  <2> QED  BY <2>1, ThrowKeeps
<1> SUFFICES ASSUME k = size PROVE IInv'
  BY <1>2
<1>3. Fresh(d, shape, data)
  BY DEF FromVector
<1>4. data \in Seq(Int) /\ Len(data) = Numel(shape)
  <2> HIDE DEF k
  <2>1. data \in [1..k -> Int]
    OBVIOUS
  <2> HIDE DEF data
  <2> QED  BY <1>1, <2>1, FunctionsAreSequences DEF k
<1> HIDE DEF data
<1> QED  BY <1>4, <1>3, FreshKeeps

-----------------------------------------------------------------------------
(* Behaviours                                                                *)

\* Without tensors the invariant holds.
LEMMA Initially == Init => IInv
<1> SUFFICES ASSUME Init PROVE IInv
  OBVIOUS
<1>1. slot = [s \in Slots |-> Undefined] /\ memory = <<>> /\ threw = FALSE /\ calls = 0
  BY DEF Init
<1>2. memory \in Seq(Seq(Int))
  BY <1>1
<1>3. slot = [s \in Slots |-> slot[s]] /\ \A s \in Slots : slot[s] = Undefined
  BY <1>1, Zenon
<1>4. calls \in 0..MaxCalls
  BY <1>1, MaxCallsAssumption
<1> QED  BY <1>1, <1>2, <1>3, <1>4, Zenon DEF IInv, AllGood

\* Each call on a tensor preserves the invariant.
LEMMA CallKeeps ==
    ASSUME IInv, NEW s \in Slots, NEW d \in Slots, slot[s] # Undefined, OneOperand(s, d)
    PROVE  IInv'
<1>1. /\ \A x \in Inputs.shapes \cup Inputs.permutations : x \in Seq(Int)
      /\ \A x \in Inputs.subscripts : x \in Seq(Component)
      /\ \A b \in Inputs.slices : b[1] \in Int /\ b[2] \in Int /\ b[3] \in Int
      /\ Inputs.dims \subseteq Int /\ Inputs.indices \subseteq Int /\ Inputs.counts \subseteq Int
  BY InputsAssumption
<1>2. ASSUME NEW dim \in Inputs.dims, NEW i \in Inputs.indices, Select(s, d, dim, i)
      PROVE  IInv'
  <2>1. dim \in Int /\ i \in Int
    BY <1>1, Zenon
  <2> QED  BY <1>2, <2>1, SelectKeeps, Zenon
<1>3. ASSUME NEW dim \in Inputs.dims, NEW b \in Inputs.slices, Slice(s, d, dim, b[1], b[2], b[3])
      PROVE  IInv'
  <2>1. dim \in Int /\ b[1] \in Int /\ b[2] \in Int /\ b[3] \in Int
    BY <1>1, Zenon
  <2> QED  BY <1>3, <2>1, SliceKeeps, Zenon
<1>4. ASSUME NEW x \in Inputs.subscripts, Index(s, d, x)
      PROVE  IInv'
  <2>1. x \in Seq(Component)
    BY <1>1, Zenon
  <2> QED  BY <1>4, <2>1, IndexKeeps, Zenon
<1>5. ASSUME NEW x \in Inputs.shapes, Reshape(s, d, x) \/ View(s, d, x)
      PROVE  IInv'
  <2>1. x \in Seq(Int) /\ Reshape(s, d, x)
    BY <1>1, <1>5, Zenon DEF View
  <2> QED  BY <2>1, ReshapeKeeps, Zenon
<1>6. ASSUME NEW i \in Inputs.dims, NEW j \in Inputs.dims,
             Flatten(s, d, i, j) \/ Transpose(s, d, i, j)
      PROVE  IInv'
  <2>1. i \in Int /\ j \in Int
    BY <1>1, Zenon
  <2> QED  BY <1>6, <2>1, FlattenKeeps, TransposeKeeps, Zenon
<1>7. ASSUME NEW dim \in Inputs.dims, Unsqueeze(s, d, dim) \/ Squeeze(s, d, dim)
      PROVE  IInv'
  <2>1. dim \in Int
    BY <1>1, Zenon
  <2> QED  BY <1>7, <2>1, UnsqueezeKeeps, SqueezeKeeps, Zenon
<1>8. ASSUME NEW p \in Inputs.permutations, Permute(s, d, p)
      PROVE  IInv'
  <2>1. p \in Seq(Int)
    BY <1>1, Zenon
  <2> QED  BY <1>8, <2>1, PermuteKeeps, Zenon
<1>9. ASSUME NEW n \in Inputs.counts, NEW dim \in Inputs.dims, NEW k \in 1..2,
             Split(s, d, n, dim, k) \/ Chunk(s, d, n, dim, k)
      PROVE  IInv'
  <2>1. n \in Int /\ dim \in Int
    BY <1>1, Zenon
  <2>2. k \in Nat \ {0}
    OBVIOUS
  <2> QED  BY <1>9, <2>1, <2>2, SplitKeeps, ChunkKeeps, Zenon
<1>10. ASSUME SqueezeAll(s, d) \/ Contiguous(s, d) \/ Copy(s, d)
       PROVE  IInv'
  BY <1>10, SqueezeAllKeeps, ContiguousKeeps, CopyKeeps, Zenon
<1> QED
  BY <1>2, <1>3, <1>4, <1>5, <1>6, <1>7, <1>8, <1>9, <1>10, Zenon DEF OneOperand

\* Each step preserves the invariant.
LEMMA NextKeeps == IInv /\ [Next]_vars => IInv'
<1> SUFFICES ASSUME IInv, [Next]_vars PROVE IInv'
  OBVIOUS
<1>1. ASSUME NEW d \in Slots, NEW v \in Inputs.vectors, FromVector(d, v.shape, v.size)
      PROVE  IInv'
  <2>1. v.shape \in Seq(Nat) /\ v.size \in Nat
    BY InputsAssumption, Zenon
  <2> QED  BY <1>1, <2>1, FromVectorKeeps, Zenon
<1>2. ASSUME NEW s \in Slots, CallOnUndefined(s)
      PROVE  IInv'
  BY <1>2, ThrowKeeps, Zenon DEF CallOnUndefined
<1>3. ASSUME NEW s \in Slots, NEW d \in Slots, slot[s] # Undefined, OneOperand(s, d)
      PROVE  IInv'
  BY <1>3, CallKeeps, Zenon
<1>4. CASE UNCHANGED vars
  BY <1>4, Zenon DEF vars, IInv
<1> QED  BY <1>1, <1>2, <1>3, <1>4, Zenon DEF Next

(* Every tensor, whatever chain of calls led to it, is sound: its elements   *)
(* lie in its storage and no two of them share a place.                      *)
THEOREM Invariance == Spec => []IInv
<1> QED  BY Initially, NextKeeps, PTL DEF Spec

\* Sound tensors: every element in the storage and no two in one place.
LEMMA GoodAddresses == IInv => TypeOK
<1> SUFFICES ASSUME IInv PROVE TypeOK
  OBVIOUS
<1>1. ASSUME NEW s \in Defined
      PROVE  /\ slot[s].shape \in Seq(Nat) /\ slot[s].strides \in Seq(Int)
             /\ Len(slot[s].strides) = Rank(slot[s]) /\ slot[s].offset \in Nat
             /\ slot[s].storage \in DOMAIN memory
             /\ Addresses(slot[s]) \subseteq 0..Len(memory[slot[s].storage]) - 1
             /\ Cardinality(Addresses(slot[s])) = Numel(slot[s].shape)
  <2> DEFINE t == slot[s]
             size == Len(memory[t.storage])
  <2>1. memory \in Seq(Seq(Int)) /\ Good(t, memory)
    BY DEF Defined, IInv, AllGood
  <2>2. t.storage \in DOMAIN memory /\ Sound(t, size)
    BY <2>1 DEF Good
  <2>3. size \in Nat
    BY <2>1, <2>2, LenProperties
  <2> HIDE DEF t, size
  <2>4. IsLayout(t) /\ t.offset \in Nat
    BY <2>2 DEF Sound
  <2>5. Addresses(t) \subseteq 0..size - 1 /\ Cardinality(Addresses(t)) = Numel(t.shape)
    BY <2>2, <2>3, SoundAddresses
  <2> QED  BY <2>2, <2>4, <2>5, LayoutType, Zenon DEF t, size, Rank
<1> QED  BY <1>1, Zenon DEF TypeOK, IInv, AllGood

\* is_contiguous() decides about a sound tensor's layout as it should.
LEMMA GoodConsecutive == IInv => ContiguousMeansConsecutive
<1> SUFFICES ASSUME IInv, NEW s \in Slots, slot[s] # Undefined
             PROVE  IsContiguous(slot[s]) <=>
                        \A n \in 0..Numel(slot[s].shape) - 1 : Address(slot[s], n) = slot[s].offset + n
  BY Zenon DEF ContiguousMeansConsecutive, Defined
<1> DEFINE t == slot[s]
<1>1. IsLayout(t)
  BY DEF IInv, AllGood, Good, Sound
<1> HIDE DEF t
<1>2. IsContiguous(t) <=> \A n \in 0..Numel(t.shape) - 1 : Address(t, n) = t.offset + n
  BY <1>1, ContiguousConsecutive
<1> QED  BY <1>2, Zenon DEF t

(* TypeOK: for any shapes, arguments, number of tensors and length of the    *)
(* chain of calls, numel() distinct addresses inside the storage for every   *)
(* tensor that validate_layout() let through.                                *)
THEOREM TypesHold == Spec => []TypeOK
<1> QED  BY Invariance, GoodAddresses, PTL

(* ContiguousMeansConsecutive: is_contiguous() holds exactly of the tensors  *)
(* whose elements follow one another in the storage.                         *)
THEOREM ContiguousIsConsecutive == Spec => []ContiguousMeansConsecutive
<1> QED  BY Invariance, GoodConsecutive, PTL
-----------------------------------------------------------------------------
(* What a caller sees.                                                       *)

\* The array of a tensor, its elements in given storages.
Shown(t, storages) ==
    [shape |-> t.shape,
     data |-> [n \in 1..Numel(t.shape) |-> storages[t.storage][Address(t, n - 1) + 1]]]

\* The elements of an array at other coordinates.
Through(a, shape, M) ==
    [shape |-> shape,
     data |-> [n \in 1..Numel(shape) |-> a.data[Ravel(M[Unravel(n - 1, shape)], a.shape) + 1]]]

\* Numbers from 1 and from 0.
LEMMA OneMore ==
    ASSUME NEW N \in Nat, NEW n \in 0..N - 1
    PROVE  n + 1 \in 1..N /\ (n + 1) - 1 = n
OBVIOUS

\* An element of a tensor's array is the one at its address.
LEMMA ShownAt ==
    ASSUME NEW t, IsLayout(t), NEW storages, NEW c \in Coordinates(t.shape)
    PROVE  Shown(t, storages).data[Ravel(c, t.shape) + 1] = storages[t.storage][Place(t, c) + 1]
<1> DEFINE n == Ravel(c, t.shape)
           N == Numel(t.shape)
<1>1. t.shape \in Seq(Nat)
  BY LayoutType
<1>2. N \in Nat /\ n \in 0..N - 1
  BY <1>1, NumelType, RavelRange
<1>3. Address(t, n) = Place(t, c)
  <2>1. Unravel(n, t.shape) = c
    BY <1>1, UnravelOfRavel
  <2> HIDE DEF n
  <2> QED  BY <2>1 DEF Address, Place
<1>4. Shown(t, storages).data = [i \in 1..N |-> storages[t.storage][Address(t, i - 1) + 1]]
  BY DEF Shown
<1> HIDE DEF n, N
<1>5. n + 1 \in 1..N /\ (n + 1) - 1 = n
  BY <1>2, OneMore
<1> DEFINE m == n + 1
<1>6. m \in 1..N /\ m - 1 = n
  BY <1>5
<1> HIDE DEF m
<1>7. Shown(t, storages).data[m] = storages[t.storage][Address(t, m - 1) + 1]
  BY <1>4, <1>6
<1>8. Shown(t, storages).data[m] = storages[t.storage][Place(t, c) + 1]
  BY <1>3, <1>6, <1>7
<1> QED  BY <1>8 DEF m, n

\* The coordinate of every element.
LEMMA Numbered ==
    ASSUME NEW shape \in Seq(Nat)
    PROVE  \A n \in 1..Numel(shape) : Unravel(n - 1, shape) \in Coordinates(shape)
<1> DEFINE N == Numel(shape)
<1>1. N \in Nat
  BY NumelType
<1>2. ASSUME NEW n \in 1..N
      PROVE  Unravel(n - 1, shape) \in Coordinates(shape)
  <2> DEFINE m == n - 1
  <2>1. m \in 0..N - 1
    <3> HIDE DEF N
    <3> QED  BY <1>1
  <2> HIDE DEF m
  <2>2. Unravel(m, shape) \in Coordinates(shape)
    BY <2>1, UnravelDigits
  <2> QED  BY <2>2 DEF m
<1> QED  BY <1>2

\* A view shows the elements of the tensor it is a view of.
LEMMA ViewsShow ==
    ASSUME NEW t, NEW u, NEW M, NEW storages, IsLayout(t), IsView(u, t, M)
    PROVE  Shown(u, storages) = Through(Shown(t, storages), u.shape, M)
<1> DEFINE N == Numel(u.shape)
           a == Shown(t, storages)
<1>1. u.shape \in Seq(Nat) /\ a.shape = t.shape /\ u.storage = t.storage
  BY LayoutType DEF IsView, Shown
<1>2. N \in Nat
  BY <1>1, NumelType
<1>3. ASSUME NEW n \in 1..N
      PROVE  storages[u.storage][Address(u, n - 1) + 1] = a.data[Ravel(M[Unravel(n - 1, u.shape)], a.shape) + 1]
  <2> DEFINE m == n - 1
             c == Unravel(m, u.shape)
  <2>1. m \in 0..N - 1
    <3> HIDE DEF N
    <3> QED  BY <1>2
  <2>2. c \in Coordinates(u.shape)
    <3> HIDE DEF m
    <3> QED  BY <1>1, <2>1, UnravelDigits
  <2>3. Address(u, m) = Place(u, c)
    BY DEF Address, Place
  <2> HIDE DEF c
  <2>4. M[c] \in Coordinates(t.shape) /\ Place(u, c) = Place(t, M[c])
    BY <2>2 DEF IsView
  <2>5. a.data[Ravel(M[c], t.shape) + 1] = storages[t.storage][Place(t, M[c]) + 1]
    <3> DEFINE e == M[c]
    <3>1. e \in Coordinates(t.shape)
      BY <2>4
    <3> HIDE DEF e
    <3>2. a.data[Ravel(e, t.shape) + 1] = storages[t.storage][Place(t, e) + 1]
      BY <3>1, ShownAt
    <3> QED  BY <3>2 DEF e
  <2> HIDE DEF m, a
  <2>6. storages[u.storage][Address(u, m) + 1] = a.data[Ravel(M[c], a.shape) + 1]
    BY <1>1, <2>3, <2>4, <2>5
  <2> QED  BY <2>6 DEF m, c
<1> HIDE DEF a
<1>4. [n \in 1..N |-> storages[u.storage][Address(u, n - 1) + 1]]
        = [n \in 1..N |-> a.data[Ravel(M[Unravel(n - 1, u.shape)], a.shape) + 1]]
  BY <1>3, Zenon
<1> QED  BY <1>4 DEF Shown, Through, a

\* The row-major arithmetic of TensorValues is that of the tensors: the number
\* of elements,
LEMMA SameNumel == \A s : Values!Numel(s) = Numel(s)
BY DEF Numel, Values!Numel, Folded, Values!Folded

\* strides,
LEMMA SameStrides == \A s : Values!ContiguousStrides(s) = ContiguousStrides(s)
BY SameNumel DEF ContiguousStrides, Values!ContiguousStrides

\* the number of a coordinate
LEMMA SameRavel == \A c, s : Values!Ravel(c, s) = Ravel(c, s)
<1>1. \A s : Values!Total(s) = Total(s)
  BY DEF Total, Values!Total, Folded, Values!Folded
<1> QED  BY <1>1, SameStrides DEF Ravel, Values!Ravel, Dot, Values!Dot

\* and back.
LEMMA SameUnravel == \A n, s : Values!Unravel(n, s) = Unravel(n, s)
BY SameStrides DEF Unravel, Values!Unravel

\* So are its operators on sequences,
LEMMA SameSequences ==
    /\ \A s, k : Values!RemoveAt(s, k) = RemoveAt(s, k)
    /\ \A s, k, e : Values!InsertAt(s, k, e) = InsertAt(s, k, e)
<1>1. \A s, k : Values!RemoveAt(s, k) = RemoveAt(s, k)
  BY DEF RemoveAt, Values!RemoveAt
<1>2. \A s, k, e : Values!InsertAt(s, k, e) = InsertAt(s, k, e)
  BY DEF InsertAt, Values!InsertAt
<1> QED  BY <1>1, <1>2

\* on sets of numbers,
LEMMA SameBounds == \A S : Values!Max(S) = Max(S) /\ Values!Min(S) = Min(S)
BY DEF Max, Values!Max, Min, Values!Min

\* on functions
LEMMA SameInjective == \A f : Values!IsInjective(f) = IsInjective(f)
BY DEF IsInjective, Values!IsInjective

\* and on shapes.
LEMMA SameSqueezed == \A s : Values!Squeezed(s) = Squeezed(s)
BY DEF Squeezed, Values!Squeezed, Folded, Values!Folded

\* Picking one index of an axis puts it into every coordinate.
LEMMA PickIs ==
    ASSUME NEW a, NEW k, NEW i, NEW shape \in Seq(Nat), shape = RemoveAt(a.shape, k),
           NEW M, \A c \in Coordinates(shape) : M[c] = InsertAt(c, k, i)
    PROVE  Values!Pick(a, k, i) = Through(a, shape, M)
<1> DEFINE N == Numel(shape)
<1>1. \A n \in 1..N : M[Unravel(n - 1, shape)] = InsertAt(Unravel(n - 1, shape), k, i)
  BY Numbered
<1>2. [n \in 1..N |-> a.data[Ravel(M[Unravel(n - 1, shape)], a.shape) + 1]]
        = [n \in 1..N |-> a.data[Ravel(InsertAt(Unravel(n - 1, shape), k, i), a.shape) + 1]]
  BY <1>1, Zenon
<1>3. Values!Pick(a, k, i) =
        [shape |-> shape,
         data |-> [n \in 1..N |-> a.data[Ravel(InsertAt(Unravel(n - 1, shape), k, i), a.shape) + 1]]]
  BY SameNumel, SameRavel, SameUnravel, SameSequences DEF Values!Pick, Values!Array, Values!At
<1> QED  BY <1>2, <1>3 DEF Through

\* Adding an axis leaves it out of every coordinate.
LEMMA WithAxisIs ==
    ASSUME NEW a, NEW k, NEW shape \in Seq(Nat), shape = InsertAt(a.shape, k, 1),
           NEW M, \A c \in Coordinates(shape) : M[c] = RemoveAt(c, k)
    PROVE  Values!WithAxis(a, k) = Through(a, shape, M)
<1> DEFINE N == Numel(shape)
<1>1. \A n \in 1..N : M[Unravel(n - 1, shape)] = RemoveAt(Unravel(n - 1, shape), k)
  BY Numbered
<1>2. [n \in 1..N |-> a.data[Ravel(M[Unravel(n - 1, shape)], a.shape) + 1]]
        = [n \in 1..N |-> a.data[Ravel(RemoveAt(Unravel(n - 1, shape), k), a.shape) + 1]]
  BY <1>1, Zenon
<1>3. Values!WithAxis(a, k) =
        [shape |-> shape,
         data |-> [n \in 1..N |-> a.data[Ravel(RemoveAt(Unravel(n - 1, shape), k), a.shape) + 1]]]
  BY SameNumel, SameRavel, SameUnravel, SameSequences DEF Values!WithAxis, Values!Array, Values!At
<1> QED  BY <1>2, <1>3 DEF Through

\* What M and a shape have to be to take the positions p of the k-th axis, and
\* to permute the axes.
Takes(M, shape, a, k, p) ==
    /\ shape = [a.shape EXCEPT ![k] = Len(p)]
    /\ \A c \in Coordinates(shape) : M[c] = [c EXCEPT ![k] = p[c[k] + 1]]
Lists(M, shape, a, axes, p) ==
    /\ axes = 1..Len(a.shape) /\ shape = [i \in axes |-> a.shape[p[i]]]
    /\ \A c \in Coordinates(shape) : M[c] = [k \in axes |-> c[Inverse(p, axes, axes)[k]]]

\* Taking positions of an axis looks one up for every coordinate.
LEMMA TakeIs ==
    ASSUME NEW a, NEW k, NEW p, NEW shape \in Seq(Nat), NEW M, Takes(M, shape, a, k, p)
    PROVE  Values!Take(a, k, p) = Through(a, shape, M)
<1> DEFINE N == Numel(shape)
           at(c) == [c EXCEPT ![k] = p[c[k] + 1]]
<1>1. \A n \in 1..N : M[Unravel(n - 1, shape)] = at(Unravel(n - 1, shape))
  BY Numbered DEF Takes
<1>2. Values!Take(a, k, p) =
        [shape |-> shape, data |-> [n \in 1..N |-> a.data[Ravel(at(Unravel(n - 1, shape)), a.shape) + 1]]]
  BY SameNumel, SameRavel, SameUnravel DEF Takes, Values!Take, Values!Array, Values!At
<1> HIDE DEF at
<1>3. [n \in 1..N |-> a.data[Ravel(M[Unravel(n - 1, shape)], a.shape) + 1]]
        = [n \in 1..N |-> a.data[Ravel(at(Unravel(n - 1, shape)), a.shape) + 1]]
  BY <1>1, Zenon
<1> QED  BY <1>2, <1>3 DEF Through

\* Permuting the axes looks up the place of every one.
LEMMA PermutedIs ==
    ASSUME NEW a, NEW p, NEW axes, NEW shape \in Seq(Nat), NEW M, Lists(M, shape, a, axes, p)
    PROVE  Values!Permuted(a, p) = Through(a, shape, M)
<1> DEFINE N == Numel(shape)
           q == Inverse(p, axes, axes)
           at(c) == [k \in axes |-> c[q[k]]]
<1>1. \A m \in 1..N : M[Unravel(m - 1, shape)] = at(Unravel(m - 1, shape))
  BY Numbered DEF Lists
<1>2. Values!Inverse(p, axes, axes) = q
  BY Zenon DEF Inverse, Values!Inverse, Range, Values!Range
<1> HIDE DEF q
<1>3. Values!Permuted(a, p) =
        [shape |-> shape, data |-> [m \in 1..N |-> a.data[Ravel(at(Unravel(m - 1, shape)), a.shape) + 1]]]
  BY <1>2, SameNumel, SameRavel, SameUnravel, Zenon
     DEF Lists, Values!Permuted, Values!Array, Values!At
<1> HIDE DEF at
<1>4. [m \in 1..N |-> a.data[Ravel(M[Unravel(m - 1, shape)], a.shape) + 1]]
        = [m \in 1..N |-> a.data[Ravel(at(Unravel(m - 1, shape)), a.shape) + 1]]
  BY <1>1, Zenon
<1> QED  BY <1>3, <1>4 DEF Through

\* What is left without the k-th element.
LEMMA OmittedIs ==
    ASSUME NEW S, NEW s \in Seq(S), NEW r \in Seq(S), NEW k \in 1..Len(s),
           Omits(r, Len(r), s, Len(s), k)
    PROVE  RemoveAt(s, k) = r
<1> DEFINE q == RemoveAt(s, k)
<1>1. q \in Seq(S) /\ Omits(q, Len(q), s, Len(s), k)
  BY RemoveAtIs
<1> HIDE DEF q
<1>2. Len(q) = Len(r) /\ \A i \in 1..Len(r) : q[i] = r[i]
  BY <1>1 DEF Omits
<1>3. q = r
  BY <1>1, <1>2, SeqEqual
<1> QED  BY <1>3 DEF q

\* r is s without its k-th element, e.
Drops(r, s, k, e, S) ==
    /\ s \in Seq(S) /\ r \in Seq(S) /\ k \in 1..Len(s) /\ e \in S /\ s[k] = e
    /\ Omits(r, Len(r), s, Len(s), k)

\* A sequence with and without its k-th element.
LEMMA InsertedIs ==
    ASSUME NEW S, NEW s, NEW r, NEW k, NEW e, Drops(r, s, k, e, S)
    PROVE  InsertAt(r, k, e) = s
<1> SUFFICES ASSUME s \in Seq(S), r \in Seq(S), k \in 1..Len(s), e \in S, s[k] = e,
                    Omits(r, Len(r), s, Len(s), k)
             PROVE  InsertAt(r, k, e) = s
  BY DEF Drops
<1> DEFINE q == InsertAt(r, k, e)
<1>1. Len(s) \in Nat /\ Len(r) \in Nat /\ Len(r) = Len(s) - 1
  BY LenProperties DEF Omits
<1>2. Position(k, r)
  BY <1>1 DEF Position
<1>3. q \in Seq(S) /\ q[k] = e /\ Omits(r, Len(r), q, Len(q), k)
  BY <1>2, InsertAtIs
<1> HIDE DEF q
<1>4. Len(q) \in Nat /\ Len(r) = Len(q) - 1
  BY <1>3, LenProperties DEF Omits
<1>5. Len(q) = Len(s)
  BY <1>1, <1>4
<1>6. ASSUME NEW j \in 1..Len(s)
      PROVE  q[j] = s[j]
  <2>1. CASE j < k
    <3>1. j \in 1..Len(r)
      BY <1>1, <2>1
    <3>2. r[j] = q[j] /\ r[j] = s[j]
      BY <1>3, <2>1, <3>1 DEF Omits
    <3> QED  BY <3>2
  <2>2. CASE j = k
    BY <1>3, <2>2
  <2>3. CASE j > k
    <3> DEFINE i == j - 1
    <3>1. i \in 1..Len(r) /\ ~(i < k) /\ i + 1 = j
      BY <1>1, <2>3
    <3> HIDE DEF i
    <3>2. r[i] = q[i + 1] /\ r[i] = s[i + 1]
      BY <1>3, <3>1 DEF Omits
    <3> QED  BY <3>1, <3>2
  <2> QED  BY <2>1, <2>2, <2>3
<1>7. q = s
  BY <1>3, <1>5, <1>6, SeqEqual
<1> QED  BY <1>7 DEF q

\* Vectors are sequences.
LEMMA VectorsAreSequences ==
    ASSUME NEW S, NEW n \in Nat, NEW c, Vector(c, n, S)
    PROVE  c \in Seq(S) /\ Len(c) = n
BY FunctionsAreSequences DEF Vector

\* A coordinate of an array of l dimensions gains the index a at axis k of n.
Gains(c, l, n, k, a) ==
    n \in Nat /\ k \in 1..n /\ OneLess(l, n) /\ Vector(c, l, Nat) /\ a \in Nat

\* Then it is a coordinate of an array of n dimensions.
LEMMA GainedCoordinates ==
    ASSUME NEW c, NEW l, NEW n, NEW k, NEW a, Gains(c, l, n, k, a)
    PROVE  /\ Vector(Inserted(c, n, k, a), n, Nat) /\ Inserted(c, n, k, a)[k] = a
           /\ Omits(c, l, Inserted(c, n, k, a), n, k)
<1>1. n \in Nat /\ k \in 1..n /\ OneLess(l, n) /\ Vector(c, l, Nat) /\ a \in Nat
  BY DEF Gains
<1> QED  BY <1>1, InsertedCoordinates

\* A permutation lists every index.
Onto(p, n) == \A j \in 1..n : \E i \in 1..n : p[i] = j
LEMMA RearrangingIsOnto ==
    ASSUME NEW n \in Nat, NEW p, Rearranges(p, n)
    PROVE  Onto(p, n)
BY EveryIndexListed DEF Onto

\* select() picks an index of an axis.
LEMMA SelectionShown ==
    ASSUME NEW t, NEW u, NEW storages, IsLayout(t), IsLayout(u), NEW k \in 1..Len(t.shape),
           NEW i \in 0..t.shape[k] - 1, Selects(u, t, k, i)
    PROVE  Values!Pick(Shown(t, storages), k, i) = Shown(u, storages)
<1> DEFINE n == Len(t.shape)
           l == Len(u.shape)
           a == Shown(t, storages)
           M == Selecting(u, t, k, i)
<1>1. /\ n \in Nat /\ l \in Nat /\ t.shape \in Seq(Nat) /\ u.shape \in Seq(Nat)
      /\ t.shape[k] \in Nat
  BY LayoutType
<1>2. a.shape = t.shape
  BY DEF Shown
<1>3. Omits(u.shape, l, t.shape, n, k)
  BY DEF Selects
<1>4. u.shape = RemoveAt(a.shape, k)
  <2> HIDE DEF a
  <2>1. RemoveAt(t.shape, k) = u.shape
    BY <1>1, <1>3, OmittedIs
  <2> QED  BY <1>2, <2>1
<1>5. i \in Nat /\ OneLess(l, n)
  <2>1. l = n - 1
    BY <1>3 DEF Omits
  <2> HIDE DEF n, l
  <2> QED  BY <1>1, <2>1, SMT DEF OneLess
<1>6. ASSUME NEW c \in Coordinates(u.shape)
      PROVE  M[c] = InsertAt(c, k, i)
  <2> DEFINE d == Inserted(c, n, k, i)
  <2>1. M[c] = d
    BY DEF Selecting
  <2>2. Vector(c, l, Nat)
    BY <1>1, CoordinatesType DEF Vector
  <2>3. Vector(d, n, Nat) /\ d[k] = i /\ Omits(c, l, d, n, k)
    <3> HIDE DEF n, l
    <3>1. k \in 1..n
      BY DEF n
    <3>2. Gains(c, l, n, k, i)
      BY <1>1, <1>5, <2>2, <3>1 DEF Gains
    <3> QED  BY <3>2, GainedCoordinates
  <2>4. c \in Seq(Nat) /\ Len(c) = l /\ d \in Seq(Nat) /\ Len(d) = n
    <3> HIDE DEF n, l, d
    <3> QED  BY <1>1, <2>2, <2>3, VectorsAreSequences
  <2>5. InsertAt(c, k, i) = d
    <3> HIDE DEF d
    <3>1. k \in 1..Len(d) /\ Omits(c, Len(c), d, Len(d), k)
      BY <2>3, <2>4
    <3>2. Drops(c, d, k, i, Nat)
      BY <1>5, <2>3, <2>4, <3>1 DEF Drops
    <3> HIDE DEF n, l
    <3> QED  BY <3>2, InsertedIs
  <2> QED  BY <2>1, <2>5
<1>7. Values!Pick(a, k, i) = Through(a, u.shape, M)
  <2> HIDE DEF a, M
  <2> QED  BY <1>1, <1>4, <1>6, PickIs
<1>8. Shown(u, storages) = Through(a, u.shape, M)
  <2>1. IsView(u, t, M)
    BY SelectionShows
  <2> HIDE DEF M
  <2> QED  BY <2>1, ViewsShow
<1> QED  BY <1>7, <1>8

\* None adds an axis.
LEMMA InsertionShown ==
    ASSUME NEW t, NEW u, NEW storages, IsLayout(t), IsLayout(u), NEW k \in 1..Len(u.shape),
           Inserts(u, t, k)
    PROVE  Values!WithAxis(Shown(t, storages), k) = Shown(u, storages)
<1> DEFINE n == Len(u.shape)
           l == Len(t.shape)
           a == Shown(t, storages)
           M == Inserting(u, t, k)
<1>1. n \in Nat /\ l \in Nat /\ t.shape \in Seq(Nat) /\ u.shape \in Seq(Nat)
  BY LayoutType
<1>2. a.shape = t.shape
  BY DEF Shown
<1>3. Omits(t.shape, l, u.shape, n, k) /\ u.shape[k] = 1
  BY DEF Inserts
<1>4. u.shape = InsertAt(a.shape, k, 1)
  <2> DEFINE one == 1
  <2>1. one \in Nat /\ u.shape[k] = one
    BY <1>3
  <2> HIDE DEF one, a
  <2>2. Drops(t.shape, u.shape, k, one, Nat)
    BY <1>1, <1>3, <2>1 DEF Drops
  <2>3. InsertAt(t.shape, k, one) = u.shape
    BY <2>2, InsertedIs
  <2> QED  BY <1>2, <2>3 DEF one
<1>5. OneLess(l, n)
  <2>1. l = n - 1
    BY <1>3 DEF Omits
  <2> HIDE DEF n, l
  <2> QED  BY <1>1, <2>1 DEF OneLess
<1>6. ASSUME NEW c \in Coordinates(u.shape)
      PROVE  M[c] = RemoveAt(c, k)
  <2> DEFINE d == Without(c, l, k)
  <2>1. M[c] = d
    BY DEF Inserting
  <2>2. Vector(c, n, Nat)
    BY <1>1, CoordinatesType DEF Vector
  <2>3. Vector(d, l, Nat) /\ Omits(d, l, c, n, k)
    <3>1. k \in 1..n
      OBVIOUS
    <3> HIDE DEF n, l
    <3> QED  BY <1>1, <1>5, <2>2, <3>1, WithoutCoordinates
  <2>4. c \in Seq(Nat) /\ Len(c) = n /\ d \in Seq(Nat) /\ Len(d) = l
    <3> HIDE DEF n, l, d
    <3> QED  BY <1>1, <2>2, <2>3, VectorsAreSequences
  <2>5. RemoveAt(c, k) = d
    <3> HIDE DEF d
    <3>1. k \in 1..Len(c) /\ Omits(d, Len(d), c, Len(c), k)
      BY <2>3, <2>4
    <3> HIDE DEF n, l
    <3> QED  BY <2>4, <3>1, OmittedIs
  <2> QED  BY <2>1, <2>5
<1>7. Values!WithAxis(a, k) = Through(a, u.shape, M)
  <2> HIDE DEF a, M
  <2> QED  BY <1>1, <1>4, <1>6, WithAxisIs
<1>8. Shown(u, storages) = Through(a, u.shape, M)
  <2>1. IsView(u, t, M)
    BY InsertionShows
  <2> HIDE DEF M
  <2> QED  BY <2>1, ViewsShow
<1> QED  BY <1>7, <1>8

\* The positions from first on, in steps.
Progression(p, first, step) ==
    /\ p \in Seq(Int)
    /\ \A x \in Nat : x < Len(p) => p[x + 1] = first + x * step

\* slice() takes positions of an axis.
LEMMA SliceShown ==
    ASSUME NEW t, NEW u, NEW storages, IsLayout(t), IsLayout(u), NEW k \in 1..Len(t.shape),
           NEW first \in Int, NEW step \in Int \ {0}, Slices(u, t, k, first, step),
           Fits(u.shape[k], first, step, t.shape[k]),
           NEW p, Progression(p, first, step), Len(p) = u.shape[k]
    PROVE  Values!Take(Shown(t, storages), k, p) = Shown(u, storages)
<1> DEFINE n == Len(t.shape)
           a == Shown(t, storages)
           M == Slicing(u, t, k, first, step)
<1>1. n \in Nat /\ t.shape \in Seq(Nat) /\ u.shape \in Seq(Nat) /\ k \in 1..n
  BY LayoutType
<1>2. a.shape = t.shape
  BY DEF Shown
<1>3. Len(u.shape) = n /\ \A j \in 1..n : j # k => u.shape[j] = t.shape[j]
  BY DEF Slices
<1>4. u.shape = [a.shape EXCEPT ![k] = Len(p)]
  <2> DEFINE e == u.shape[k]
             r == [t.shape EXCEPT ![k] = e]
  <2>1. e \in Nat
    BY <1>1, <1>3, ElementOfSeq
  <2> HIDE DEF e, a
  <2>2. r \in Seq(Nat) /\ Len(r) = n /\ r[k] = e /\ \A j \in 1..n : j # k => r[j] = t.shape[j]
    BY <1>1, <2>1, ExceptIs
  <2> HIDE DEF r
  <2>3. \A j \in 1..n : u.shape[j] = r[j]
    BY <1>3, <2>2 DEF e
  <2>4. u.shape = r
    BY <1>1, <1>3, <2>2, <2>3, SeqEqual
  <2> QED  BY <1>2, <2>4 DEF r, e
<1>5. ASSUME NEW c \in Coordinates(u.shape)
      PROVE  M[c] = [c EXCEPT ![k] = p[c[k] + 1]]
  <2> DEFINE e == first + c[k] * step
  <2>1. c \in [1..n -> Nat] /\ c[k] \in Nat /\ c[k] < u.shape[k]
    BY <1>1, <1>3, CoordinatesType
  <2>2. p[c[k] + 1] = e
    BY <2>1 DEF Progression
  <2>3. M[c] = Moved(c, n, k, e)
    BY DEF Slicing
  <2> HIDE DEF e
  <2>4. [c EXCEPT ![k] = e] = Moved(c, n, k, e)
    BY <2>1 DEF Moved
  <2> QED  BY <2>2, <2>3, <2>4
<1>6. Values!Take(a, k, p) = Through(a, u.shape, M)
  <2> HIDE DEF a, M
  <2>1. Takes(M, u.shape, a, k, p)
    BY <1>4, <1>5 DEF Takes
  <2> QED  BY <1>1, <2>1, TakeIs
<1>7. Shown(u, storages) = Through(a, u.shape, M)
  <2>1. IsView(u, t, M)
    <3>1. \A x \in Nat : x < u.shape[k] => first + x * step \in 0..t.shape[k] - 1
      BY DEF Fits
    <3> QED  BY <3>1, SliceShows
  <2> HIDE DEF M
  <2> QED  BY <2>1, ViewsShow
<1> QED  BY <1>6, <1>7

\* A shape with an empty axis has no elements.
LEMMA NumelZero ==
    ASSUME NEW s \in Seq(Nat), NEW k \in 1..Len(s), s[k] = 0
    PROVE  Numel(s) = 0
<1>1. Numel(s) # 0 => s[k] # 0
  BY AllPositive
<1> QED  BY <1>1

\* Nothing taken of an axis leaves no elements, wherever the view is.
LEMMA EmptyShown ==
    ASSUME NEW t, NEW u, NEW storages, IsLayout(t), IsLayout(u), NEW k \in 1..Len(t.shape),
           Replaces(u.shape, t.shape, k), u.shape[k] = 0, NEW p, Len(p) = 0
    PROVE  Values!Take(Shown(t, storages), k, p) = Shown(u, storages)
<1> DEFINE n == Len(t.shape)
           a == Shown(t, storages)
           M == [c \in Coordinates(u.shape) |-> [c EXCEPT ![k] = p[c[k] + 1]]]
<1>1. n \in Nat /\ t.shape \in Seq(Nat) /\ u.shape \in Seq(Nat) /\ k \in 1..n /\ Len(u.shape) = n
  BY LayoutType DEF Replaces
<1>2. a.shape = t.shape
  BY DEF Shown
<1>3. u.shape = [a.shape EXCEPT ![k] = Len(p)]
  <2> DEFINE e == Len(p)
             r == [t.shape EXCEPT ![k] = e]
  <2>1. e \in Nat /\ u.shape[k] = e
    OBVIOUS
  <2> HIDE DEF e, a
  <2>2. r \in Seq(Nat) /\ Len(r) = n /\ r[k] = e /\ \A j \in 1..n : j # k => r[j] = t.shape[j]
    BY <1>1, <2>1, ExceptIs
  <2> HIDE DEF r
  <2>3. \A j \in 1..n : u.shape[j] = r[j]
    BY <2>1, <2>2 DEF Replaces
  <2>4. u.shape = r
    BY <1>1, <2>2, <2>3, SeqEqual
  <2> QED  BY <1>2, <2>4 DEF r, e
<1>4. Values!Take(a, k, p) = Through(a, u.shape, M)
  <2>1. \A c \in Coordinates(u.shape) : M[c] = [c EXCEPT ![k] = p[c[k] + 1]]
    OBVIOUS
  <2> HIDE DEF a, M
  <2>2. Takes(M, u.shape, a, k, p)
    BY <1>3, <2>1 DEF Takes
  <2> QED  BY <1>1, <2>2, TakeIs
<1>5. Numel(u.shape) = 0
  BY <1>1, NumelZero
<1>6. Shown(u, storages) = Through(a, u.shape, M)
  <2>1. 1..0 = {}
    OBVIOUS
  <2> HIDE DEF a, M
  <2>2. Shown(u, storages).data = [n_1 \in {} |-> 0]
    BY <1>5, <2>1 DEF Shown
  <2>3. Through(a, u.shape, M).data = [n_1 \in {} |-> 0]
    BY <1>5, <2>1 DEF Through
  <2> QED  BY <2>2, <2>3 DEF Shown, Through
<1> QED  BY <1>4, <1>6

\* permute() puts the axes in another order.
LEMMA PermutationShown ==
    ASSUME NEW t, NEW u, NEW storages, IsLayout(t), IsLayout(u),
           NEW p, DOMAIN p = 1..Len(t.shape), Rearranges(p, Len(t.shape)), Permutes(u, t, p)
    PROVE  Values!Permuted(Shown(t, storages), p) = Shown(u, storages)
<1> DEFINE n == Len(t.shape)
           axes == 1..n
           a == Shown(t, storages)
           M == Permuting(u, n, p)
           q == Inverse(p, axes, axes)
<1>1. n \in Nat /\ t.shape \in Seq(Nat) /\ u.shape \in Seq(Nat)
  BY LayoutType
<1>2. a.shape = t.shape
  BY DEF Shown
<1>3. Len(u.shape) = n /\ \A i \in axes : u.shape[i] = t.shape[p[i]]
  BY DEF Permutes
<1>4. u.shape = [i \in axes |-> a.shape[p[i]]]
  <2>1. u.shape = [i \in axes |-> u.shape[i]]
    <3>1. u.shape \in [1..Len(u.shape) -> Nat]
      BY <1>1, LenProperties
    <3>2. u.shape \in [axes -> Nat]
      BY <1>3, <3>1
    <3> HIDE DEF axes
    <3> QED  BY <3>2
  <2> HIDE DEF axes, a
  <2> QED  BY <1>2, <1>3, <2>1
<1>5. ASSUME NEW j \in axes
      PROVE  Listing(n, p)[j] = q[j]
  <2>1. PICK i \in axes : p[i] = j
    <3>1. n \in Nat /\ Rearranges(p, n)
      BY <1>1
    <3> HIDE DEF n
    <3>2. Onto(p, n)
      BY <3>1, RearrangingIsOnto
    <3> QED  BY <3>2 DEF Onto
  <2>2. \A i1, i2 \in axes : p[i1] = p[i2] => i1 = i2
    BY DEF Rearranges
  <2>3. Listing(n, p)[j] = CHOOSE i1 \in axes : p[i1] = j
    BY DEF Listing
  <2>4. Listing(n, p)[j] = i
    <3> HIDE DEF axes
    <3> QED  BY <2>1, <2>2, <2>3
  <2>5. q[j] = CHOOSE i1 \in axes : j \in Range(p) => p[i1] = j
    BY DEF Inverse
  <2>6. j \in Range(p)
    BY <2>1 DEF Range
  <2>7. q[j] = CHOOSE i1 \in axes : p[i1] = j
    <3> HIDE DEF axes, q
    <3> QED  BY <2>5, <2>6
  <2>8. q[j] = i
    <3> HIDE DEF axes, q
    <3> QED  BY <2>1, <2>2, <2>7
  <2> QED  BY <2>4, <2>8
<1>6. ASSUME NEW c \in Coordinates(u.shape)
      PROVE  M[c] = [j \in axes |-> c[q[j]]]
  <2>1. M[c] = [j \in axes |-> c[Listing(n, p)[j]]]
    BY DEF Permuting
  <2> HIDE DEF q, axes
  <2> QED  BY <1>5, <2>1, Zenon
<1>7. Values!Permuted(a, p) = Through(a, u.shape, M)
  <2>1. axes = 1..Len(a.shape)
    BY <1>2
  <2> HIDE DEF a, M, axes
  <2>2. Lists(M, u.shape, a, axes, p)
    BY <1>4, <1>6, <2>1 DEF Lists, q
  <2> QED  BY <1>1, <2>2, PermutedIs
<1>8. Shown(u, storages) = Through(a, u.shape, M)
  <2>1. IsView(u, t, M)
    <3> HIDE DEF n
    <3>1. n = Len(t.shape)
      BY DEF n
    <3>2. Rearranges(p, n)
      BY DEF n
    <3> QED  BY <3>1, <3>2, PermutationShows
  <2> HIDE DEF M
  <2> QED  BY <2>1, ViewsShow
<1> QED  BY <1>7, <1>8

-----------------------------------------------------------------------------
(* What the constructor accepts.                                             *)

\* Negative strides do not reach below the storage, which the constructor
\* requires even of tensors without elements.
Grounded(t) == t.offset + Reach(t, Backward(t)) >= 0

\* How far an axis reaches backward.
Lowest(size, stride) == IF stride < 0 /\ size > 0 THEN (size - 1) * stride ELSE 0

\* How far each axis does.
Low(t) == [i \in 1..Rank(t) |-> Lowest(t.shape[i], t.strides[i])]

\* It is the lowest step along the axis.
LEMMA LowestIs ==
    ASSUME NEW size \in Nat, NEW stride \in Int
    PROVE  /\ Lowest(size, stride) \in Int /\ Lowest(size, stride) <= 0
           /\ \A i \in 0..size - 1 : Lowest(size, stride) <= i * stride /\ i * stride \in Int
<1>1. CASE stride < 0 /\ size > 0
  <2> DEFINE m == size - 1
             z == m * stride
  <2>1. m \in Nat
    BY <1>1
  <2>2. Lowest(size, stride) = z
    BY <1>1 DEF Lowest
  <2>3. \A x \in Nat : x * stride <= 0 /\ x * stride \in Int
    BY <1>1
  <2>4. ASSUME NEW i \in 0..m
        PROVE  z <= i * stride /\ i * stride \in Int
    <3> HIDE DEF m
    <3>1. m - i \in Nat /\ i \in Nat
      BY <2>1
    <3>2. (m - i) * stride <= 0 /\ i * stride \in Int
      BY <2>3, <3>1
    <3>3. (m - i) * stride = z - i * stride
      BY <2>1, <3>1
    <3>4. z \in Int
      BY <2>1
    <3> DEFINE y == i * stride
    <3> HIDE DEF y, z
    <3>5. z - y <= 0 /\ y \in Int
      BY <3>2, <3>3 DEF y
    <3>6. z <= y
      BY <3>4, <3>5
    <3> QED  BY <3>5, <3>6 DEF y
  <2>5. z \in Int /\ z <= 0
    <3> HIDE DEF m
    <3> QED  BY <2>1, <2>3
  <2> HIDE DEF z
  <2> QED  BY <2>2, <2>4, <2>5
<1>2. CASE ~(stride < 0 /\ size > 0)
  <2>1. Lowest(size, stride) = 0
    BY <1>2 DEF Lowest
  <2>2. ASSUME NEW i \in 0..size - 1
        PROVE  0 <= i * stride /\ i * stride \in Int
    <3>1. i \in Nat /\ stride >= 0
      BY <1>2
    <3> QED  BY <3>1
  <2> QED  BY <2>1, <2>2
<1> QED  BY <1>1, <1>2

\* The constructor adds up how far the axes reach.
LEMMA LowIs ==
    ASSUME NEW t, IsLayout(t)
    PROVE  /\ Low(t) \in Seq(Int) /\ Len(Low(t)) = Len(t.shape)
           /\ \A i \in 1..Len(t.shape) : Low(t)[i] = Lowest(t.shape[i], t.strides[i])
           /\ \A i \in 1..Len(t.shape) : Low(t)[i] \in Int /\ Low(t)[i] <= 0
           /\ Grounded(t) <=> t.offset + Total(Low(t)) >= 0
           /\ Total(Low(t)) \in Int
<1> DEFINE n == Len(t.shape)
<1>1. /\ n \in Nat /\ t.offset \in Int
      /\ \A i \in 1..n : t.shape[i] \in Nat /\ t.strides[i] \in Int
  BY LayoutType
<1>2. \A i \in 1..n : Low(t)[i] = Lowest(t.shape[i], t.strides[i])
  BY DEF Low, Rank
<1>3. \A i \in 1..n : Low(t)[i] \in Int /\ Low(t)[i] <= 0
  <2> HIDE DEF n
  <2> QED  BY <1>1, <1>2, LowestIs
<1>4. Low(t) = [i \in 1..n |-> Low(t)[i]]
  BY DEF Low, Rank
<1>5. Low(t) \in Seq(Int) /\ Len(Low(t)) = n
  <2>1. Low(t) \in [1..n -> Int]
    <3> HIDE DEF n
    <3> QED  BY <1>3, <1>4
  <2> HIDE DEF n
  <2> QED  BY <1>1, <2>1, FunctionsAreSequences
<1>6. Reach(t, Backward(t)) = Total(Low(t))
  <2>1. \A i \in 1..n : (i \in Backward(t) /\ t.shape[i] > 0) <=> (t.strides[i] < 0 /\ t.shape[i] > 0)
    BY DEF Backward, Rank
  <2>2. \A i \in 1..n : (IF i \in Backward(t) /\ t.shape[i] > 0 THEN (t.shape[i] - 1) * t.strides[i] ELSE 0)
                          = Lowest(t.shape[i], t.strides[i])
    <3> HIDE DEF n
    <3> QED  BY <2>1 DEF Lowest
  <2>3. [i \in 1..n |-> IF i \in Backward(t) /\ t.shape[i] > 0 THEN (t.shape[i] - 1) * t.strides[i] ELSE 0]
          = Low(t)
    <3> HIDE DEF n
    <3>1. Low(t) = [i \in 1..n |-> Lowest(t.shape[i], t.strides[i])]
      BY DEF Low, Rank, n
    <3> QED  BY <2>2, <3>1, Zenon
  <2> QED  BY <2>3 DEF Reach, Rank
<1>7. Total(Low(t)) \in Int
  BY <1>5, TotalType
<1> QED  BY <1>2, <1>3, <1>5, <1>6, <1>7 DEF Grounded

\* A total of numbers that are not positive is not positive.
LEMMA TotalNotPositive ==
    ASSUME NEW s \in Seq(Int), \A i \in 1..Len(s) : s[i] <= 0
    PROVE  Total(s) <= 0
<1> DEFINE n == Len(s)
<1>1. n \in Nat /\ \A i \in 1..n : s[i] \in Int
  BY ElementOfSeq, LenProperties
<1>2. PICK f : Accumulates(f, s, n, 0, Plus) /\ Total(s) = f[n]
  BY TotalIsFolded
<1>3. \A i \in 0..n : f[i] \in Int
  BY <1>1, <1>2, PlusIsMonoid, FoldsStay DEF Within
<1> HIDE DEF n
<1> DEFINE P == {i \in 0..n : f[i] <= 0}
<1>4. 0 \in P
  BY <1>1, <1>2 DEF Accumulates
<1>5. ASSUME NEW i \in 1..n, i - 1 \in P
      PROVE  i \in P
  <2>1. f[i - 1] \in Int /\ f[i - 1] <= 0 /\ s[i] \in Int /\ s[i] <= 0
    BY <1>1, <1>3, <1>5 DEF n
  <2>2. f[i] = f[i - 1] + s[i]
    BY <1>2, <2>1 DEF Accumulates, Plus
  <2> QED  BY <2>1, <2>2
<1>6. 0..n \subseteq P
  <2> HIDE DEF P
  <2> QED  BY <1>1, <1>4, <1>5, UpTo
<1>7. n \in 0..n
  BY <1>1
<1> QED  BY <1>2, <1>6, <1>7

\* What is grounded does not begin below its storage.
LEMMA GroundedOffset ==
    ASSUME NEW t, IsLayout(t), Grounded(t)
    PROVE  t.offset >= 0
<1>1. Low(t) \in Seq(Int) /\ \A i \in 1..Len(Low(t)) : Low(t)[i] <= 0
  BY LowIs
<1>2. Total(Low(t)) <= 0
  BY <1>1, TotalNotPositive
<1>3. t.offset \in Int /\ Total(Low(t)) \in Int /\ t.offset + Total(Low(t)) >= 0
  BY LowIs, LayoutType
<1> QED  BY <1>2, <1>3

\* One term replaced.
LEMMA TotalReplaced ==
    ASSUME NEW a \in Seq(Int), NEW b \in Seq(Int), NEW k \in 1..Len(b), Replaces(a, b, k)
    PROVE  Total(a) = Total(b) - b[k] + a[k]
<1> DEFINE r == RemoveAt(b, k)
<1>1. r \in Seq(Int) /\ Omits(r, Len(r), b, Len(b), k)
  BY RemoveAtIs
<1> HIDE DEF r
<1>2. Len(a) = Len(b) /\ \A j \in 1..Len(b) : j # k => a[j] = b[j]
  BY DEF Replaces
<1>3. Omits(r, Len(r), a, Len(a), k)
  <2>1. Len(b) \in Nat /\ Len(r) = Len(b) - 1
    BY <1>1, LenProperties DEF Omits
  <2>2. ASSUME NEW i \in 1..Len(r)
        PROVE  r[i] = IF i < k THEN a[i] ELSE a[i + 1]
    <3>1. i \in 1..Len(b) /\ i + 1 \in 1..Len(b) /\ (i < k => i # k) /\ (~(i < k) => i + 1 # k)
      BY <2>1
    <3>2. r[i] = IF i < k THEN b[i] ELSE b[i + 1]
      BY <1>1 DEF Omits
    <3> QED  BY <1>2, <3>1, <3>2
  <2> QED  BY <1>2, <2>1, <2>2 DEF Omits
<1>4. Total(b) = Total(r) + b[k]
  BY <1>1, TotalWithout
<1>5. Total(a) = Total(r) + a[k]
  <2>1. k \in 1..Len(a)
    BY <1>2
  <2> QED  BY <1>1, <1>3, <2>1, TotalWithout
<1>6. Total(a) \in Int /\ Total(b) \in Int /\ Total(r) \in Int /\ a[k] \in Int /\ b[k] \in Int
  BY <1>1, <1>2, TotalType, ElementOfSeq
<1> QED  BY <1>4, <1>5, <1>6

\* An element selected on an axis is not below the lowest one.
LEMMA SelectionGrounds ==
    ASSUME NEW t, NEW u, IsLayout(t), IsLayout(u), NEW k \in 1..Len(t.shape),
           NEW i \in 0..t.shape[k] - 1, Selects(u, t, k, i), Grounded(t)
    PROVE  Grounded(u)
<1> DEFINE a == Low(t)
           b == Low(u)
           n == Len(t.shape)
           l == Len(u.shape)
<1>1. /\ a \in Seq(Int) /\ Len(a) = n /\ Total(a) \in Int /\ t.offset + Total(a) >= 0
      /\ \A j \in 1..n : a[j] = Lowest(t.shape[j], t.strides[j])
  BY LowIs
<1>2. /\ b \in Seq(Int) /\ Len(b) = l /\ Total(b) \in Int
      /\ \A j \in 1..l : b[j] = Lowest(u.shape[j], u.strides[j])
      /\ Grounded(u) <=> u.offset + Total(b) >= 0
  BY LowIs
<1>3. /\ n \in Nat /\ l \in Nat /\ t.offset \in Int /\ u.offset \in Int
      /\ t.shape[k] \in Nat /\ t.strides[k] \in Int
      /\ Len(t.strides) = n /\ Len(u.strides) = l
  BY LayoutType
<1>4. Omits(u.shape, l, t.shape, n, k) /\ Omits(u.strides, l, t.strides, n, k)
  BY <1>3 DEF Selects
<1> HIDE DEF a, b, n, l
<1>5. Omits(b, Len(b), a, Len(a), k)
  <2>1. l = n - 1
    BY <1>4 DEF Omits
  <2>2. ASSUME NEW j \in 1..l
        PROVE  b[j] = IF j < k THEN a[j] ELSE a[j + 1]
    <3>1. j \in 1..n /\ j + 1 \in 1..n
      BY <1>3, <2>1
    <3>2. /\ u.shape[j] = IF j < k THEN t.shape[j] ELSE t.shape[j + 1]
          /\ u.strides[j] = IF j < k THEN t.strides[j] ELSE t.strides[j + 1]
      BY <1>4 DEF Omits
    <3>3. b[j] = Lowest(u.shape[j], u.strides[j]) /\ a[j] = Lowest(t.shape[j], t.strides[j])
          /\ a[j + 1] = Lowest(t.shape[j + 1], t.strides[j + 1])
      BY <1>1, <1>2, <3>1
    <3> QED  BY <3>2, <3>3
  <2> QED  BY <1>1, <1>2, <2>1, <2>2 DEF Omits
<1>6. Total(a) = Total(b) + a[k]
  <2>1. k \in 1..Len(a)
    BY <1>1 DEF n
  <2> QED  BY <1>1, <1>2, <1>5, <2>1, TotalWithout
<1>7. a[k] \in Int /\ a[k] <= i * t.strides[k] /\ i * t.strides[k] \in Int
  <2>1. a[k] = Lowest(t.shape[k], t.strides[k])
    BY <1>1 DEF n
  <2> QED  BY <1>3, <2>1, LowestIs
<1>8. u.offset = t.offset + i * t.strides[k]
  BY DEF Selects
<1> DEFINE x == i * t.strides[k]
<1> HIDE DEF x
<1>9. a[k] \in Int /\ a[k] <= x /\ x \in Int /\ u.offset = t.offset + x
  BY <1>7, <1>8 DEF x
<1> DEFINE A == Total(a)
           B == Total(b)
<1>10. u.offset + B >= 0
  <2>1. /\ A \in Int /\ B \in Int /\ t.offset \in Int /\ t.offset + A >= 0 /\ A = B + a[k]
    BY <1>1, <1>2, <1>3, <1>6
  <2> HIDE DEF A, B
  <2> QED  BY <1>9, <2>1
<1> QED  BY <1>2, <1>10

\* A slice that takes something does not reach lower than the axis did.
LEMMA SliceGrounds ==
    ASSUME NEW t, NEW u, IsLayout(t), IsLayout(u), NEW k \in 1..Len(t.shape),
           NEW first \in Int, NEW step \in Int \ {0}, Slices(u, t, k, first, step),
           Fits(u.shape[k], first, step, t.shape[k]), u.shape[k] > 0, Grounded(t)
    PROVE  Grounded(u)
<1> DEFINE a == Low(t)
           b == Low(u)
           n == Len(t.shape)
           w == t.strides[k]
           size == t.shape[k]
           length == u.shape[k]
<1>1. /\ a \in Seq(Int) /\ Len(a) = n /\ Total(a) \in Int /\ t.offset + Total(a) >= 0
      /\ \A j \in 1..n : a[j] = Lowest(t.shape[j], t.strides[j])
  BY LowIs
<1>2. Len(u.shape) = n
  BY DEF Slices
<1>3. /\ b \in Seq(Int) /\ Len(b) = n /\ Total(b) \in Int
      /\ \A j \in 1..n : b[j] = Lowest(u.shape[j], u.strides[j])
      /\ Grounded(u) <=> u.offset + Total(b) >= 0
  BY <1>2, LowIs
<1>4. n \in Nat /\ t.offset \in Int /\ u.offset \in Int /\ size \in Nat /\ w \in Int /\ length \in Nat
  BY <1>2, LayoutType
<1>5. /\ \A j \in 1..n : j # k => u.shape[j] = t.shape[j] /\ u.strides[j] = t.strides[j]
      /\ u.strides[k] = w * step /\ u.offset = t.offset + first * w
  BY DEF Slices
<1> HIDE DEF a, b
<1>6. Replaces(b, a, k)
  <2> HIDE DEF n, w
  <2> QED  BY <1>1, <1>3, <1>5, Zenon DEF Replaces
<1>7. Total(b) = Total(a) - a[k] + b[k]
  <2>1. k \in 1..Len(a)
    BY <1>1
  <2> QED  BY <1>1, <1>3, <1>6, <2>1, TotalReplaced
<1>8. a[k] = Lowest(size, w) /\ b[k] = Lowest(length, w * step)
  BY <1>1, <1>3, <1>5
<1>9. /\ \A i \in 0..size - 1 : Lowest(size, w) <= i * w /\ i * w \in Int
      /\ Lowest(size, w) \in Int
  <2> HIDE DEF size, w
  <2> QED  BY <1>4, LowestIs
<1>10. \A x \in Nat : x < length => first + x * step \in 0..size - 1
  BY DEF Fits
<1>11. length > 0 /\ w * step \in Int
  <2> HIDE DEF w
  <2> QED  BY <1>4
<1> HIDE DEF n, w, size, length
<1>12. first * w \in Int /\ Lowest(size, w) <= first * w
  <2>1. first + 0 * step \in 0..size - 1
    BY <1>4, <1>10, <1>11
  <2>2. first \in 0..size - 1
    BY <2>1
  <2> QED  BY <1>9, <2>2
<1>13. b[k] \in Int /\ Lowest(size, w) <= first * w + b[k]
  <2>1. CASE w * step < 0
    <3> DEFINE m == length - 1
               i == first + m * step
    <3>1. m \in Nat /\ m < length
      BY <1>4, <1>11
    <3>2. i \in 0..size - 1
      <4> HIDE DEF m
      <4> QED  BY <1>10, <3>1
    <3>3. b[k] = m * (w * step)
      BY <1>8, <1>11, <2>1 DEF Lowest
    <3>4. i * w = first * w + m * (w * step)
      <4> HIDE DEF m
      <4> QED  BY <1>4, <3>1, Distributes
    <3>5. Lowest(size, w) <= i * w
      <4> HIDE DEF i
      <4> QED  BY <1>9, <3>2
    <3>6. b[k] \in Int
      <4> HIDE DEF m
      <4>1. m * (w * step) \in Int
        BY <1>11, <3>1
      <4> QED  BY <3>3, <4>1
    <3> QED  BY <3>3, <3>4, <3>5, <3>6
  <2>2. CASE ~(w * step < 0)
    <3>1. b[k] = 0
      BY <1>8, <2>2 DEF Lowest
    <3> QED  BY <1>9, <1>12, <3>1
  <2> QED  BY <2>1, <2>2
<1> DEFINE x == first * w
           y == Lowest(size, w)
<1>14. x \in Int /\ y \in Int /\ y <= x + b[k] /\ a[k] = y /\ u.offset = t.offset + x
  BY <1>5, <1>8, <1>9, <1>12, <1>13
<1> HIDE DEF x, y
<1> DEFINE A == Total(a)
           B == Total(b)
<1>15. u.offset + B >= 0
  <2>1. /\ A \in Int /\ B \in Int /\ t.offset \in Int /\ t.offset + A >= 0 /\ A - a[k] + b[k] = B
        /\ b[k] \in Int
    BY <1>1, <1>3, <1>4, <1>7, <1>13
  <2> DEFINE ak == a[k]
             bk == b[k]
  <2>2. x \in Int /\ y \in Int /\ y <= x + bk /\ ak = y /\ u.offset = t.offset + x
    BY <1>14
  <2>3. /\ A \in Int /\ B \in Int /\ t.offset \in Int /\ t.offset + A >= 0 /\ A - ak + bk = B
        /\ bk \in Int
    BY <2>1
  <2> HIDE DEF A, B, ak, bk
  <2> QED  BY <2>2, <2>3, SMT
<1> QED  BY <1>3, <1>15

\* An axis of which nothing is left does not reach backward.
LEMMA EmptyGrounds ==
    ASSUME NEW t, NEW u, IsLayout(t), IsLayout(u), NEW k \in 1..Len(t.shape),
           Replaces(u.shape, t.shape, k), Replaces(u.strides, t.strides, k),
           u.shape[k] = 0, u.offset = t.offset, Grounded(t)
    PROVE  Grounded(u)
<1> DEFINE a == Low(t)
           b == Low(u)
           n == Len(t.shape)
<1>1. /\ a \in Seq(Int) /\ Len(a) = n /\ Total(a) \in Int /\ t.offset + Total(a) >= 0
      /\ \A j \in 1..n : a[j] = Lowest(t.shape[j], t.strides[j])
      /\ \A j \in 1..n : a[j] \in Int /\ a[j] <= 0
  BY LowIs
<1>2. Len(u.shape) = n
  BY DEF Replaces
<1>3. /\ b \in Seq(Int) /\ Len(b) = n /\ Total(b) \in Int
      /\ \A j \in 1..n : b[j] = Lowest(u.shape[j], u.strides[j])
      /\ Grounded(u) <=> u.offset + Total(b) >= 0
  BY <1>2, LowIs
<1>4. t.offset \in Int /\ Len(t.strides) = n
  BY LayoutType
<1>5. \A j \in 1..n : j # k => u.shape[j] = t.shape[j] /\ u.strides[j] = t.strides[j]
  BY <1>4 DEF Replaces
<1> HIDE DEF a, b
<1>6. Replaces(b, a, k)
  <2>1. \A j \in 1..n : j # k => b[j] = a[j]
    <3> HIDE DEF n
    <3> QED  BY <1>1, <1>3, <1>5
  <2> HIDE DEF n
  <2> QED  BY <1>1, <1>3, <2>1 DEF Replaces
<1>7. Total(b) = Total(a) - a[k] + b[k]
  <2>1. k \in 1..Len(a)
    BY <1>1
  <2> QED  BY <1>1, <1>3, <1>6, <2>1, TotalReplaced
<1>8. b[k] = 0 /\ a[k] \in Int /\ a[k] <= 0
  <2>1. b[k] = Lowest(0, u.strides[k])
    BY <1>3
  <2> QED  BY <1>1, <2>1 DEF Lowest
<1> DEFINE A == Total(a)
           B == Total(b)
<1>9. B = A - a[k] + b[k] /\ A \in Int /\ t.offset + A >= 0
  BY <1>1, <1>7
<1> HIDE DEF A, B, a, b, n
<1>10. u.offset + B >= 0
  BY <1>4, <1>8, <1>9
<1> QED  BY <1>3, <1>10 DEF A, B, b

\* An axis of one element does not reach backward.
LEMMA InsertionGrounds ==
    ASSUME NEW t, NEW u, IsLayout(t), IsLayout(u), NEW k \in 1..Len(u.shape), Inserts(u, t, k),
           Grounded(t)
    PROVE  Grounded(u)
<1> DEFINE a == Low(t)
           b == Low(u)
           n == Len(u.shape)
           l == Len(t.shape)
<1>1. /\ a \in Seq(Int) /\ Len(a) = l /\ Total(a) \in Int /\ t.offset + Total(a) >= 0
      /\ \A j \in 1..l : a[j] = Lowest(t.shape[j], t.strides[j])
  BY LowIs
<1>2. /\ b \in Seq(Int) /\ Len(b) = n /\ Total(b) \in Int
      /\ \A j \in 1..n : b[j] = Lowest(u.shape[j], u.strides[j])
      /\ Grounded(u) <=> u.offset + Total(b) >= 0
  BY LowIs
<1>3. /\ n \in Nat /\ l \in Nat /\ t.offset \in Int
      /\ Len(t.strides) = l /\ Len(u.strides) = n /\ u.strides[k] \in Int
  BY LayoutType
<1>4. /\ Omits(t.shape, l, u.shape, n, k) /\ Omits(t.strides, l, u.strides, n, k)
      /\ u.shape[k] = 1 /\ u.offset = t.offset
  BY <1>3 DEF Inserts
<1> HIDE DEF a, b, n, l
<1>5. Omits(a, Len(a), b, Len(b), k)
  <2>1. l = n - 1
    BY <1>4 DEF Omits
  <2>2. ASSUME NEW j \in 1..l
        PROVE  a[j] = IF j < k THEN b[j] ELSE b[j + 1]
    <3>1. j \in 1..n /\ j + 1 \in 1..n
      BY <1>3, <2>1
    <3>2. /\ t.shape[j] = IF j < k THEN u.shape[j] ELSE u.shape[j + 1]
          /\ t.strides[j] = IF j < k THEN u.strides[j] ELSE u.strides[j + 1]
      BY <1>4 DEF Omits
    <3>3. a[j] = Lowest(t.shape[j], t.strides[j]) /\ b[j] = Lowest(u.shape[j], u.strides[j])
          /\ b[j + 1] = Lowest(u.shape[j + 1], u.strides[j + 1])
      BY <1>1, <1>2, <3>1
    <3> QED  BY <3>2, <3>3
  <2> QED  BY <1>1, <1>2, <2>1, <2>2 DEF Omits
<1>6. Total(b) = Total(a) + b[k]
  <2>1. k \in 1..Len(b)
    BY <1>2 DEF n
  <2> QED  BY <1>1, <1>2, <1>5, <2>1, TotalWithout
<1>7. b[k] = 0
  <2>1. b[k] = Lowest(1, u.strides[k])
    BY <1>2, <1>4 DEF n
  <2> QED  BY <1>3, <2>1 DEF Lowest
<1> QED  BY <1>1, <1>2, <1>3, <1>4, <1>6, <1>7

\* The order of the axes does not matter.
LEMMA PermutationGrounds ==
    ASSUME NEW t, NEW u, IsLayout(t), IsLayout(u),
           NEW n, n = Len(t.shape), NEW p, Rearranges(p, n), Permutes(u, t, p), Grounded(t)
    PROVE  Grounded(u)
<1> DEFINE a == Low(t)
           b == Low(u)
<1>1. /\ a \in Seq(Int) /\ Len(a) = n /\ Total(a) \in Int /\ t.offset + Total(a) >= 0
      /\ \A j \in 1..n : a[j] = Lowest(t.shape[j], t.strides[j])
  BY LowIs
<1>2. Len(u.shape) = n /\ u.offset = t.offset
  BY DEF Permutes
<1>3. /\ b \in Seq(Int) /\ Len(b) = n
      /\ \A j \in 1..n : b[j] = Lowest(u.shape[j], u.strides[j])
      /\ Grounded(u) <=> u.offset + Total(b) >= 0
  BY <1>2, LowIs
<1> HIDE DEF a, b
<1>4. \A i \in 1..n : b[i] = a[p[i]]
  <2>1. /\ \A j \in 1..n : a[j] = Lowest(t.shape[j], t.strides[j])
        /\ \A j \in 1..n : b[j] = Lowest(u.shape[j], u.strides[j])
    BY <1>1, <1>3
  <2>2. \A i \in 1..n : p[i] \in 1..n
    BY DEF Rearranges
  <2>3. \A i \in 1..n : u.shape[i] = t.shape[p[i]] /\ u.strides[i] = t.strides[p[i]]
    BY DEF Permutes
  <2> SUFFICES ASSUME NEW i \in 1..n
               PROVE  b[i] = a[p[i]]
    OBVIOUS
  <2> DEFINE j == p[i]
  <2>4. j \in 1..n /\ u.shape[i] = t.shape[j] /\ u.strides[i] = t.strides[j]
    BY <2>2, <2>3
  <2> HIDE DEF j
  <2>5. a[j] = Lowest(t.shape[j], t.strides[j]) /\ b[i] = Lowest(u.shape[i], u.strides[i])
    BY <2>1, <2>4, Zenon
  <2> QED  BY <2>4, <2>5 DEF j
<1>5. Total(b) = Total(a)
  BY <1>1, <1>3, <1>4, TotalRearranged
<1> QED  BY <1>1, <1>2, <1>3, <1>5

\* The coordinate that the axes reach forward to.
Corner(t) == [i \in 1..Rank(t) |-> IF t.strides[i] >= 0 THEN t.shape[i] - 1 ELSE 0]

\* The positive strides lead to the last element, if there is any.
LEMMA CornerReaches ==
    ASSUME NEW t, IsLayout(t), \A i \in 1..Len(t.shape) : t.shape[i] # 0
    PROVE  /\ Corner(t) \in Coordinates(t.shape)
           /\ Place(t, Corner(t)) = t.offset + Reach(t, Forward(t))
<1> DEFINE n == Len(t.shape)
           c == Corner(t)
<1>1. /\ n \in Nat /\ t.shape \in Seq(Nat) /\ Within(t.strides, n, Int)
      /\ \A i \in 1..n : t.shape[i] \in Nat \ {0} /\ t.strides[i] \in Int
  BY LayoutType
<1>2. c = [i \in 1..n |-> IF t.strides[i] >= 0 THEN t.shape[i] - 1 ELSE 0]
  BY DEF Corner, Rank
<1> HIDE DEF c
<1>3. \A i \in 1..n : c[i] = IF t.strides[i] >= 0 THEN t.shape[i] - 1 ELSE 0
  BY <1>2
<1>4. \A i \in 1..n : c[i] \in Nat /\ c[i] < t.shape[i]
  <2> HIDE DEF n
  <2> QED  BY <1>1, <1>3
<1>5. c \in [1..n -> Nat] /\ c \in [1..n -> Int]
  <2>1. c = [i \in 1..n |-> c[i]]
    BY <1>2
  <2> HIDE DEF n
  <2> QED  BY <1>4, <2>1
<1>6. c \in Coordinates(t.shape)
  BY <1>4, <1>5 DEF Coordinates
<1>7. Dot(c, t.strides) = Total([i \in 1..n |-> c[i] * t.strides[i]])
  <2>1. Vector(c, n, Int)
    BY <1>5 DEF Vector
  <2> HIDE DEF n
  <2> QED  BY <1>1, <2>1, DotIsTotal
<1>8. \A i \in 1..n : c[i] * t.strides[i] =
                        IF i \in Forward(t) /\ t.shape[i] > 0 THEN (t.shape[i] - 1) * t.strides[i] ELSE 0
  <2> SUFFICES ASSUME NEW i \in 1..n
               PROVE  c[i] * t.strides[i] =
                        IF i \in Forward(t) /\ t.shape[i] > 0 THEN (t.shape[i] - 1) * t.strides[i] ELSE 0
    OBVIOUS
  <2>1. i \in Forward(t) <=> t.strides[i] >= 0
    BY DEF Forward, Rank
  <2>2. t.shape[i] > 0 /\ t.strides[i] \in Int
    BY <1>1
  <2>3. CASE t.strides[i] >= 0
    BY <1>3, <2>1, <2>2, <2>3
  <2>4. CASE ~(t.strides[i] >= 0)
    <3>1. c[i] = 0
      BY <1>3, <2>4
    <3>2. 0 * t.strides[i] = 0
      BY <2>2
    <3> QED  BY <2>1, <2>4, <3>1, <3>2
  <2> QED  BY <2>3, <2>4
<1>9. Reach(t, Forward(t)) = Dot(c, t.strides)
  <2>1. [i \in 1..n |-> c[i] * t.strides[i]]
          = [i \in 1..n |-> IF i \in Forward(t) /\ t.shape[i] > 0 THEN (t.shape[i] - 1) * t.strides[i] ELSE 0]
    BY <1>8, Zenon
  <2> QED  BY <1>7, <2>1 DEF Reach, Rank
<1> QED  BY <1>6, <1>9 DEF Place, c

\* The constructor accepts every sound layout that is grounded.
LEMMA Accepted ==
    ASSUME memory \in Seq(Seq(Int)), NEW u, Good(u, memory), Grounded(u)
    PROVE  ValidLayout(u)
<1> DEFINE size == Len(memory[u.storage])
           n == Len(u.shape)
<1>1. IsLayout(u) /\ Sound(u, size) /\ u.storage \in DOMAIN memory
  BY DEF Good, Sound
<1>2. Len(u.strides) = Rank(u) /\ u.offset >= 0
  BY <1>1, GroundedOffset DEF IsLayout, Rank
<1>3. ASSUME \A i \in 1..n : u.shape[i] # 0
      PROVE  u.offset + Reach(u, Forward(u)) < size
  <2> DEFINE p == Place(u, Corner(u))
  <2>1. Corner(u) \in Coordinates(u.shape) /\ p = u.offset + Reach(u, Forward(u))
    BY <1>1, <1>3, CornerReaches
  <2>2. p \in 0..size - 1
    BY <1>1, <2>1 DEF Sound
  <2>3. size \in Nat
    <3>1. DOMAIN memory = 1..Len(memory)
      BY LenProperties
    <3>2. memory[u.storage] \in Seq(Int)
      BY <1>1, <3>1, ElementOfSeq
    <3> QED  BY <3>2, LenProperties
  <2> HIDE DEF p, size
  <2>4. p < size
    BY <2>2, <2>3
  <2> QED  BY <2>1, <2>4
<1> QED  BY <1>2, <1>3 DEF ValidLayout, Grounded, Rank

\* A view that begins in its storage is good.
LEMMA ViewIsGood ==
    ASSUME NEW t, NEW storages, Good(t, storages), NEW u, NEW M, IsView(u, t, M), u.offset >= 0
    PROVE  Good(u, storages)
<1>1. u.storage = t.storage
  BY DEF IsView
<1>2. Sound(u, Len(storages[t.storage]))
  <2> DEFINE size == Len(storages[t.storage])
  <2>1. Sound(t, size)
    BY DEF Good
  <2> HIDE DEF size
  <2>2. Sound(u, size)
    BY <2>1, ViewsAreSound
  <2> QED  BY <2>2 DEF size
<1> QED  BY <1>1, <1>2 DEF Good

\* A layout without negative strides is grounded.
LEMMA PositiveGrounds ==
    ASSUME NEW t, IsLayout(t), t.offset >= 0, \A i \in 1..Len(t.shape) : t.strides[i] >= 0
    PROVE  Grounded(t)
<1> DEFINE n == Len(t.shape)
           s == Low(t)
<1>1. /\ s \in Seq(Int) /\ Len(s) = n /\ t.offset \in Int /\ n \in Nat
      /\ \A i \in 1..n : s[i] = Lowest(t.shape[i], t.strides[i])
      /\ Grounded(t) <=> t.offset + Total(s) >= 0
  BY LowIs, LayoutType
<1>2. \A i \in 1..n : t.strides[i] \in Int
  BY LayoutType
<1>3. \A i \in 1..n : s[i] = 0
  <2> HIDE DEF n, s
  <2>1. \A i \in 1..n : t.strides[i] >= 0
    BY DEF n
  <2> QED  BY <1>1, <1>2, <2>1 DEF Lowest
<1> HIDE DEF s
<1>4. PICK f : Accumulates(f, s, n, 0, Plus) /\ Total(s) = f[n]
  BY <1>1, TotalIsFolded
<1> HIDE DEF n
<1> DEFINE P == {i \in 0..n : f[i] = 0}
<1>5. 0 \in P
  BY <1>1, <1>4 DEF Accumulates
<1>6. ASSUME NEW i \in 1..n, i - 1 \in P
      PROVE  i \in P
  <2>1. f[i - 1] = 0 /\ s[i] = 0
    BY <1>3, <1>6
  <2>2. f[i] = Plus[0][0]
    BY <1>4, <2>1 DEF Accumulates
  <2>3. Plus[0][0] = 0
    BY DEF Plus
  <2> QED  BY <2>2, <2>3
<1>7. 0..n \subseteq P
  <2> HIDE DEF P
  <2> QED  BY <1>1, <1>5, <1>6, UpTo
<1>8. Total(s) = 0
  BY <1>1, <1>4, <1>7
<1> QED  BY <1>1, <1>8

-----------------------------------------------------------------------------
(* Calls, seen by a caller.                                                  *)

\* What TensorValues calls array.
Arrays == [s \in Slots |-> IF slot[s] = Undefined THEN Undefined ELSE Denoted(slot[s])]

\* A call that yields an array in a slot, and one that is refused.
Yields(d, a) == Arrays' = [Arrays EXCEPT ![d] = a] /\ threw' = FALSE
Refuses == threw' = TRUE /\ UNCHANGED Arrays

\* A tensor shows what is in memory.
LEMMA DenotedIsShown == \A t : Denoted(t) = Shown(t, memory)
BY DEF Denoted, Shown, Materialized

\* A good tensor is a tensor.
LEMMA GoodIsDefined ==
    ASSUME NEW t, NEW storages, Good(t, storages)
    PROVE  t # Undefined /\ IsLayout(t)
<1>1. IsLayout(t) /\ t \in Layout
  BY DEF Good, Sound, IsLayout
<1> QED  BY <1>1, UndefinedAssumption DEF Layout

\* The array of a slot.
LEMMA ArrayIs ==
    ASSUME NEW s \in Slots, slot[s] # Undefined
    PROVE  Arrays[s] = Shown(slot[s], memory)
BY DenotedIsShown DEF Arrays

\* A storage that is referred to is kept, and so is what the tensor shows.
LEMMA CollectedShows ==
    ASSUME NEW tensors, NEW storages, NEW s \in Slots, tensors[s] # Undefined,
           tensors[s].storage \in DOMAIN storages
    PROVE  Shown(tensors[s], Collected(tensors, storages)) = Shown(tensors[s], storages)
<1>1. Collected(tensors, storages)[tensors[s].storage] = storages[tensors[s].storage]
  BY DEF Collected
<1> QED  BY <1>1 DEF Shown

\* The arrays, by what the tensors show.
LEMMA ArraysAre ==
    Arrays = [s \in Slots |-> IF slot[s] = Undefined THEN Undefined ELSE Shown(slot[s], memory)]
BY DenotedIsShown DEF Arrays

\* A call that only adds a storage shows the same of the other tensors.
LEMMA StillShown ==
    ASSUME NEW t, NEW old, NEW storages, Good(t, old), Extends(storages, old)
    PROVE  Shown(t, storages) = Shown(t, old)
<1>1. storages[t.storage] = old[t.storage]
  BY DEF Good, Extends
<1> QED  BY <1>1 DEF Shown

\* The arrays after a call that returns t, which may be undefined.
LEMMA ArraysAfter ==
    ASSUME IInv, NEW d \in Slots, NEW t, NEW storages, Extends(storages, memory),
           t = Undefined \/ Good(t, storages), Return(d, t, storages)
    PROVE  /\ Arrays' = [Arrays EXCEPT ![d] = IF t = Undefined THEN Undefined ELSE Shown(t, storages)]
           /\ threw' = FALSE
<1> DEFINE a == IF t = Undefined THEN Undefined ELSE Shown(t, storages)
           b == [s \in Slots |-> IF slot[s] = Undefined THEN Undefined ELSE Shown(slot[s], memory)]
<1>1. slot' = [slot EXCEPT ![d] = t] /\ memory' = Collected(slot', storages) /\ threw' = FALSE
  BY DEF Return
<1>2. AllGood(slot, memory)
  BY DEF IInv
<1>3. \A s \in Slots : slot'[s] = IF s = d THEN t ELSE slot[s]
  BY <1>1, <1>2 DEF AllGood
<1>4. \A s \in Slots : slot[s] # Undefined => Good(slot[s], memory)
  BY <1>2 DEF AllGood
<1>5. ASSUME NEW s \in Slots, slot'[s] # Undefined
      PROVE  Good(slot'[s], storages)
  BY <1>3, <1>4, <1>5, StillGood
<1>6. ASSUME NEW s \in Slots, slot'[s] # Undefined
      PROVE  Shown(slot'[s], memory') = Shown(slot'[s], storages)
  <2> DEFINE tensors == slot'
  <2>1. tensors[s] # Undefined /\ tensors[s].storage \in DOMAIN storages
    BY <1>5, <1>6 DEF Good
  <2>2. memory' = Collected(tensors, storages)
    BY <1>1
  <2>3. ASSUME NEW q, q[s] # Undefined, q[s].storage \in DOMAIN storages
        PROVE  Shown(q[s], Collected(q, storages)) = Shown(q[s], storages)
    BY <2>3, CollectedShows
  <2> HIDE DEF tensors
  <2>4. Shown(tensors[s], Collected(tensors, storages)) = Shown(tensors[s], storages)
    BY <2>1, <2>3
  <2> QED  BY <2>2, <2>4 DEF tensors
<1>7. Arrays = b
  BY ArraysAre
<1>8. Arrays' = [s \in Slots |-> IF slot'[s] = Undefined THEN Undefined ELSE Shown(slot'[s], memory')]
  <2>1. b' = [s \in Slots |-> IF slot'[s] = Undefined THEN Undefined ELSE Shown(slot'[s], memory')]
    BY DEF Shown, Address, Dot, Unravel
  <2>2. (Arrays = b)'
    BY ArraysAre, PTL
  <2> QED  BY <2>1, <2>2
<1>9. ASSUME NEW s \in Slots
      PROVE  (IF slot'[s] = Undefined THEN Undefined ELSE Shown(slot'[s], memory')) = IF s = d THEN a ELSE b[s]
  <2>1. CASE s = d
    BY <1>3, <1>6, <2>1
  <2>2. CASE s # d
    <3>1. slot'[s] = slot[s]
      BY <1>3, <2>2
    <3>2. CASE slot[s] # Undefined
      BY <1>4, <1>6, <2>2, <3>1, <3>2, StillShown
    <3>3. CASE slot[s] = Undefined
      BY <2>2, <3>1, <3>3
    <3> QED  BY <3>2, <3>3
  <2> QED  BY <2>1, <2>2
<1>10. Arrays' = [s \in Slots |-> IF s = d THEN a ELSE b[s]]
  <2> HIDE DEF a, b
  <2> QED  BY <1>8, <1>9, Zenon
<1>11. [s \in Slots |-> IF s = d THEN a ELSE b[s]] = [b EXCEPT ![d] = a]
  <2>1. b = [s \in Slots |-> b[s]]
    OBVIOUS
  <2> HIDE DEF a, b
  <2> QED  BY <2>1
<1> HIDE DEF b
<1> QED  BY <1>1, <1>7, <1>10, <1>11

\* A call that returns a tensor yields what it shows.
LEMMA Returned ==
    ASSUME IInv, NEW d \in Slots, NEW t, NEW storages, Extends(storages, memory),
           Good(t, storages), Return(d, t, storages)
    PROVE  Yields(d, Shown(t, storages))
<1>1. t # Undefined
  BY GoodIsDefined
<1>2. Arrays' = [Arrays EXCEPT ![d] = Shown(t, storages)] /\ threw' = FALSE
  BY <1>1, ArraysAfter
<1> QED  BY <1>2 DEF Yields

\* A call that leaves the tensors alone yields what there was.
LEMMA Left ==
    ASSUME IInv, NEW d \in Slots, Return(d, slot[d], memory)
    PROVE  Yields(d, Arrays[d])
<1>1. Extends(memory, memory) /\ (slot[d] = Undefined \/ Good(slot[d], memory))
  BY DEF IInv, AllGood, Extends
<1>2. /\ Arrays' = [Arrays EXCEPT ![d] = IF slot[d] = Undefined THEN Undefined ELSE Shown(slot[d], memory)]
      /\ threw' = FALSE
  BY <1>1, ArraysAfter
<1>3. Arrays[d] = IF slot[d] = Undefined THEN Undefined ELSE Shown(slot[d], memory)
  BY ArraysAre
<1>4. Arrays' = [Arrays EXCEPT ![d] = Arrays[d]] /\ threw' = FALSE
  BY <1>2, <1>3
<1> QED  BY <1>4 DEF Yields

\* A call that throws changes no array.
LEMMA Thrown ==
    ASSUME Throw
    PROVE  Refuses
<1>1. UNCHANGED <<slot, memory>> /\ threw' = TRUE
  BY DEF Throw
<1>2. UNCHANGED Arrays
  BY <1>1 DEF Arrays, Denoted, Materialized, Address, Dot, Unravel
<1> QED  BY <1>1, <1>2 DEF Refuses

\* Every tensor is grounded: the constructor checks it even of tensors without
\* elements, and what is not constructed by it has no negative strides.
AllGrounded == \A s \in Slots : slot[s] # Undefined => Grounded(slot[s])

\* A new tensor has no negative strides.
LEMMA FreshIsGrounded ==
    ASSUME NEW shape \in Seq(Nat), NEW storage \in Nat
    PROVE  Grounded(FreshLayout(shape, storage))
<1> DEFINE t == FreshLayout(shape, storage)
           w == ContiguousStrides(Padded(shape))
<1>1. Padded(shape) \in Seq(Nat) /\ Len(Padded(shape)) = Len(shape)
  BY PaddedIs
<1>2. w \in Seq(Nat) /\ Len(w) = Len(shape)
  <2> DEFINE p == Padded(shape)
  <2> HIDE DEF p
  <2>1. ContiguousStrides(p) \in Seq(Nat) /\ Len(ContiguousStrides(p)) = Len(p)
    BY <1>1, StridesAreWidths DEF p
  <2> QED  BY <1>1, <2>1 DEF p
<1>3. t.strides = w /\ t.offset = 0 /\ t.shape = shape
  BY DEF FreshLayout
<1>4. IsLayout(t)
  BY FreshIsSound DEF Sound
<1> HIDE DEF t, w
<1>5. \A i \in 1..Len(t.shape) : t.strides[i] >= 0
  <2>1. \A i \in 1..Len(w) : w[i] \in Nat
    BY <1>2, ElementOfSeq
  <2> QED  BY <1>2, <1>3, <2>1
<1>6. Grounded(t)
  BY <1>3, <1>4, <1>5, PositiveGrounds
<1> QED  BY <1>6 DEF t

\* A call that returns a grounded tensor keeps all of them grounded.
LEMMA ReturnGrounds ==
    ASSUME IInv, AllGrounded, NEW d \in Slots, NEW t, NEW storages,
           t = Undefined \/ Grounded(t), Return(d, t, storages)
    PROVE  AllGrounded'
<1>1. slot' = [slot EXCEPT ![d] = t]
  BY DEF Return
<1>2. \A s \in Slots : slot'[s] = IF s = d THEN t ELSE slot[s]
  BY <1>1 DEF IInv, AllGood
<1>3. ASSUME NEW s \in Slots, slot'[s] # Undefined
      PROVE  Grounded(slot'[s])
  BY <1>2, <1>3 DEF AllGrounded
<1>4. AllGrounded' <=> \A s \in Slots : slot'[s] # Undefined => Grounded(slot'[s])
  BY DEF AllGrounded, Grounded, Reach, Backward, Rank
<1> QED  BY <1>3, <1>4

\* A call that throws leaves them alone.
LEMMA ThrowGrounds ==
    ASSUME AllGrounded, Throw
    PROVE  AllGrounded'
BY DEF AllGrounded, Throw, Grounded, Reach, Backward, Rank

\* The constructor checks the negative strides of every tensor.
LEMMA ConstructGrounds ==
    ASSUME IInv, AllGrounded, NEW d \in Slots, NEW t, Construct(d, t)
    PROVE  AllGrounded'
<1>1. CASE ValidLayout(t)
  <2>1. Grounded(t) /\ Return(d, t, memory)
    BY <1>1 DEF ValidLayout, Grounded, Construct
  <2> QED  BY <2>1, ReturnGrounds
<1>2. CASE ~ValidLayout(t)
  BY <1>2, ThrowGrounds DEF Construct
<1> QED  BY <1>1, <1>2

\* A new tensor is grounded, whatever call makes it.
LEMMA FreshGrounds ==
    ASSUME IInv, IInv', AllGrounded, NEW d \in Slots, NEW shape, NEW data, Fresh(d, shape, data)
    PROVE  AllGrounded'
<1> DEFINE n == Len(memory) + 1
           t == FreshLayout(shape, n)
<1>1. Return(d, t, Append(memory, data))
  BY DEF Fresh, FreshLayout, Padded
<1>2. n \in Nat
  BY LenProperties DEF IInv, AllGood
<1>3. CASE t = Undefined
  <2> HIDE DEF t
  <2> QED  BY <1>1, <1>3, ReturnGrounds
<1>4. CASE t # Undefined
  <2>1. slot'[d] = t
    BY <1>1 DEF Return, IInv, AllGood
  <2>2. AllGood(slot', memory')
    BY DEF IInv
  <2>3. Good(t, memory')
    BY <1>4, <2>1, <2>2 DEF AllGood
  <2>4. t.shape \in Seq(Nat)
    <3> HIDE DEF t
    <3> QED  BY <2>3, LayoutType DEF Good, Sound
  <2>5. shape \in Seq(Nat)
    BY <2>4 DEF FreshLayout
  <2>6. Grounded(t)
    <3> HIDE DEF n
    <3> QED  BY <1>2, <2>5, FreshIsGrounded
  <2> HIDE DEF t
  <2> QED  BY <1>1, <2>6, ReturnGrounds
<1> QED  BY <1>3, <1>4

\* Another shape of a tensor is constructed, or new.
LEMMA ReshapedGrounds ==
    ASSUME IInv, IInv', AllGrounded, NEW d \in Slots, NEW t, NEW shape, Reshaped(d, t, shape)
    PROVE  AllGrounded'
BY ConstructGrounds, FreshGrounds DEF Reshaped

\* split() checks every piece.
LEMMA SplitGrounds ==
    ASSUME IInv, AllGrounded, NEW s \in Slots, NEW d \in Slots, slot[s] # Undefined,
           NEW size, NEW dim, NEW k \in Nat \ {0}, Split(s, d, size, dim, k)
    PROVE  AllGrounded'
<1> DEFINE t == slot[s]
           axis == AxisOf(dim, t)
           pieces == (t.shape[axis] + size - 1) \div size
           piece(j) == SlicedView(t, axis, (j - 1) * size,
                                  (j - 1) * size + Min({size, t.shape[axis] - (j - 1) * size}), 1)
<1>1. CASE Throw
  BY <1>1, ThrowGrounds
<1>2. CASE ~Throw
  <2>1. /\ \A j \in 1..pieces : ValidLayout(piece(j))
        /\ Return(d, IF k <= pieces THEN piece(k) ELSE slot[d], memory)
        /\ size > 0
    BY <1>2 DEF Split
  <2>2. slot[d] = Undefined \/ Grounded(slot[d])
    BY DEF AllGrounded
  <2> HIDE DEF piece, pieces
  <2>3. CASE k <= pieces
    <3>1. k \in 1..pieces
      BY <2>3
    <3>2. Grounded(piece(k))
      BY <2>1, <3>1 DEF ValidLayout, Grounded
    <3> QED  BY <2>1, <2>3, <3>2, ReturnGrounds
  <2>4. CASE ~(k <= pieces)
    BY <2>1, <2>2, <2>4, ReturnGrounds
  <2> QED  BY <2>3, <2>4
<1> QED  BY <1>1, <1>2

\* contiguous() and copy() keep or make the layout.
LEMMA CopiesGround ==
    ASSUME IInv, IInv', AllGrounded, NEW s \in Slots, NEW d \in Slots, slot[s] # Undefined,
           Contiguous(s, d) \/ Copy(s, d)
    PROVE  AllGrounded'
<1> DEFINE t == slot[s]
<1>1. Grounded(t)
  BY DEF AllGrounded
<1>2. CASE Contiguous(s, d)
  BY <1>1, <1>2, FreshGrounds, ReturnGrounds DEF Contiguous
<1>3. CASE Copy(s, d)
  <2> DEFINE n == Len(memory) + 1
             u == [t EXCEPT !.storage = n]
             storages == Append(memory, memory[t.storage])
  <2>1. Return(d, u, storages)
    BY <1>3 DEF Copy
  <2>2. u.shape = t.shape /\ u.strides = t.strides /\ u.offset = t.offset
    <3>1. t \in Layout
      BY OperandIsGood DEF IsLayout
    <3> HIDE DEF n, t
    <3> QED  BY <3>1 DEF Layout
  <2> HIDE DEF u, storages
  <2>3. Grounded(u)
    BY <1>1, <2>2 DEF Grounded, Reach, Backward, Rank
  <2> QED  BY <2>1, <2>3, ReturnGrounds
<1> QED  BY <1>2, <1>3

\* Every call on a tensor keeps all tensors grounded.
LEMMA CallGrounds ==
    ASSUME IInv, IInv', AllGrounded, NEW s \in Slots, NEW d \in Slots, slot[s] # Undefined,
           OneOperand(s, d)
    PROVE  AllGrounded'
<1>1. ASSUME NEW dim, NEW i, Select(s, d, dim, i)
      PROVE  AllGrounded'
  BY <1>1, ConstructGrounds, ThrowGrounds, Zenon DEF Select
<1>2. ASSUME NEW dim, NEW b, Slice(s, d, dim, b[1], b[2], b[3])
      PROVE  AllGrounded'
  BY <1>2, ConstructGrounds, ThrowGrounds, Zenon DEF Slice
<1>3. ASSUME NEW x, Index(s, d, x)
      PROVE  AllGrounded'
  BY <1>3, ConstructGrounds, ThrowGrounds, Zenon DEF Index
<1>4. ASSUME NEW x, Reshape(s, d, x) \/ View(s, d, x)
      PROVE  AllGrounded'
  BY <1>4, ReshapedGrounds, ThrowGrounds, Zenon DEF Reshape, View
<1>5. ASSUME NEW i, NEW j, Flatten(s, d, i, j)
      PROVE  AllGrounded'
  BY <1>5, ReshapedGrounds, ThrowGrounds, Zenon DEF Flatten
<1>6. ASSUME NEW dim, Unsqueeze(s, d, dim)
      PROVE  AllGrounded'
  BY <1>6, ReshapedGrounds, ThrowGrounds, Zenon DEF Unsqueeze
<1>7. ASSUME NEW dim, Squeeze(s, d, dim)
      PROVE  AllGrounded'
  <2>1. Grounded(slot[s])
    BY DEF AllGrounded
  <2> QED  BY <1>7, <2>1, ReshapedGrounds, ReturnGrounds, ThrowGrounds, Zenon DEF Squeeze
<1>8. ASSUME NEW p, Permute(s, d, p)
      PROVE  AllGrounded'
  BY <1>8, ConstructGrounds, ThrowGrounds, Zenon DEF Permute
<1>9. ASSUME NEW i, NEW j, Transpose(s, d, i, j)
      PROVE  AllGrounded'
  BY <1>9, ConstructGrounds, ThrowGrounds, Zenon DEF Transpose
<1>10. ASSUME NEW n, NEW dim, NEW k \in 1..2, Split(s, d, n, dim, k) \/ Chunk(s, d, n, dim, k)
       PROVE  AllGrounded'
  <2>1. k \in Nat \ {0}
    OBVIOUS
  <2>2. CASE Split(s, d, n, dim, k)
    BY <2>1, <2>2, SplitGrounds
  <2>3. CASE Chunk(s, d, n, dim, k)
    BY <2>1, <2>3, SplitGrounds, ThrowGrounds, Zenon DEF Chunk
  <2> QED  BY <1>10, <2>2, <2>3
<1>11. ASSUME SqueezeAll(s, d) \/ Contiguous(s, d) \/ Copy(s, d)
       PROVE  AllGrounded'
  BY <1>11, ReshapedGrounds, CopiesGround, Zenon DEF SqueezeAll
<1> QED
  BY <1>1, <1>2, <1>3, <1>4, <1>5, <1>6, <1>7, <1>8, <1>9, <1>10, <1>11, Zenon DEF OneOperand

\* Every step keeps the tensors grounded.
LEMMA NextGrounds == IInv /\ IInv' /\ AllGrounded /\ [Next]_vars => AllGrounded'
<1> SUFFICES ASSUME IInv, IInv', AllGrounded, [Next]_vars
             PROVE  AllGrounded'
  OBVIOUS
<1>1. ASSUME NEW d \in Slots, NEW shape, NEW size, FromVector(d, shape, size)
      PROVE  AllGrounded'
  <2>1. CASE Numel(shape) = size
    BY <1>1, <2>1, FreshGrounds DEF FromVector
  <2>2. CASE Numel(shape) # size
    BY <1>1, <2>2, ThrowGrounds DEF FromVector
  <2> QED  BY <2>1, <2>2
<1>2. ASSUME NEW s \in Slots, CallOnUndefined(s)
      PROVE  AllGrounded'
  BY <1>2, ThrowGrounds DEF CallOnUndefined
<1>3. ASSUME NEW s \in Slots, NEW d \in Slots, slot[s] # Undefined, OneOperand(s, d)
      PROVE  AllGrounded'
  BY <1>3, CallGrounds
<1>4. CASE UNCHANGED vars
  BY <1>4 DEF vars, AllGrounded, Grounded, Reach, Backward, Rank
<1> QED  BY <1>1, <1>2, <1>3, <1>4, Zenon DEF Next

\* Initially there are no tensors.
LEMMA GroundedInitially == Init => AllGrounded
BY DEF Init, AllGrounded

-----------------------------------------------------------------------------
(* Selecting and permuting, seen by a caller.                                *)

\* A view that is grounded is constructed, and shows its array.
LEMMA Constructed ==
    ASSUME IInv, NEW d \in Slots, NEW t, Good(t, memory), NEW u, NEW M, IsView(u, t, M),
           Grounded(u), Construct(d, u)
    PROVE  Yields(d, Shown(u, memory))
<1>1. memory \in Seq(Seq(Int)) /\ Extends(memory, memory)
  BY DEF IInv, AllGood, Extends
<1>2. u.offset >= 0
  BY GroundedOffset DEF IsView
<1>3. Good(u, memory)
  BY <1>2, ViewIsGood
<1>4. Return(d, u, memory)
  BY <1>1, <1>3, Accepted DEF Construct
<1> QED  BY <1>1, <1>3, <1>4, Returned

\* A view that the constructor may refuse shows its array, or the call throws.
LEMMA MayConstruct ==
    ASSUME IInv, NEW d \in Slots, NEW t, Good(t, memory), NEW u, NEW M, IsView(u, t, M),
           Construct(d, u)
    PROVE  Yields(d, Shown(u, memory)) \/ Refuses
<1>1. memory \in Seq(Seq(Int)) /\ Extends(memory, memory)
  BY DEF IInv, AllGood, Extends
<1>2. CASE ValidLayout(u)
  <2>1. Good(u, memory)
    BY <1>2, ViewIsGood DEF ValidLayout
  <2>2. Return(d, u, memory)
    BY <1>2 DEF Construct
  <2> QED  BY <1>1, <2>1, <2>2, Returned
<1>3. CASE ~ValidLayout(u)
  BY <1>3, Thrown DEF Construct
<1> QED  BY <1>2, <1>3

\* Dimensions and indices are in range there when they are in range here.
LEMMA RangeIs ==
    ASSUME NEW i \in Int, NEW n \in Nat
    PROVE  /\ Values!InRange(i, n) <=> ValidDim(i, n)
           /\ ValidDim(i, n) <=> NormalizedDim(i, n) \in 0..n - 1
           /\ Values!Wrapped(i, n) = NormalizedDim(i, n)
BY DEF Values!InRange, Values!Wrapped, ValidDim, NormalizedDim

\* An axis is the same there and here.
LEMMA AxisIs ==
    ASSUME NEW t, NEW storages, NEW dim
    PROVE  Values!Axis(dim, Len(Shown(t, storages).shape)) = AxisOf(dim, t)
BY DEF Values!Axis, Values!Wrapped, AxisOf, NormalizedDim, Rank, Shown

\* select() yields the array without an axis, or is refused.
LEMMA SelectImplements ==
    ASSUME IInv, AllGrounded, NEW s \in Slots, NEW d \in Slots, slot[s] # Undefined,
           NEW dim \in Int, NEW index \in Int, Select(s, d, dim, index)
    PROVE  Values!Select(s, d, dim, index)
<1> DEFINE t == slot[s]
           a == Shown(t, memory)
           axis == AxisOf(dim, t)
           i == NormalizedDim(index, t.shape[axis])
           u == [t EXCEPT !.shape = RemoveAt(@, axis), !.strides = RemoveAt(@, axis),
                          !.offset = @ + i * t.strides[axis]]
<1>1. Good(t, memory) /\ IsLayout(t) /\ Grounded(t) /\ Arrays[s] = a
  BY OperandIsGood, ArrayIs DEF AllGrounded
<1>2. a.shape = t.shape /\ Len(t.shape) \in Nat /\ \A k \in 1..Len(t.shape) : t.shape[k] \in Nat
  BY <1>1, LayoutType DEF Shown
<1>3. Values!Select(s, d, dim, index) <=>
        IF Values!InRange(dim, Len(a.shape)) /\ Values!InRange(index, a.shape[axis])
        THEN Yields(d, Values!Pick(a, axis, Values!Wrapped(index, a.shape[axis])))
        ELSE Refuses
  <2>1. Values!Axis(dim, Len(a.shape)) = axis
    BY AxisIs
  <2> HIDE DEF a, axis
  <2> QED  BY <1>1, <2>1 DEF Values!Select, Values!Result, Values!Refuse, Yields, Refuses, Arrays
<1>4. Values!InRange(dim, Len(a.shape)) <=> ValidDim(dim, Rank(t))
  BY <1>2, RangeIs DEF Rank
<1>5. ASSUME ValidDim(dim, Rank(t))
      PROVE  /\ axis \in 1..Len(t.shape)
             /\ Values!InRange(index, a.shape[axis]) <=> i \in 0..t.shape[axis] - 1
             /\ Values!Wrapped(index, a.shape[axis]) = i
  <2>1. axis \in 1..Len(t.shape)
    <3> HIDE DEF t
    <3> QED  BY <1>1, <1>5, AxisInRange
  <2>2. t.shape[axis] \in Nat
    BY <1>2, <2>1
  <2> HIDE DEF t, axis, a
  <2> QED  BY <1>2, <2>1, <2>2, RangeIs
<1>6. CASE ValidDim(dim, Rank(t)) /\ i \in 0..t.shape[axis] - 1
  <2>1. Construct(d, u)
    BY <1>6 DEF Select
  <2>2. IsLayout(u) /\ Selects(u, t, axis, i)
    <3> HIDE DEF t, axis, i
    <3> QED  BY <1>1, <1>5, <1>6, SelectedIs, Zenon
  <2> HIDE DEF u, i, axis, t
  <2>3. Grounded(u) /\ IsView(u, t, Selecting(u, t, axis, i)) /\ Values!Pick(a, axis, i) = Shown(u, memory)
    BY <1>1, <1>5, <1>6, <2>2, SelectionGrounds, SelectionShows, SelectionShown
  <2>4. Yields(d, Shown(u, memory))
    BY <1>1, <2>1, <2>3, Constructed
  <2> HIDE DEF a
  <2> QED  BY <1>3, <1>4, <1>5, <1>6, <2>3, <2>4
<1>7. CASE ~(ValidDim(dim, Rank(t)) /\ i \in 0..t.shape[axis] - 1)
  <2>1. Throw
    BY <1>7 DEF Select
  <2>2. Refuses
    BY <2>1, Thrown
  <2> HIDE DEF a, t, axis, i
  <2> QED  BY <1>3, <1>4, <1>5, <1>7, <2>2
<1> QED  BY <1>6, <1>7

\* The axes of a tensor in another order.
LEMMA PermutedResult ==
    ASSUME IInv, NEW d \in Slots, NEW t, Good(t, memory), Grounded(t),
           NEW p, DOMAIN p = 1..Len(t.shape), Rearranges(p, Len(t.shape)),
           Construct(d, Permuted(t, p))
    PROVE  Yields(d, Values!Permuted(Shown(t, memory), p))
<1> DEFINE u == Permuted(t, p)
           n == Len(t.shape)
<1>1. IsLayout(t) /\ n = Len(t.shape) /\ Rearranges(p, n)
  BY DEF Good, Sound
<1>2. IsLayout(u) /\ Permutes(u, t, p)
  BY <1>1, PermutedPermutes
<1> HIDE DEF u, n
<1>3. Grounded(u) /\ IsView(u, t, Permuting(u, n, p))
  BY <1>1, <1>2, PermutationGrounds, PermutationShows
<1>4. Values!Permuted(Shown(t, memory), p) = Shown(u, memory)
  BY <1>1, <1>2, PermutationShown
<1>5. Construct(d, u)
  BY DEF u
<1>6. Yields(d, Shown(u, memory))
  BY <1>3, <1>5, Constructed
<1> QED  BY <1>4, <1>6

\* permute() yields the array with its axes in the order asked for.
LEMMA PermuteImplements ==
    ASSUME IInv, AllGrounded, NEW s \in Slots, NEW d \in Slots, slot[s] # Undefined,
           NEW dims \in Seq(Int), Permute(s, d, dims)
    PROVE  Values!Permute(s, d, dims)
<1> DEFINE t == slot[s]
           a == Shown(t, memory)
           n == Len(a.shape)
           axes == [i \in 1..Len(dims) |-> AxisOf(dims[i], t)]
           p == [i \in 1..n |-> Values!Axis(dims[i], n)]
           valid == /\ Len(dims) = Rank(t)
                    /\ \A i \in 1..Rank(t) : ValidDim(dims[i], Rank(t))
                    /\ IsInjective(axes)
<1>1. Good(t, memory) /\ IsLayout(t) /\ Grounded(t) /\ Arrays[s] = a
  BY OperandIsGood, ArrayIs DEF AllGrounded
<1>2. a.shape = t.shape /\ n \in Nat /\ Rank(t) = n
  BY <1>1, LayoutType DEF Shown, Rank
<1>3. Values!Permute(s, d, dims) <=>
        IF Len(dims) = n /\ (\A i \in 1..n : Values!InRange(dims[i], n)) /\ Values!IsInjective(p)
        THEN Yields(d, Values!Permuted(a, p))
        ELSE Refuses
  <2> HIDE DEF a
  <2> QED  BY <1>1 DEF Values!Permute, Values!Result, Values!Refuse, Yields, Refuses, Arrays
<1>4. ASSUME Len(dims) = n
      PROVE  p = axes /\ \A i \in 1..n : Values!InRange(dims[i], n) <=> ValidDim(dims[i], n)
  <2>1. \A i \in 1..n : Values!Axis(dims[i], n) = AxisOf(dims[i], t)
    BY AxisIs
  <2>2. p = axes
    <3> HIDE DEF n, a, t
    <3>1. 1..Len(dims) = 1..n
      BY <1>4
    <3> QED  BY <2>1, <3>1, Zenon
  <2>3. \A i \in 1..n : dims[i] \in Int
    BY <1>4, ElementOfSeq
  <2> HIDE DEF n, p, axes
  <2>4. \A i \in 1..n : Values!InRange(dims[i], n) <=> ValidDim(dims[i], n)
    BY <1>2, <2>3, RangeIs
  <2> QED  BY <2>2, <2>4
<1>5. valid <=> Len(dims) = n /\ (\A i \in 1..n : Values!InRange(dims[i], n)) /\ Values!IsInjective(p)
  <2>1. Values!IsInjective(p) <=> IsInjective(p)
    BY SameInjective
  <2> HIDE DEF n, p, axes, a, t
  <2> QED  BY <1>2, <1>4, <2>1
<1>6. CASE valid
  <2>1. Construct(d, Permuted(t, axes))
    BY <1>6 DEF Permute
  <2>2. Rearranges(axes, Len(t.shape)) /\ DOMAIN axes = 1..Len(t.shape)
    <3>1. DOMAIN axes = 1..Len(t.shape)
      BY <1>6 DEF Rank
    <3>2. Len(dims) = Rank(t) /\ \A i \in 1..Rank(t) : ValidDim(dims[i], Rank(t))
      BY <1>6
    <3>3. IsInjective([i \in 1..Len(dims) |-> AxisOf(dims[i], t)])
      BY <1>6
    <3> HIDE DEF t
    <3>4. Rearranges([i \in 1..Len(dims) |-> AxisOf(dims[i], t)], Len(t.shape))
      BY <1>1, <3>2, <3>3, AxesRearrange
    <3> QED  BY <3>1, <3>4
  <2>3. Yields(d, Values!Permuted(a, axes))
    <3> HIDE DEF t, axes
    <3> QED  BY <1>1, <2>1, <2>2, PermutedResult
  <2>4. p = axes
    BY <1>2, <1>4, <1>6
  <2> HIDE DEF a, n, p, axes, valid
  <2> QED  BY <1>3, <1>5, <1>6, <2>3, <2>4
<1>7. CASE ~valid
  <2>1. Throw
    BY <1>7 DEF Permute
  <2>2. Refuses
    BY <2>1, Thrown
  <2> HIDE DEF a, n, p, axes, valid
  <2> QED  BY <1>3, <1>5, <1>7, <2>2
<1> QED  BY <1>6, <1>7

\* transpose() yields the array with two axes swapped.
LEMMA TransposeImplements ==
    ASSUME IInv, AllGrounded, NEW s \in Slots, NEW d \in Slots, slot[s] # Undefined,
           NEW dim0 \in Int, NEW dim1 \in Int, Transpose(s, d, dim0, dim1)
    PROVE  Values!Transpose(s, d, dim0, dim1)
<1> DEFINE t == slot[s]
           a == Shown(t, memory)
           n == Len(a.shape)
           i == AxisOf(dim0, t)
           j == AxisOf(dim1, t)
           p == [[k \in 1..n |-> k] EXCEPT ![i] = j, ![j] = i]
<1>1. Good(t, memory) /\ IsLayout(t) /\ Grounded(t) /\ Arrays[s] = a
  BY OperandIsGood, ArrayIs DEF AllGrounded
<1>2. a.shape = t.shape /\ n \in Nat /\ Rank(t) = n
  BY <1>1, LayoutType DEF Shown, Rank
<1>3. Values!Transpose(s, d, dim0, dim1) <=>
        IF Values!InRange(dim0, n) /\ Values!InRange(dim1, n)
        THEN Yields(d, Values!Permuted(a, p))
        ELSE Refuses
  <2>1. Values!Axis(dim0, n) = i /\ Values!Axis(dim1, n) = j
    BY AxisIs
  <2> HIDE DEF a, i, j
  <2> QED  BY <1>1, <2>1 DEF Values!Transpose, Values!Result, Values!Refuse, Yields, Refuses, Arrays
<1>4. (Values!InRange(dim0, n) <=> ValidDim(dim0, Rank(t))) /\ (Values!InRange(dim1, n) <=> ValidDim(dim1, Rank(t)))
  <2> HIDE DEF n
  <2> QED  BY <1>2, RangeIs
<1>5. CASE ValidDim(dim0, Rank(t)) /\ ValidDim(dim1, Rank(t))
  <2>1. Construct(d, Permuted(t, p))
    BY <1>2, <1>5 DEF Transpose
  <2>2. i \in 1..n /\ j \in 1..n
    <3> HIDE DEF t
    <3>1. i \in 1..Len(t.shape) /\ j \in 1..Len(t.shape)
      BY <1>1, <1>5, AxisInRange
    <3> QED  BY <1>2, <3>1
  <2>3. Rearranges(p, Len(t.shape)) /\ DOMAIN p = 1..Len(t.shape)
    <3>1. DOMAIN p = 1..Len(t.shape) /\ n = Len(t.shape)
      BY <1>2
    <3> HIDE DEF n, i, j, t, a
    <3>2. Rearranges(p, n)
      BY <1>2, <2>2, SwapRearranges
    <3> QED  BY <3>1, <3>2
  <2> HIDE DEF t, p
  <2>4. Yields(d, Values!Permuted(a, p))
    BY <1>1, <2>1, <2>3, PermutedResult
  <2> HIDE DEF a, n
  <2> QED  BY <1>3, <1>4, <1>5, <2>4
<1>6. CASE ~(ValidDim(dim0, Rank(t)) /\ ValidDim(dim1, Rank(t)))
  <2>1. Throw
    BY <1>6 DEF Transpose
  <2>2. Refuses
    BY <2>1, Thrown
  <2> HIDE DEF a, n, t, p
  <2> QED  BY <1>3, <1>4, <1>6, <2>2
<1> QED  BY <1>5, <1>6

-----------------------------------------------------------------------------
(* Slicing, seen by a caller.                                                *)

\* TensorValues counts sets as the tensors do.
LEMMA SameCardinality == \A S : Values!Cardinality(S) = Cardinality(S)
BY DEF Cardinality, Values!Cardinality

\* Numbers from 0 up are as many as the next one.
LEMMA CountedFromZero ==
    ASSUME NEW n \in Nat
    PROVE  Cardinality(0..n - 1) = n
<1> DEFINE zero == 0
           last == n - 1
<1>1. zero \in Int /\ last \in Int
  OBVIOUS
<1>2. last = n - 1 /\ zero = 0
  OBVIOUS
<1> HIDE DEF zero, last
<1>3. Cardinality(zero..last) = IF zero > last THEN 0 ELSE last - zero + 1
  BY <1>1, FS_Interval
<1>4. Cardinality(zero..last) = n
  BY <1>2, <1>3
<1> QED  BY <1>2, <1>4

\* length is the number of steps from 0 to m, of which there are size.
StepCount(length, m, step, size) ==
    /\ length \in Nat /\ length <= size
    /\ \A k \in Nat : k * step <= m <=> k < length

\* How many steps of an axis are within a distance.
LEMMA StepsWithin ==
    ASSUME NEW m \in Nat, NEW size \in Nat, m < size, NEW step \in Nat \ {0}
    PROVE  StepCount(1 + m \div step, m, step, size)
<1> DEFINE q == m \div step
<1>1. q \in Nat /\ m % step \in 0..step - 1 /\ m = (m % step) + q * step
  BY Division
<1>2. 1 + q \in Nat /\ \A x \in Nat : x < 1 + q => x * step \in 0..m
  BY StepsFit
<1> HIDE DEF q
<1>3. ASSUME NEW k \in Nat, k * step <= m
      PROVE  k < 1 + q
  <2> SUFFICES ASSUME k >= 1 + q
               PROVE  FALSE
    BY <1>1
  <2> DEFINE x == k - q - 1
             r == m % step
  <2>1. x \in Nat /\ k = x + q + 1
    BY <1>1
  <2> HIDE DEF x
  <2>2. k * step = x * step + q * step + step
    BY <1>1, <2>1
  <2>3. x * step \in Nat /\ q * step \in Int /\ k * step \in Int
    BY <1>1, <2>1
  <2>4. r < step /\ m = r + q * step /\ r \in Nat
    BY <1>1
  <2> DEFINE a == x * step
             b == q * step
             e == k * step
  <2>5. e = a + b + step /\ a \in Nat /\ b \in Int /\ e \in Int /\ m = r + b /\ e <= m
    BY <1>3, <2>2, <2>3, <2>4
  <2> HIDE DEF a, b, e, r
  <2> QED  BY <2>4, <2>5
<1>4. \A k \in Nat : k < 1 + q => k * step <= m
  BY <1>2
<1>5. 1 + q <= size
  <2>1. q * step \in 0..m
    <3>1. q < 1 + q
      BY <1>1
    <3> QED  BY <1>1, <1>2, <3>1
  <2>2. q <= q * step
    <3>1. step - 1 \in Nat
      OBVIOUS
    <3>2. q * (step - 1) \in Nat
      BY <1>1, <3>1
    <3>3. q * (step - 1) = q * step - q
      BY <1>1
    <3> DEFINE a == q * step
               b == q * (step - 1)
    <3>4. b = a - q /\ b \in Nat /\ a \in Int
      BY <2>1, <3>2, <3>3
    <3> HIDE DEF a, b
    <3>5. q <= a
      BY <1>1, <3>4
    <3> QED  BY <3>5 DEF a
  <2> DEFINE a == q * step
  <2>3. a \in 0..m /\ q <= a
    BY <2>1, <2>2
  <2> HIDE DEF a
  <2> QED  BY <1>1, <2>3
<1> QED  BY <1>2, <1>3, <1>4, <1>5 DEF q, StepCount

\* Where a slice begins and ends, in Python and after normalize_slice().
StepsUp(size, from, to, step, first, start, stop, length) ==
    /\ first = IF 0 >= from THEN 0 ELSE from
    /\ start = Clamp(from, 0, size) /\ stop = Clamp(to, 0, size)
    /\ length = IF stop <= start THEN 0 ELSE 1 + (stop - start - 1) \div step
StepsDown(size, from, to, back, first, start, stop, length) ==
    /\ first = IF size - 1 <= from THEN size - 1 ELSE from
    /\ start = Clamp(from, -1, size - 1) /\ stop = Clamp(to, -1, size - 1)
    /\ length = IF start <= stop THEN 0 ELSE 1 + (start - stop - 1) \div back

\* Python counts the positions that a slice takes; normalize_slice() computes
\* how many there are.
LEMMA TakenForward ==
    ASSUME NEW size \in Nat, NEW from \in Int, NEW to \in Int, NEW step \in Nat \ {0},
           NEW first, NEW start, NEW stop, NEW length,
           StepsUp(size, from, to, step, first, start, stop, length)
    PROVE  /\ length \in Nat
           /\ {k \in 0..size - 1 : first + k * step \in 0..size - 1 /\ first + k * step < to} = 0..length - 1
           /\ length > 0 => first = start
<1> DEFINE taken == {k \in 0..size - 1 : first + k * step \in 0..size - 1 /\ first + k * step < to}
<1> USE DEF StepsUp
<1>1. start \in 0..size /\ stop \in 0..size /\ first \in Nat
  BY DEF Clamp
<1>2. ASSUME NEW k \in Nat
      PROVE  k * step \in Nat
  OBVIOUS
<1>3. CASE stop <= start
  <2>1. length = 0
    BY <1>3
  <2>2. ASSUME NEW k \in taken
        PROVE  FALSE
    <3> DEFINE x == k * step
    <3>1. x \in Nat /\ first + x \in 0..size - 1 /\ first + x < to
      BY <1>2, <2>2
    <3> HIDE DEF x
    <3>2. first < size /\ first < to
      BY <1>1, <3>1
    <3> QED  BY <1>1, <1>3, <3>2 DEF Clamp
  <2>3. taken = 0..length - 1
    <3>1. taken = {} /\ 0..length - 1 = {}
      BY <2>1, <2>2
    <3> QED  BY <3>1
  <2> QED  BY <2>1, <2>3
<1>4. CASE ~(stop <= start)
  <2> DEFINE m == stop - start - 1
  <2>1. m \in Nat /\ m < size /\ first = start
    BY <1>1, <1>4 DEF Clamp
  <2>2. length = 1 + m \div step
    BY <1>4
  <2>3. ASSUME NEW x \in Nat
        PROVE  first + x \in 0..size - 1 /\ first + x < to <=> x <= m
    BY <1>1, <1>4, <2>1 DEF Clamp
  <2> HIDE DEF m
  <2>4. length \in Nat /\ length <= size /\ \A k \in Nat : k * step <= m <=> k < length
    <3>1. StepCount(1 + m \div step, m, step, size)
      BY <2>1, StepsWithin
    <3> QED  BY <2>2, <3>1 DEF StepCount
  <2>5. taken = {k \in 0..size - 1 : k < length}
    <3>1. \A k \in 0..size - 1 : first + k * step \in 0..size - 1 /\ first + k * step < to <=> k < length
      <4> SUFFICES ASSUME NEW k \in 0..size - 1
                   PROVE  first + k * step \in 0..size - 1 /\ first + k * step < to <=> k < length
        OBVIOUS
      <4> DEFINE x == k * step
      <4>1. k \in Nat /\ x \in Nat
        BY <1>2
      <4> HIDE DEF x
      <4>2. first + x \in 0..size - 1 /\ first + x < to <=> x <= m
        BY <2>3, <4>1
      <4>3. x <= m <=> k < length
        BY <2>4, <4>1 DEF x
      <4> QED  BY <4>2, <4>3 DEF x
    <3> QED  BY <3>1
  <2>6. {k \in 0..size - 1 : k < length} = 0..length - 1
    <3> QED  BY <2>4
  <2> QED  BY <2>1, <2>4, <2>5, <2>6
<1> QED  BY <1>3, <1>4

\* The number of elements to step back over.
Negates(back, step) == back = -step

\* The same for negative steps; a stop before the first element lets it in.
LEMMA TakenBackward ==
    ASSUME NEW size \in Nat, NEW from \in Int, NEW to \in Int, NEW step \in Int, NEW back \in Nat \ {0},
           Negates(back, step),
           NEW first, NEW start, NEW stop, NEW length,
           StepsDown(size, from, to, back, first, start, stop, length)
    PROVE  /\ length \in Nat
           /\ {k \in 0..size - 1 : first + k * step \in 0..size - 1 /\ first + k * step > to} = 0..length - 1
           /\ length > 0 => first = start
<1> DEFINE taken == {k \in 0..size - 1 : first + k * step \in 0..size - 1 /\ first + k * step > to}
<1> USE DEF StepsDown
<1>1. start \in -1..size - 1 /\ stop \in -1..size - 1 /\ first \in Int /\ first <= size - 1
  BY DEF Clamp
<1>2. ASSUME NEW k \in Nat
      PROVE  k * back \in Nat /\ k * step = -(k * back)
  <2>1. k * back \in Nat
    OBVIOUS
  <2>2. k * step = -(k * (-step))
    BY Opposite
  <2> QED  BY <2>1, <2>2 DEF Negates
<1>3. CASE start <= stop
  <2>1. length = 0
    BY <1>3
  <2>2. ASSUME NEW k \in taken
        PROVE  FALSE
    <3> DEFINE x == k * back
               y == k * step
    <3>1. x \in Nat /\ y = -x /\ first + y \in 0..size - 1 /\ first + y > to
      BY <1>2, <2>2
    <3> HIDE DEF x, y
    <3>2. first + (-x) \in 0..size - 1 /\ first + (-x) > to /\ x \in Nat
      BY <3>1
    <3>3. first > to /\ first >= 0 /\ first - x >= 0 /\ first - x > to /\ x \in Nat
      BY <1>1, <3>2
    <3>4. start = first
      BY <1>1, <3>3 DEF Clamp
    <3>5. stop < first
      BY <1>1, <3>2, <3>3 DEF Clamp
    <3> QED  BY <1>1, <1>3, <3>4, <3>5
  <2>3. taken = 0..length - 1
    <3>1. taken = {}
      BY <2>2
    <3>2. 0..length - 1 = {}
      BY <2>1
    <3> HIDE DEF taken
    <3> QED  BY <3>1, <3>2
  <2> QED  BY <2>1, <2>3
<1>4. CASE ~(start <= stop)
  <2> DEFINE m == start - stop - 1
  <2>1. m \in Nat /\ m < size /\ first = start
    BY <1>1, <1>4 DEF Clamp
  <2>2. length = 1 + m \div back
    BY <1>4
  <2>3. ASSUME NEW x \in Nat
        PROVE  first + (-x) \in 0..size - 1 /\ first + (-x) > to <=> x <= m
    BY <1>1, <1>4, <2>1 DEF Clamp
  <2> HIDE DEF m
  <2>4. length \in Nat /\ length <= size /\ \A k \in Nat : k * back <= m <=> k < length
    <3>1. StepCount(1 + m \div back, m, back, size)
      BY <2>1, StepsWithin
    <3> QED  BY <2>2, <3>1 DEF StepCount
  <2>5. taken = {k \in 0..size - 1 : k < length}
    <3>1. \A k \in 0..size - 1 : first + k * step \in 0..size - 1 /\ first + k * step > to <=> k < length
      <4> SUFFICES ASSUME NEW k \in 0..size - 1
                   PROVE  first + k * step \in 0..size - 1 /\ first + k * step > to <=> k < length
        OBVIOUS
      <4> DEFINE x == k * back
                 y == k * step
      <4>1. k \in Nat /\ x \in Nat /\ y = -x
        BY <1>2
      <4> HIDE DEF x, y
      <4>2. first + y \in 0..size - 1 /\ first + y > to <=> x <= m
        BY <2>3, <4>1
      <4>3. x <= m <=> k < length
        BY <2>4, <4>1 DEF x
      <4> QED  BY <4>2, <4>3 DEF y
    <3> QED  BY <3>1
  <2>6. {k \in 0..size - 1 : k < length} = 0..length - 1
    <3> QED  BY <2>4
  <2> QED  BY <2>1, <2>4, <2>5, <2>6
<1> QED  BY <1>3, <1>4

\* The positions that Python takes are those that normalize_slice() does.
LEMMA PositionsAre ==
    ASSUME NEW slice, slice.start \in Int \cup {Omitted}, slice.stop \in Int \cup {Omitted},
           slice.step \in Int \ {0}, NEW size \in Nat
    PROVE  LET n == NormalizedSlice(slice, size)
               p == Values!Positions(slice, size)
           IN  /\ Len(p) = n.length
               /\ n.length > 0 => Progression(p, n.start, slice.step)
<1> DEFINE step == slice.step
           from == IF slice.start = Omitted THEN (IF step > 0 THEN 0 ELSE size - 1)
                   ELSE NormalizedDim(slice.start, size)
           to == IF slice.stop = Omitted THEN (IF step > 0 THEN size ELSE -1)
                 ELSE NormalizedDim(slice.stop, size)
           first == IF step > 0 THEN (IF 0 >= from THEN 0 ELSE from)
                    ELSE (IF size - 1 <= from THEN size - 1 ELSE from)
           taken == {k \in 0..size - 1 : /\ first + k * step \in 0..size - 1
                                         /\ IF step > 0 THEN first + k * step < to ELSE first + k * step > to}
           low == IF step > 0 THEN 0 ELSE -1
           high == IF step > 0 THEN size ELSE size - 1
           start == Clamp(from, low, high)
           stop == Clamp(to, low, high)
           length == IF step > 0
                     THEN IF stop <= start THEN 0 ELSE 1 + (stop - start - 1) \div step
                     ELSE IF start <= stop THEN 0 ELSE 1 + (start - stop - 1) \div (-step)
           n == NormalizedSlice(slice, size)
           p == Values!Positions(slice, size)
<1>1. step \in Int \ {0} /\ from \in Int /\ to \in Int
  BY DEF NormalizedDim
<1>2. n.start = start /\ n.length = length
  BY DEF NormalizedSlice
<1>3. p = [k \in 1..Cardinality(taken) |-> first + (k - 1) * step]
  <2>1. Values!Max({0, from}) = IF 0 >= from THEN 0 ELSE from
    <3> DEFINE zero == 0
    <3>1. zero \in Int
      OBVIOUS
    <3> HIDE DEF from, zero
    <3>2. Max({zero, from}) = IF zero >= from THEN zero ELSE from
      BY <1>1, <3>1, MaxOfTwo
    <3>3. Values!Max({zero, from}) = Max({zero, from})
      BY SameBounds
    <3> QED  BY <3>2, <3>3 DEF zero
  <2>2. Values!Min({size - 1, from}) = IF size - 1 <= from THEN size - 1 ELSE from
    <3> DEFINE last == size - 1
    <3>1. last \in Int
      OBVIOUS
    <3> HIDE DEF from, last
    <3>2. Min({last, from}) = IF last <= from THEN last ELSE from
      BY <1>1, <3>1, MinOfTwo
    <3>3. Values!Min({last, from}) = Min({last, from})
      BY SameBounds
    <3> QED  BY <3>2, <3>3 DEF last
  <2>3. p = LET f == IF step > 0 THEN Values!Max({0, from}) ELSE Values!Min({size - 1, from})
                r == {k \in 0..size - 1 : /\ f + k * step \in 0..size - 1
                                          /\ IF step > 0 THEN f + k * step < to ELSE f + k * step > to}
            IN  [k \in 1..Values!Cardinality(r) |-> f + (k - 1) * step]
    BY DEF Values!Positions, Values!Wrapped, NormalizedDim
  <2>4. first = IF step > 0 THEN Values!Max({0, from}) ELSE Values!Min({size - 1, from})
    <3> HIDE DEF from, step
    <3> QED  BY <2>1, <2>2
  <2> HIDE DEF p, first, to, from, step
  <2>5. p = [k \in 1..Values!Cardinality(taken) |-> first + (k - 1) * step]
    BY <2>3, <2>4
  <2> HIDE DEF taken
  <2> QED  BY <2>5, SameCardinality
<1>4. length \in Nat /\ taken = 0..length - 1 /\ (length > 0 => first = start)
  <2>1. CASE step > 0
    <3>1. StepsUp(size, from, to, step, first, start, stop, length)
      BY <2>1 DEF StepsUp
    <3>2. taken = {k \in 0..size - 1 : first + k * step \in 0..size - 1 /\ first + k * step < to}
      BY <2>1
    <3>3. step \in Nat \ {0}
      BY <1>1, <2>1
    <3> HIDE DEF from, to, step, first, start, stop, length, taken
    <3>4. {k \in 0..size - 1 : first + k * step \in 0..size - 1 /\ first + k * step < to} = 0..length - 1
      BY <1>1, <3>1, <3>3, TakenForward
    <3>5. length \in Nat /\ (length > 0 => first = start)
      BY <1>1, <3>1, <3>3, TakenForward
    <3> QED  BY <3>2, <3>4, <3>5
  <2>2. CASE ~(step > 0)
    <3> DEFINE back == -step
    <3>1. StepsDown(size, from, to, back, first, start, stop, length)
      BY <2>2 DEF StepsDown
    <3>2. taken = {k \in 0..size - 1 : first + k * step \in 0..size - 1 /\ first + k * step > to}
      BY <2>2
    <3>3. step \in Int /\ back \in Nat \ {0} /\ Negates(back, step)
      BY <1>1, <2>2 DEF Negates
    <3> HIDE DEF from, to, step, back, first, start, stop, length, taken
    <3>4. {k \in 0..size - 1 : first + k * step \in 0..size - 1 /\ first + k * step > to} = 0..length - 1
      BY <1>1, <3>1, <3>3, TakenBackward
    <3>5. length \in Nat /\ (length > 0 => first = start)
      BY <1>1, <3>1, <3>3, TakenBackward
    <3> QED  BY <3>2, <3>4, <3>5
  <2> QED  BY <2>1, <2>2
<1>5. first \in Int
  <2> HIDE DEF from, step
  <2> QED  BY <1>1
<1> HIDE DEF step, from, to, first, taken, start, stop, length, n, p
<1>6. p = [k \in 1..length |-> first + (k - 1) * step]
  <2>1. Cardinality(taken) = length
    BY <1>4, CountedFromZero
  <2> QED  BY <1>3, <2>1
<1>7. p \in Seq(Int) /\ Len(p) = length
  <2>1. \A k \in 1..length : first + (k - 1) * step \in Int
    <3> SUFFICES ASSUME NEW k \in 1..length
                 PROVE  first + (k - 1) * step \in Int
      OBVIOUS
    <3> DEFINE j == k - 1
               x == j * step
    <3>1. j \in Int
      BY <1>4
    <3> HIDE DEF j
    <3>2. x \in Int
      BY <1>1, <3>1
    <3> HIDE DEF x
    <3>3. first + x \in Int
      BY <1>5, <3>2
    <3> QED  BY <3>3 DEF x, j
  <2>2. p \in [1..length -> Int]
    BY <1>6, <2>1
  <2> QED  BY <1>4, <2>2, FunctionsAreSequences
<1>8. \A x \in Nat : x < Len(p) => p[x + 1] = first + x * step
  <2> SUFFICES ASSUME NEW x \in Nat, x < Len(p)
               PROVE  p[x + 1] = first + x * step
    OBVIOUS
  <2> DEFINE k == x + 1
  <2>1. k \in 1..length /\ k - 1 = x
    BY <1>4, <1>7
  <2> HIDE DEF k
  <2>2. p[k] = first + (k - 1) * step
    BY <1>6, <2>1
  <2> QED  BY <2>1, <2>2 DEF k
<1>9. length > 0 => Progression(p, start, step)
  BY <1>4, <1>7, <1>8 DEF Progression
<1> QED  BY <1>2, <1>7, <1>9 DEF n, p, step

\* slice() and split() take what a normalized slice does.
LEMMA SlicedIs ==
    ASSUME NEW t, IsLayout(t), NEW axis \in 1..Len(t.shape), NEW start \in Int, NEW stop \in Int,
           NEW step \in Int, step > 0
    PROVE  LET n == NormalizedSlice([start |-> start, stop |-> stop, step |-> step], t.shape[axis])
           IN  SlicedView(t, axis, start, stop, step) = OneSliced(t, axis, n.length, n.start, step)
<1> DEFINE slice == [start |-> start, stop |-> stop, step |-> step]
           n == NormalizedSlice(slice, t.shape[axis])
           size == t.shape[axis]
           first == Clamp(NormalizedDim(start, size), 0, size)
           end == Clamp(NormalizedDim(stop, size), 0, size)
           length == IF end <= first THEN 0 ELSE 1 + (end - first - 1) \div step
<1>1. start # Omitted /\ stop # Omitted
  BY OmittedAssumption
<1>2. n.start = first /\ n.length = length
  BY <1>1 DEF NormalizedSlice
<1>3. SlicedView(t, axis, start, stop, step)
        = [t EXCEPT !.shape[axis] = length, !.strides[axis] = @ * step,
                    !.offset = @ + first * t.strides[axis]]
  BY DEF SlicedView
<1> HIDE DEF length, first, n
<1>4. t \in Layout
  BY DEF IsLayout
<1>5. OneSliced(t, axis, length, first, step) =
        [t EXCEPT !.shape[axis] = length, !.strides[axis] = @ * step,
                  !.offset = @ + first * t.strides[axis]]
  BY <1>4 DEF OneSliced, LaidOut, Layout
<1> QED  BY <1>2, <1>3, <1>5 DEF n

\* What a normalized slice makes of an axis: the slice, wherever it begins when
\* it takes nothing.
Sliced(u, t, k, n, step) ==
    /\ IsLayout(u) /\ u.storage = t.storage
    /\ Replaces(u.shape, t.shape, k) /\ u.shape[k] = n.length
    /\ n.length # 0 => Slices(u, t, k, n.start, step)

\* It shows the positions that Python takes.
LEMMA TakenShows ==
    ASSUME NEW t, IsLayout(t), NEW k \in 1..Len(t.shape),
           NEW slice, slice.start \in Int \cup {Omitted}, slice.stop \in Int \cup {Omitted},
           slice.step \in Int \ {0},
           NEW u, Sliced(u, t, k, NormalizedSlice(slice, t.shape[k]), slice.step), NEW storages
    PROVE  Values!Take(Shown(t, storages), k, Values!Positions(slice, t.shape[k])) = Shown(u, storages)
<1> DEFINE size == t.shape[k]
           n == NormalizedSlice(slice, size)
           p == Values!Positions(slice, size)
           step == slice.step
<1>1. size \in Nat
  BY LayoutType
<1> HIDE DEF size
<1>2. n.length \in Nat /\ n.start \in Int /\ Fits(n.length, n.start, step, size)
  BY <1>1, NormalizedSliceFits
<1>3. Len(p) = n.length /\ (n.length > 0 => Progression(p, n.start, step))
  BY <1>1, PositionsAre
<1>4. Sliced(u, t, k, n, step) /\ step \in Int \ {0}
  BY DEF size
<1> HIDE DEF n, p, step
<1>5. IsLayout(u) /\ Replaces(u.shape, t.shape, k) /\ u.shape[k] = n.length
  BY <1>4 DEF Sliced
<1>6. CASE n.length = 0
  <2>1. Values!Take(Shown(t, storages), k, p) = Shown(u, storages)
    BY <1>3, <1>5, <1>6, EmptyShown
  <2> QED  BY <2>1 DEF p, size
<1>7. CASE n.length # 0
  <2> DEFINE first == n.start
  <2>1. first \in Int /\ Slices(u, t, k, first, step) /\ Fits(u.shape[k], first, step, t.shape[k])
    BY <1>2, <1>4, <1>5, <1>7 DEF Sliced, size
  <2>2. Progression(p, first, step) /\ Len(p) = u.shape[k]
    BY <1>2, <1>3, <1>5, <1>7
  <2> HIDE DEF first
  <2>3. Values!Take(Shown(t, storages), k, p) = Shown(u, storages)
    BY <1>4, <1>5, <2>1, <2>2, SliceShown, SMTT(30)
  <2> QED  BY <2>3 DEF p, size
<1> QED  BY <1>6, <1>7

\* It is a view, and grounded unless it takes nothing.
LEMMA TakenIsView ==
    ASSUME NEW t, IsLayout(t), NEW k \in 1..Len(t.shape),
           NEW slice, slice.start \in Int \cup {Omitted}, slice.stop \in Int \cup {Omitted},
           slice.step \in Int \ {0},
           NEW u, Sliced(u, t, k, NormalizedSlice(slice, t.shape[k]), slice.step)
    PROVE  /\ \E M : IsView(u, t, M)
           /\ Grounded(t) /\ u.shape[k] # 0 => Grounded(u)
           /\ \A storages : u.shape[k] = 0 => Shown(u, storages).data = <<>>
<1> DEFINE size == t.shape[k]
           n == NormalizedSlice(slice, size)
           step == slice.step
<1>1. size \in Nat
  BY LayoutType
<1> HIDE DEF size
<1>2. n.length \in Nat /\ n.start \in Int /\ Fits(n.length, n.start, step, size)
  BY <1>1, NormalizedSliceFits
<1>3. Sliced(u, t, k, n, step) /\ step \in Int \ {0}
  BY DEF size
<1> HIDE DEF n, step
<1>4. IsLayout(u) /\ u.storage = t.storage /\ Replaces(u.shape, t.shape, k) /\ u.shape[k] = n.length
  BY <1>3 DEF Sliced
<1>5. k \in 1..Len(u.shape) /\ u.shape \in Seq(Nat)
  BY <1>4, LayoutType DEF Replaces
<1>6. CASE u.shape[k] = 0
  <2>1. \E M : IsView(u, t, M)
    BY <1>4, <1>5, <1>6, EmptyViews
  <2>2. Numel(u.shape) = 0
    BY <1>5, <1>6, NumelZero
  <2>3. \A storages : Shown(u, storages).data = <<>>
    <3>1. 1..0 = {}
      OBVIOUS
    <3>2. \A storages : Shown(u, storages).data = [n_1 \in {} |-> 0]
      BY <2>2, <3>1 DEF Shown
    <3>3. <<>> = [n_1 \in {} |-> 0]
      <4>1. <<>> \in [1..0 -> {}]
        BY EmptySeq, LenProperties
      <4> QED  BY <3>1
    <3> QED  BY <3>2, <3>3
  <2> QED  BY <1>6, <2>1, <2>3
<1>7. CASE u.shape[k] # 0
  <2> DEFINE first == n.start
  <2>1. first \in Int /\ Slices(u, t, k, first, step) /\ Fits(u.shape[k], first, step, t.shape[k])
    BY <1>2, <1>3, <1>4, <1>7 DEF Sliced, size
  <2>2. u.shape[k] > 0
    BY <1>2, <1>4, <1>7
  <2> HIDE DEF first
  <2>3. Grounded(t) => Grounded(u)
    BY <1>3, <1>4, <2>1, <2>2, SliceGrounds
  <2>4. \E M : IsView(u, t, M)
    <3>1. \A x \in Nat : x < u.shape[k] => first + x * step \in 0..t.shape[k] - 1
      BY <2>1 DEF Fits
    <3> QED  BY <1>3, <1>4, <2>1, <3>1, SliceIsView
  <2> QED  BY <1>7, <2>3, <2>4
<1> QED  BY <1>6, <1>7

\* slice() and split() slice.
LEMMA SlicedViewIs ==
    ASSUME NEW t, IsLayout(t), NEW k \in 1..Len(t.shape), NEW start \in Int, NEW stop \in Int,
           NEW step \in Int, step > 0
    PROVE  LET slice == [start |-> start, stop |-> stop, step |-> step]
           IN  Sliced(SlicedView(t, k, start, stop, step), t, k, NormalizedSlice(slice, t.shape[k]), step)
<1> DEFINE slice == [start |-> start, stop |-> stop, step |-> step]
           size == t.shape[k]
           n == NormalizedSlice(slice, size)
           length == n.length
           first == n.start
           u == OneSliced(t, k, length, first, step)
<1>1. size \in Nat /\ step \in Int \ {0}
  BY LayoutType
<1>2. SlicedView(t, k, start, stop, step) = u
  BY SlicedIs
<1>3. slice.start \in Int /\ slice.stop \in Int /\ slice.step = step
  OBVIOUS
<1> HIDE DEF size, slice
<1>4. length \in Nat /\ first \in Int
  BY <1>1, <1>3, NormalizedSliceFits
<1> HIDE DEF n, length, first
<1>5. IsLayout(u) /\ Slices(u, t, k, first, step) /\ u.shape[k] = length
  BY <1>1, <1>4, OneSlicedIs
<1> HIDE DEF u
<1>6. u.storage = t.storage /\ Replaces(u.shape, t.shape, k)
  BY <1>5 DEF Slices, Replaces
<1>7. Sliced(u, t, k, n, step)
  BY <1>5, <1>6 DEF Sliced, length, first
<1> QED  BY <1>2, <1>7 DEF n, size, slice

\* Nothing taken of an axis leaves a view that the constructor accepts, unless
\* it begins further back than the axis reaches.
LEMMA EmptyAlongGrounds ==
    ASSUME NEW t, NEW u, IsLayout(t), IsLayout(u), NEW k \in 1..Len(t.shape),
           NEW first \in Int, NEW step \in Int \ {0}, Slices(u, t, k, first, step),
           u.shape[k] = 0, Lowest(t.shape[k], t.strides[k]) <= first * t.strides[k], Grounded(t)
    PROVE  Grounded(u)
<1> DEFINE a == Low(t)
           b == Low(u)
           n == Len(t.shape)
           w == t.strides[k]
           x == first * w
           y == Lowest(t.shape[k], w)
<1>1. /\ a \in Seq(Int) /\ Len(a) = n /\ Total(a) \in Int /\ t.offset + Total(a) >= 0
      /\ \A j \in 1..n : a[j] = Lowest(t.shape[j], t.strides[j])
      /\ \A j \in 1..n : a[j] \in Int
  BY LowIs
<1>2. Len(u.shape) = n
  BY DEF Slices
<1>3. /\ b \in Seq(Int) /\ Len(b) = n /\ Total(b) \in Int
      /\ \A j \in 1..n : b[j] = Lowest(u.shape[j], u.strides[j])
      /\ Grounded(u) <=> u.offset + Total(b) >= 0
  BY <1>2, LowIs
<1>4. t.offset \in Int /\ w \in Int /\ Len(t.strides) = n
  BY LayoutType
<1>5. /\ \A j \in 1..n : j # k => u.shape[j] = t.shape[j] /\ u.strides[j] = t.strides[j]
      /\ u.offset = t.offset + x
  BY DEF Slices
<1>6. y <= x
  OBVIOUS
<1>7. x \in Int
  <2> HIDE DEF w
  <2> QED  BY <1>4
<1> HIDE DEF a, b, w, x
<1>8. Replaces(b, a, k)
  <2> HIDE DEF n
  <2> QED  BY <1>1, <1>3, <1>5, Zenon DEF Replaces
<1>9. Total(b) = Total(a) - a[k] + b[k]
  <2>1. k \in 1..Len(a)
    BY <1>1
  <2> QED  BY <1>1, <1>3, <1>8, <2>1, TotalReplaced
<1>10. b[k] = 0
  <2>1. b[k] = Lowest(0, u.strides[k])
    BY <1>3
  <2> QED  BY <2>1 DEF Lowest
<1>11. a[k] = y /\ a[k] \in Int
  BY <1>1 DEF w
<1> DEFINE A == Total(a)
           B == Total(b)
           z == a[k]
<1>12. B = A - z /\ A \in Int /\ t.offset + A >= 0 /\ z \in Int /\ z <= x
  BY <1>1, <1>6, <1>9, <1>10, <1>11
<1> HIDE DEF A, B, y, z, n
<1>13. u.offset + B >= 0
  BY <1>4, <1>5, <1>7, <1>12, SMT
<1> QED  BY <1>3, <1>13 DEF B

\* An axis reaches back as far as its last element, if it runs backward.
LEMMA ReachesBack ==
    ASSUME NEW size \in Nat, NEW stride \in Int, NEW start \in Int,
           ~(stride < 0 /\ size > 0 /\ NormalizedDim(start, size) >= size)
    PROVE  Lowest(size, stride) <= Clamp(NormalizedDim(start, size), 0, size) * stride
<1> DEFINE x == NormalizedDim(start, size)
           first == Clamp(x, 0, size)
<1>1. x \in Int
  BY DEF NormalizedDim
<1>2. ~(stride < 0 /\ size > 0 /\ x >= size)
  OBVIOUS
<1> HIDE DEF x
<1>3. first \in 0..size
  BY <1>1 DEF Clamp
<1>4. CASE stride >= 0
  <2>1. Lowest(size, stride) = 0
    BY <1>4 DEF Lowest
  <2>2. first \in Nat
    BY <1>3
  <2> HIDE DEF first
  <2>3. first * stride >= 0
    BY <1>4, <2>2
  <2> QED  BY <2>1, <2>3 DEF first, x
<1>5. CASE stride < 0 /\ size = 0
  <2>1. Lowest(size, stride) = 0 /\ first = 0
    BY <1>3, <1>5 DEF Lowest
  <2> HIDE DEF first
  <2>2. first * stride = 0
    BY <2>1
  <2> QED  BY <2>1, <2>2 DEF first, x
<1>6. CASE stride < 0 /\ size > 0
  <2>1. first \in 0..size - 1
    BY <1>1, <1>2, <1>6 DEF Clamp
  <2> HIDE DEF first
  <2>2. Lowest(size, stride) <= first * stride
    BY <2>1, LowestIs
  <2> QED  BY <2>2 DEF first, x
<1> QED  BY <1>4, <1>5, <1>6

\* So does slice(), if it does not start behind an axis that runs backward.
LEMMA EmptySliceGrounds ==
    ASSUME NEW t, IsLayout(t), NEW dim \in Int, AxisOf(dim, t) \in 1..Len(t.shape),
           ValidDim(dim, Rank(t)), NEW start \in Int, NEW stop \in Int, NEW step \in Int, step > 0,
           ~StartsBehind(t, dim, start), Grounded(t),
           SlicedView(t, AxisOf(dim, t), start, stop, step).shape[AxisOf(dim, t)] = 0
    PROVE  Grounded(SlicedView(t, AxisOf(dim, t), start, stop, step))
<1> DEFINE k == AxisOf(dim, t)
           size == t.shape[k]
           w == t.strides[k]
           n == NormalizedSlice([start |-> start, stop |-> stop, step |-> step], size)
           length == n.length
           first == n.start
           u == SlicedView(t, k, start, stop, step)
<1>1. k \in 1..Len(t.shape) /\ size \in Nat /\ w \in Int
  BY LayoutType
<1>2. ~(w < 0 /\ size > 0 /\ NormalizedDim(start, size) >= size)
  BY DEF StartsBehind
<1>3. first = Clamp(NormalizedDim(start, size), 0, size)
  <2>1. start # Omitted
    BY OmittedAssumption
  <2> HIDE DEF size
  <2> QED  BY <2>1 DEF NormalizedSlice
<1>4. Lowest(size, w) <= first * w
  <2> HIDE DEF size, w, first
  <2> QED  BY <1>1, <1>2, <1>3, ReachesBack
<1>5. length \in Nat /\ first \in Int
  <2> DEFINE slice == [start |-> start, stop |-> stop, step |-> step]
  <2>1. slice.start \in Int /\ slice.stop \in Int /\ slice.step \in Int \ {0}
    OBVIOUS
  <2> HIDE DEF slice, size
  <2> QED  BY <1>1, <2>1, NormalizedSliceFits DEF slice
<1>6. u = OneSliced(t, k, length, first, step)
  <2> HIDE DEF k
  <2> QED  BY <1>1, SlicedIs
<1>7. Lowest(t.shape[k], t.strides[k]) <= first * t.strides[k] /\ u.shape[k] = 0
  BY <1>4
<1> HIDE DEF n, length, first, u, size, w, k
<1>8. IsLayout(u) /\ Slices(u, t, k, first, step)
  BY <1>1, <1>5, <1>6, OneSlicedIs
<1>9. Grounded(u)
  BY <1>1, <1>5, <1>7, <1>8, EmptyAlongGrounds
<1> QED  BY <1>9 DEF u, k

\* slice() yields every step-th of an axis, from start to stop, or is refused;
\* a slice of nothing from behind a backward axis may be refused, too.
LEMMA SliceImplements ==
    ASSUME IInv, AllGrounded, NEW s \in Slots, NEW d \in Slots, slot[s] # Undefined,
           NEW dim \in Int, NEW start \in Int, NEW stop \in Int, NEW step \in Int,
           Slice(s, d, dim, start, stop, step)
    PROVE  \/ Values!Slice(s, d, dim, start, stop, step)
           \/ step > 0 /\ StartsBehind(slot[s], dim, start) /\ Values!Refuse
<1> DEFINE t == slot[s]
           a == Shown(t, memory)
           axis == AxisOf(dim, t)
           slice == [start |-> start, stop |-> stop, step |-> step]
           taken == Values!Take(a, axis, Values!Positions(slice, a.shape[axis]))
           u == SlicedView(t, axis, start, stop, step)
<1>1. Good(t, memory) /\ IsLayout(t) /\ Grounded(t) /\ Arrays[s] = a
  BY OperandIsGood, ArrayIs DEF AllGrounded
<1>2. a.shape = t.shape /\ Len(t.shape) \in Nat
  BY <1>1, LayoutType DEF Shown
<1>3. Values!Slice(s, d, dim, start, stop, step) <=>
        IF Values!InRange(dim, Len(a.shape)) /\ step > 0
        THEN Yields(d, taken)
        ELSE Refuses
  <2>1. Values!Axis(dim, Len(a.shape)) = axis
    BY AxisIs
  <2> HIDE DEF a, axis
  <2> QED  BY <1>1, <2>1 DEF Values!Slice, Values!Result, Values!Refuse, Yields, Refuses, Arrays
<1>4. Values!InRange(dim, Len(a.shape)) <=> ValidDim(dim, Rank(t))
  BY <1>2, RangeIs DEF Rank
<1>5. CASE step > 0 /\ ValidDim(dim, Rank(t))
  <2>1. Construct(d, u)
    BY <1>5 DEF Slice
  <2>2. axis \in 1..Len(t.shape)
    <3> HIDE DEF t
    <3> QED  BY <1>1, <1>5, AxisInRange
  <2>3. Sliced(u, t, axis, NormalizedSlice(slice, t.shape[axis]), step)
    <3> HIDE DEF t, axis
    <3> QED  BY <1>1, <1>5, <2>2, SlicedViewIs
  <2>4. /\ slice.start \in Int \cup {Omitted} /\ slice.stop \in Int \cup {Omitted}
        /\ slice.step = step /\ slice.step \in Int \ {0}
    BY <1>5
  <2> HIDE DEF u, slice, axis, t
  <2>5. taken = Shown(u, memory)
    BY <1>1, <1>2, <2>2, <2>3, <2>4, TakenShows
  <2>6. /\ \E M : IsView(u, t, M)
        /\ u.shape[axis] # 0 => Grounded(u)
    BY <1>1, <2>2, <2>3, <2>4, TakenIsView
  <2>7. CASE Grounded(u)
    <3>1. Yields(d, Shown(u, memory))
      BY <1>1, <2>1, <2>6, <2>7, Constructed
    <3> HIDE DEF taken, a
    <3> QED  BY <1>3, <1>4, <1>5, <2>5, <3>1
  <2>8. CASE ~Grounded(u)
    <3>1. u.shape[axis] = 0
      BY <2>6, <2>8
    <3>2. StartsBehind(t, dim, start)
      BY <1>1, <1>5, <2>2, <2>8, <3>1, EmptySliceGrounds DEF u, axis
    <3>3. Yields(d, Shown(u, memory)) \/ Refuses
      BY <1>1, <2>1, <2>6, MayConstruct
    <3>4. Refuses <=> Values!Refuse
      BY Zenon DEF Refuses, Values!Refuse, Arrays
    <3> HIDE DEF taken, a
    <3> QED  BY <1>3, <1>4, <1>5, <2>5, <3>2, <3>3, <3>4 DEF t
  <2> QED  BY <2>7, <2>8
<1>6. CASE ~(step > 0 /\ ValidDim(dim, Rank(t)))
  <2>1. Throw
    BY <1>6 DEF Slice
  <2>2. Refuses
    BY <2>1, Thrown
  <2> HIDE DEF taken, a, t
  <2> QED  BY <1>3, <1>4, <1>6, <2>2
<1> QED  BY <1>5, <1>6

-----------------------------------------------------------------------------
(* New storages and other shapes, seen by a caller.                          *)

\* A new tensor is contiguous.
LEMMA FreshIsContiguous ==
    ASSUME NEW shape \in Seq(Nat), NEW storage \in Nat
    PROVE  IsContiguous(FreshLayout(shape, storage))
<1> DEFINE t == FreshLayout(shape, storage)
           w == ContiguousStrides(Padded(shape))
<1>1. t.shape = shape /\ t.strides = w
  BY DEF FreshLayout
<1>2. CASE Numel(shape) = 0
  <2> HIDE DEF t, w
  <2> QED  BY <1>1, <1>2 DEF IsContiguous, t
<1>3. CASE Numel(shape) # 0
  <2>1. Padded(shape) = shape
    BY <1>3, AllPositive, PaddedIs
  <2>2. w = ContiguousStrides(shape)
    BY <2>1
  <2> HIDE DEF t, w
  <2> QED  BY <1>1, <2>2 DEF IsContiguous, t
<1> QED  BY <1>2, <1>3

\* The elements of a contiguous tensor follow its offset.
LEMMA ContiguousShows ==
    ASSUME NEW t, IsLayout(t), IsContiguous(t), NEW storages
    PROVE  Shown(t, storages) =
             [shape |-> t.shape,
              data |-> [n \in 1..Numel(t.shape) |-> storages[t.storage][t.offset + (n - 1) + 1]]]
<1> DEFINE N == Numel(t.shape)
<1>1. \A n \in 0..N - 1 : Address(t, n) = t.offset + n
  BY ContiguousConsecutive
<1>2. N \in Nat
  BY LayoutType, NumelType
<1> HIDE DEF N
<1>3. \A n \in 1..N : n - 1 \in 0..N - 1
  BY <1>2
<1>4. \A n \in 1..N : Address(t, n - 1) = t.offset + (n - 1)
  BY <1>1, <1>3
<1>5. [n \in 1..N |-> storages[t.storage][Address(t, n - 1) + 1]] =
        [n \in 1..N |-> storages[t.storage][t.offset + (n - 1) + 1]]
  BY <1>4, Zenon
<1> QED  BY <1>5, Zenon DEF Shown, N

\* A new tensor shows the elements of its storage.
LEMMA FreshShows ==
    ASSUME NEW shape \in Seq(Nat), NEW storage \in Nat, NEW data \in Seq(Int),
           Len(data) = Numel(shape), NEW storages, storages[storage] = data
    PROVE  Shown(FreshLayout(shape, storage), storages) = [shape |-> shape, data |-> data]
<1> DEFINE t == FreshLayout(shape, storage)
           N == Numel(shape)
<1>1. t.shape = shape /\ t.offset = 0 /\ t.storage = storage
  BY DEF FreshLayout
<1>2. IsLayout(t) /\ IsContiguous(t)
  BY FreshIsSound, FreshIsContiguous DEF Sound
<1>3. N \in Nat
  BY NumelType
<1> HIDE DEF t
<1>4. Shown(t, storages) =
        [shape |-> t.shape,
         data |-> [n \in 1..Numel(t.shape) |-> storages[t.storage][t.offset + (n - 1) + 1]]]
  BY <1>2, ContiguousShows
<1> HIDE DEF N
<1>5. \A n \in 1..N : 0 + (n - 1) + 1 = n
  BY <1>3
<1>6. [n \in 1..N |-> data[0 + (n - 1) + 1]] = [n \in 1..N |-> data[n]]
  BY <1>5, Zenon
<1>7. [n \in 1..N |-> data[n]] = data
  BY <1>3, LenProperties DEF N
<1>8. [n \in 1..Numel(t.shape) |-> storages[t.storage][t.offset + (n - 1) + 1]]
        = [n \in 1..N |-> data[0 + (n - 1) + 1]]
  BY <1>1, Zenon DEF N
<1> QED  BY <1>1, <1>4, <1>6, <1>7, <1>8 DEF t

\* Allocating a tensor yields its elements.
LEMMA FreshYields ==
    ASSUME IInv, NEW d \in Slots, NEW shape \in Seq(Nat), NEW data \in Seq(Int),
           Len(data) = Numel(shape), Fresh(d, shape, data)
    PROVE  Yields(d, [shape |-> shape, data |-> data])
<1> DEFINE n == Len(memory) + 1
           t == FreshLayout(shape, n)
           storages == Append(memory, data)
<1>1. memory \in Seq(Seq(Int))
  BY DEF IInv, AllGood
<1>2. Extends(storages, memory) /\ n \in DOMAIN storages /\ storages[n] = data /\ n \in Nat
  BY <1>1, AppendExtends
<1>3. Return(d, t, storages)
  BY DEF Fresh, FreshLayout, Padded
<1>4. t.storage = n
  BY DEF FreshLayout
<1> HIDE DEF n, storages
<1>5. Sound(t, Len(data)) /\ Shown(t, storages) = [shape |-> shape, data |-> data]
  BY <1>2, FreshIsSound, FreshShows
<1> HIDE DEF t
<1>6. Good(t, storages)
  BY <1>2, <1>4, <1>5 DEF Good
<1>7. Yields(d, Shown(t, storages))
  BY <1>2, <1>3, <1>6, Returned
<1> QED  BY <1>5, <1>7

\* A contiguous tensor under another shape, in its storage.
LEMMA RenamedYields ==
    ASSUME IInv, NEW d \in Slots, NEW t, Good(t, memory), IsContiguous(t), NEW shape \in Seq(Nat),
           Numel(shape) = Numel(t.shape),
           Construct(d, [t EXCEPT !.shape = shape, !.strides = ContiguousStrides(shape)])
    PROVE  Yields(d, [Shown(t, memory) EXCEPT !.shape = shape])
<1> DEFINE u == [t EXCEPT !.shape = shape, !.strides = ContiguousStrides(shape)]
           size == Len(memory[t.storage])
<1>1. memory \in Seq(Seq(Int)) /\ Extends(memory, memory)
  BY DEF IInv, AllGood, Extends
<1>2. size \in Nat /\ t.storage \in DOMAIN memory
  <2>1. DOMAIN memory = 1..Len(memory) /\ t.storage \in DOMAIN memory
    BY <1>1, LenProperties DEF Good
  <2>2. memory[t.storage] \in Seq(Int)
    BY <1>1, <2>1, ElementOfSeq
  <2> QED  BY <2>1, <2>2, LenProperties
<1>3. Sound(u, size)
  <2> HIDE DEF size
  <2>1. Sound(t, size)
    BY DEF Good, size
  <2> QED  BY <1>2, <2>1, ReshapedIsSound, Zenon
<1>4. IsLayout(t) /\ t.offset \in Nat
  BY DEF Good, Sound
<1>5. u.storage = t.storage /\ u.offset = t.offset /\ u.shape = shape /\ u.strides = ContiguousStrides(shape)
  BY <1>4 DEF IsLayout, Layout
<1>6. Construct(d, u)
  OBVIOUS
<1> HIDE DEF u
<1>7. Good(u, memory) /\ IsLayout(u) /\ IsContiguous(u)
  <2>1. Good(u, memory)
    BY <1>2, <1>3, <1>5 DEF Good
  <2>2. IsContiguous(u)
    BY <1>5 DEF IsContiguous
  <2> QED  BY <1>3, <2>1, <2>2 DEF Sound
<1>8. Grounded(u)
  <2>1. ContiguousStrides(shape) \in Seq(Nat) /\ Len(ContiguousStrides(shape)) = Len(shape)
    BY StridesAreWidths
  <2> DEFINE w == ContiguousStrides(shape)
  <2> HIDE DEF w
  <2>2. \A i \in 1..Len(w) : w[i] \in Nat
    BY <2>1, ElementOfSeq DEF w
  <2>3. \A i \in 1..Len(u.shape) : u.strides[i] >= 0
    BY <1>5, <2>1, <2>2 DEF w
  <2> QED  BY <1>4, <1>5, <1>7, <2>3, PositiveGrounds
<1>9. Return(d, u, memory)
  <2>1. ValidLayout(u)
    BY <1>1, <1>7, <1>8, Accepted
  <2> QED  BY <1>6, <2>1 DEF Construct
<1>10. Yields(d, Shown(u, memory))
  BY <1>1, <1>7, <1>9, Returned
<1>11. Shown(u, memory) = [Shown(t, memory) EXCEPT !.shape = shape]
  <2> DEFINE of(v) == [n \in 1..Numel(v.shape) |-> memory[v.storage][v.offset + (n - 1) + 1]]
  <2>1. Shown(u, memory) = [shape |-> u.shape, data |-> of(u)]
    BY <1>7, ContiguousShows
  <2>2. Shown(t, memory) = [shape |-> t.shape, data |-> of(t)]
    BY <1>4, ContiguousShows
  <2>3. of(u) = of(t)
    BY <1>5
  <2> HIDE DEF of
  <2> QED  BY <1>5, <2>1, <2>2, <2>3
<1> QED  BY <1>10, <1>11

\* Another shape of a tensor shows the same elements.
LEMMA ReshapedYields ==
    ASSUME IInv, NEW d \in Slots, NEW t, Good(t, memory), NEW shape \in Seq(Nat),
           Numel(shape) = Numel(t.shape), Reshaped(d, t, shape)
    PROVE  Yields(d, [Shown(t, memory) EXCEPT !.shape = shape])
<1>1. CASE IsContiguous(t)
  <2>1. Construct(d, [t EXCEPT !.shape = shape, !.strides = ContiguousStrides(shape)])
    BY <1>1 DEF Reshaped
  <2> QED  BY <1>1, <2>1, RenamedYields
<1>2. CASE ~IsContiguous(t)
  <2> DEFINE data == Materialized(t)
  <2>1. data \in Seq(Int) /\ Len(data) = Numel(shape)
    BY MaterializedIs DEF IInv, AllGood
  <2>2. Fresh(d, shape, data)
    BY <1>2 DEF Reshaped
  <2>3. Shown(t, memory) = [shape |-> t.shape, data |-> data]
    BY DenotedIsShown DEF Denoted
  <2> HIDE DEF data
  <2>4. [Shown(t, memory) EXCEPT !.shape = shape] = [shape |-> shape, data |-> data]
    BY <2>3
  <2> QED  BY <2>1, <2>2, <2>4, FreshYields
<1> QED  BY <1>1, <1>2

\* contiguous() yields the same array.
LEMMA ContiguousImplements ==
    ASSUME IInv, NEW s \in Slots, NEW d \in Slots, slot[s] # Undefined, Contiguous(s, d)
    PROVE  Values!Same(s, d)
<1> DEFINE t == slot[s]
           a == Shown(t, memory)
<1>1. Good(t, memory) /\ IsLayout(t) /\ Arrays[s] = a /\ Extends(memory, memory) /\ memory \in Seq(Seq(Int))
  BY OperandIsGood, ArrayIs
<1>2. Values!Same(s, d) <=> Yields(d, a)
  <2> HIDE DEF a
  <2> QED  BY <1>1 DEF Values!Same, Values!Result, Yields, Arrays
<1>3. CASE IsContiguous(t)
  <2>1. Return(d, t, memory)
    BY <1>3 DEF Contiguous
  <2> HIDE DEF t
  <2>2. Yields(d, a)
    BY <1>1, <2>1, Returned
  <2> QED  BY <1>2, <2>2
<1>4. CASE ~IsContiguous(t)
  <2> DEFINE data == Materialized(t)
  <2>1. Fresh(d, t.shape, data)
    BY <1>4 DEF Contiguous
  <2>2. a = [shape |-> t.shape, data |-> data]
    BY DenotedIsShown DEF Denoted
  <2> HIDE DEF t
  <2>3. data \in Seq(Int) /\ Len(data) = Numel(t.shape) /\ t.shape \in Seq(Nat)
    BY <1>1, MaterializedIs, LayoutType
  <2> HIDE DEF data, a
  <2>4. Yields(d, a)
    BY <2>1, <2>2, <2>3, FreshYields
  <2> QED  BY <1>2, <2>4
<1> QED  BY <1>3, <1>4

\* copy() yields the same array in a storage of its own.
LEMMA CopyImplements ==
    ASSUME IInv, NEW s \in Slots, NEW d \in Slots, slot[s] # Undefined, Copy(s, d)
    PROVE  Values!Same(s, d)
<1> DEFINE t == slot[s]
           a == Shown(t, memory)
           k == t.storage
           data == memory[k]
           n == Len(memory) + 1
           u == [t EXCEPT !.storage = n]
           storages == Append(memory, data)
<1>1. Good(t, memory) /\ IsLayout(t) /\ Arrays[s] = a /\ Extends(memory, memory) /\ memory \in Seq(Seq(Int))
  BY OperandIsGood, ArrayIs
<1>2. Values!Same(s, d) <=> Yields(d, a)
  <2> HIDE DEF a
  <2> QED  BY <1>1 DEF Values!Same, Values!Result, Yields, Arrays
<1>3. Return(d, u, storages)
  BY DEF Copy
<1>4. k \in DOMAIN memory /\ Sound(t, Len(data))
  BY <1>1 DEF Good
<1>5. data \in Seq(Int)
  BY <1>1, <1>4, LenProperties, ElementOfSeq
<1> HIDE DEF data
<1>6. Extends(storages, memory) /\ n \in DOMAIN storages /\ storages[n] = data /\ n \in Nat
  BY <1>1, <1>5, AppendExtends
<1> HIDE DEF n, storages, t
<1>7. IsLayout(u) /\ u.shape = t.shape /\ u.strides = t.strides /\ u.offset = t.offset /\ u.storage = n
  BY <1>1, <1>6 DEF IsLayout, Layout
<1> HIDE DEF u
<1>8. Sound(u, Len(data))
  BY <1>4, <1>7 DEF Sound, Place
<1>9. Good(u, storages)
  BY <1>6, <1>7, <1>8 DEF Good
<1>10. Yields(d, Shown(u, storages))
  BY <1>3, <1>6, <1>9, Returned
<1>11. Shown(u, storages) = a
  BY <1>6, <1>7 DEF Shown, Address, data, k
<1> HIDE DEF a
<1> QED  BY <1>2, <1>10, <1>11

\* A call on an undefined tensor is refused.
LEMMA UndefinedImplements ==
    ASSUME NEW s \in Slots, CallOnUndefined(s)
    PROVE  Values!CallOnUndefined(s)
<1>1. Arrays[s] = Undefined /\ Refuses
  BY Thrown DEF CallOnUndefined, Arrays
<1> QED  BY <1>1 DEF Values!CallOnUndefined, Values!Refuse, Refuses, Arrays

\* unsqueeze() yields the array with an axis of one element more.
LEMMA UnsqueezeImplements ==
    ASSUME IInv, NEW s \in Slots, NEW d \in Slots, slot[s] # Undefined, NEW dim \in Int,
           Unsqueeze(s, d, dim)
    PROVE  Values!Unsqueeze(s, d, dim)
<1> DEFINE t == slot[s]
           a == Shown(t, memory)
           n == Len(t.shape)
           k == NormalizedDim(dim, n + 1) + 1
           shape == InsertAt(t.shape, k, 1)
<1>1. Good(t, memory) /\ t.shape \in Seq(Nat) /\ n \in Nat /\ n + 1 \in Nat /\ Arrays[s] = a
  BY OperandIsGood, LayoutType, ArrayIs
<1>2. a.shape = t.shape /\ Len(a.shape) = n
  BY DEF Shown
<1>3. /\ Values!InRange(dim, n + 1) <=> ValidDim(dim, n + 1)
      /\ ValidDim(dim, n + 1) <=> NormalizedDim(dim, n + 1) \in 0..(n + 1) - 1
      /\ Values!Wrapped(dim, n + 1) = NormalizedDim(dim, n + 1)
  <2> DEFINE m == n + 1
  <2> HIDE DEF n
  <2>1. m \in Nat
    BY <1>1
  <2> HIDE DEF m
  <2>2. /\ Values!InRange(dim, m) <=> ValidDim(dim, m)
        /\ ValidDim(dim, m) <=> NormalizedDim(dim, m) \in 0..m - 1
        /\ Values!Wrapped(dim, m) = NormalizedDim(dim, m)
    BY <2>1, RangeIs
  <2> QED  BY <2>2 DEF m
<1>4. Values!Unsqueeze(s, d, dim) <=>
        IF Values!InRange(dim, n + 1) THEN Yields(d, [a EXCEPT !.shape = shape]) ELSE Refuses
  <2>1. Values!Axis(dim, Len(a.shape) + 1) = k
    BY <1>2, <1>3 DEF Values!Axis
  <2>2. Values!InsertAt(a.shape, Values!Axis(dim, Len(a.shape) + 1), 1) = shape
    BY <1>2, <2>1, SameSequences
  <2>3. Len(a.shape) + 1 = n + 1
    BY <1>2
  <2> HIDE DEF a, k, shape, n, t
  <2> QED  BY <1>1, <2>2, <2>3 DEF Values!Unsqueeze, Values!Result, Values!Refuse, Yields, Refuses, Arrays
<1>5. CASE ValidDim(dim, n + 1)
  <2>1. Reshaped(d, t, shape)
    BY <1>5 DEF Unsqueeze, Rank
  <2>2. Position(k, t.shape)
    <3> DEFINE i == NormalizedDim(dim, n + 1)
    <3>1. i \in 0..(n + 1) - 1
      BY <1>3, <1>5
    <3> HIDE DEF i, n
    <3>2. i + 1 \in 1..n + 1
      BY <1>1, <3>1
    <3> QED  BY <3>2 DEF Position, n, i
  <2> HIDE DEF k, t
  <2>3. shape \in Seq(Nat) /\ Numel(shape) = Numel(t.shape)
    BY <1>1, <2>2, UnsqueezedIs
  <2> HIDE DEF shape
  <2>4. Yields(d, [a EXCEPT !.shape = shape])
    BY <1>1, <2>1, <2>3, ReshapedYields
  <2> HIDE DEF a, n
  <2> QED  BY <1>3, <1>4, <1>5, <2>4
<1>6. CASE ~ValidDim(dim, n + 1)
  <2>1. Throw
    BY <1>6 DEF Unsqueeze, Rank
  <2>2. Refuses
    BY <2>1, Thrown
  <2> HIDE DEF a, n, shape
  <2> QED  BY <1>3, <1>4, <1>6, <2>2
<1> QED  BY <1>5, <1>6

\* squeeze() of all axes yields the array without the axes of one element.
LEMMA SqueezeAllImplements ==
    ASSUME IInv, NEW s \in Slots, NEW d \in Slots, slot[s] # Undefined, SqueezeAll(s, d)
    PROVE  Values!SqueezeAll(s, d)
<1> DEFINE t == slot[s]
           a == Shown(t, memory)
           shape == Squeezed(t.shape)
<1>1. Good(t, memory) /\ t.shape \in Seq(Nat) /\ Arrays[s] = a
  BY OperandIsGood, LayoutType, ArrayIs
<1>2. shape \in Seq(Nat) /\ Numel(shape) = Numel(t.shape)
  BY <1>1, SqueezedIs
<1>3. Reshaped(d, t, shape)
  BY DEF SqueezeAll
<1>4. Values!SqueezeAll(s, d) <=> Yields(d, [a EXCEPT !.shape = shape])
  <2>1. Values!Squeezed(a.shape) = shape
    BY SameSqueezed DEF Shown
  <2> HIDE DEF a, shape
  <2> QED  BY <1>1, <2>1 DEF Values!SqueezeAll, Values!Result, Yields, Arrays
<1> HIDE DEF t, shape
<1>5. Yields(d, [a EXCEPT !.shape = shape])
  BY <1>1, <1>2, <1>3, ReshapedYields
<1> HIDE DEF a
<1> QED  BY <1>4, <1>5

\* squeeze() yields the array without an axis of one element, or as it is.
LEMMA SqueezeImplements ==
    ASSUME IInv, NEW s \in Slots, NEW d \in Slots, slot[s] # Undefined, NEW dim \in Int,
           Squeeze(s, d, dim)
    PROVE  Values!Squeeze(s, d, dim)
<1> DEFINE t == slot[s]
           a == Shown(t, memory)
           axis == AxisOf(dim, t)
           shape == RemoveAt(t.shape, axis)
<1>1. /\ Good(t, memory) /\ IsLayout(t) /\ t.shape \in Seq(Nat) /\ Len(t.shape) \in Nat
      /\ Arrays[s] = a /\ Extends(memory, memory)
  BY OperandIsGood, LayoutType, ArrayIs
<1>2. a.shape = t.shape
  BY DEF Shown
<1>3. Values!InRange(dim, Len(a.shape)) <=> ValidDim(dim, Rank(t))
  BY <1>1, <1>2, RangeIs DEF Rank
<1>4. Values!Squeeze(s, d, dim) <=>
        IF ~Values!InRange(dim, Len(a.shape)) THEN Refuses
        ELSE IF t.shape[axis] = 1 THEN Yields(d, [a EXCEPT !.shape = shape]) ELSE Yields(d, a)
  <2>1. Values!Axis(dim, Len(a.shape)) = axis
    BY AxisIs
  <2>2. Values!RemoveAt(a.shape, axis) = shape
    BY <1>2, SameSequences
  <2> HIDE DEF a, axis, shape, t
  <2> QED  BY <1>1, <1>2, <2>1, <2>2
           DEF Values!Squeeze, Values!Result, Values!Refuse, Yields, Refuses, Arrays
<1>5. CASE ~ValidDim(dim, Rank(t))
  <2>1. Throw
    BY <1>5 DEF Squeeze
  <2>2. Refuses
    BY <2>1, Thrown
  <2> HIDE DEF a, t, axis, shape
  <2> QED  BY <1>3, <1>4, <1>5, <2>2
<1>6. CASE ValidDim(dim, Rank(t)) /\ t.shape[axis] = 1
  <2>1. Reshaped(d, t, shape)
    BY <1>6 DEF Squeeze
  <2>2. axis \in 1..Len(t.shape)
    <3> HIDE DEF t
    <3> QED  BY <1>1, <1>6, AxisInRange
  <2> HIDE DEF axis, t
  <2>3. shape \in Seq(Nat) /\ Numel(shape) = Numel(t.shape)
    BY <1>1, <1>6, <2>2, SqueezedAtIs
  <2> HIDE DEF shape
  <2>4. Yields(d, [a EXCEPT !.shape = shape])
    BY <1>1, <2>1, <2>3, ReshapedYields
  <2> HIDE DEF a
  <2> QED  BY <1>3, <1>4, <1>6, <2>4
<1>7. CASE ValidDim(dim, Rank(t)) /\ t.shape[axis] # 1
  <2>1. Return(d, t, memory)
    BY <1>7 DEF Squeeze
  <2> HIDE DEF t
  <2>2. Yields(d, a)
    BY <1>1, <2>1, Returned
  <2> HIDE DEF a, axis, shape
  <2> QED  BY <1>3, <1>4, <1>7, <2>2
<1> QED  BY <1>5, <1>6, <1>7

\* flatten() yields the array with a range of axes merged.
LEMMA FlattenImplements ==
    ASSUME IInv, NEW s \in Slots, NEW d \in Slots, slot[s] # Undefined,
           NEW first \in Int, NEW last \in Int, Flatten(s, d, first, last)
    PROVE  Values!Flatten(s, d, first, last)
<1> DEFINE t == slot[s]
           a == Shown(t, memory)
           n == Len(t.shape)
           i == AxisOf(first, t)
           j == AxisOf(last, t)
           shape == Merged(t.shape, i, j)
<1>1. Good(t, memory) /\ IsLayout(t) /\ t.shape \in Seq(Nat) /\ n \in Nat /\ Arrays[s] = a
  BY OperandIsGood, LayoutType, ArrayIs
<1>2. a.shape = t.shape /\ Len(a.shape) = n
  BY DEF Shown
<1>3. (Values!InRange(first, n) <=> ValidDim(first, Rank(t))) /\ (Values!InRange(last, n) <=> ValidDim(last, Rank(t)))
  <2>1. Rank(t) = n
    BY DEF Rank
  <2> HIDE DEF n
  <2> QED  BY <1>1, <2>1, RangeIs
<1>4. Values!Flatten(s, d, first, last) <=>
        IF Values!InRange(first, n) /\ Values!InRange(last, n) /\ i <= j
        THEN Yields(d, [a EXCEPT !.shape = shape])
        ELSE Refuses
  <2>1. Values!Axis(first, Len(a.shape)) = i /\ Values!Axis(last, Len(a.shape)) = j
    BY AxisIs
  <2>2. SubSeq(a.shape, 1, i - 1) \o <<Values!Numel(SubSeq(a.shape, i, j))>> \o SubSeq(a.shape, j + 1, n) = shape
    BY <1>2, SameNumel DEF Merged
  <2> HIDE DEF a, i, j, shape, n
  <2> QED  BY <1>1, <1>2, <2>1, <2>2
           DEF Values!Flatten, Values!Result, Values!Refuse, Yields, Refuses, Arrays
<1>5. CASE ValidDim(first, Rank(t)) /\ ValidDim(last, Rank(t)) /\ i <= j
  <2>1. Reshaped(d, t, shape)
    BY <1>5 DEF Flatten, Rank, Merged
  <2>2. i \in 1..n /\ j \in 1..n /\ i <= j
    <3> HIDE DEF t
    <3> QED  BY <1>1, <1>5, AxisInRange
  <2> HIDE DEF i, j, t
  <2>3. shape \in Seq(Nat) /\ Numel(shape) = Numel(t.shape)
    BY <1>1, <2>2, MergedIs
  <2> HIDE DEF shape
  <2>4. Yields(d, [a EXCEPT !.shape = shape])
    BY <1>1, <2>1, <2>3, ReshapedYields
  <2> HIDE DEF a, n
  <2> QED  BY <1>3, <1>4, <1>5, <2>4
<1>6. CASE ~(ValidDim(first, Rank(t)) /\ ValidDim(last, Rank(t)) /\ i <= j)
  <2>1. Throw
    BY <1>6 DEF Flatten
  <2>2. Refuses
    BY <2>1, Thrown
  <2> HIDE DEF a, n, shape, t, i, j
  <2> QED  BY <1>3, <1>4, <1>6, <2>2
<1> QED  BY <1>5, <1>6

\* A shape with its -1 filled in.
LEMMA FilledIs ==
    ASSUME NEW shape \in Seq(Int), \A i \in 1..Len(shape) : shape[i] >= -1, NEW k \in Nat
    PROVE  /\ Values!Filled(shape, k) \in Seq(Nat) /\ Len(Values!Filled(shape, k)) = Len(shape)
           /\ \A i \in 1..Len(shape) :
                Values!Filled(shape, k)[i] = IF shape[i] = -1 THEN k ELSE shape[i]
<1> DEFINE n == Len(shape)
           f == [i \in 1..n |-> IF shape[i] = -1 THEN k ELSE shape[i]]
<1>1. n \in Nat /\ \A i \in 1..n : shape[i] \in Int
  BY LenProperties, ElementOfSeq
<1>2. Values!Filled(shape, k) = f
  BY DEF Values!Filled
<1> HIDE DEF n
<1>3. \A i \in 1..n : (IF shape[i] = -1 THEN k ELSE shape[i]) \in Nat
  <2>1. \A i \in 1..n : shape[i] >= -1
    BY DEF n
  <2> QED  BY <1>1, <2>1
<1>4. f \in [1..n -> Nat] /\ \A i \in 1..n : f[i] = IF shape[i] = -1 THEN k ELSE shape[i]
  BY <1>3
<1> HIDE DEF f
<1> QED  BY <1>1, <1>2, <1>4, FunctionsAreSequences DEF n

\* Filling one dimension multiplies the known ones.
LEMMA FilledNumel ==
    ASSUME NEW shape \in Seq(Int), \A i \in 1..Len(shape) : shape[i] >= -1, NEW k \in Nat,
           NEW i, {j \in 1..Len(shape) : shape[j] = -1} = {i}
    PROVE  Known(shape) \in Nat /\ Numel(Values!Filled(shape, k)) = Known(shape) * k
<1> DEFINE n == Len(shape)
           one == 1
           a == Values!Filled(shape, k)
           b == Values!Filled(shape, one)
<1>1. i \in 1..n /\ shape[i] = -1 /\ \A j \in 1..n : j # i => shape[j] # -1
  OBVIOUS
<1>2. one \in Nat /\ DOMAIN shape = 1..n
  BY LenProperties
<1>3. Known(shape) = Numel(b)
  BY <1>2 DEF Known, Values!Filled
<1> HIDE DEF one
<1>4. a \in Seq(Nat) /\ Len(a) = n /\ \A j \in 1..n : a[j] = IF shape[j] = -1 THEN k ELSE shape[j]
  BY FilledIs
<1>5. b \in Seq(Nat) /\ Len(b) = n /\ \A j \in 1..n : b[j] = IF shape[j] = -1 THEN one ELSE shape[j]
  BY <1>2, FilledIs
<1> HIDE DEF n, a, b
<1>6. i \in 1..Len(a) /\ a[i] = k /\ b[i] = 1 /\ Replaces(a, b, i)
  BY <1>1, <1>4, <1>5 DEF Replaces, one
<1>7. Numel(a) = Numel(b) * a[i] /\ Numel(b) \in Nat
  BY <1>4, <1>5, <1>6, NumelReplaced, NumelType
<1> QED  BY <1>3, <1>6, <1>7 DEF a

\* What it takes to resolve a -1: numbers k with known * k = N.
LEMMA OnlyFactor ==
    ASSUME NEW N \in Nat, NEW known \in Nat \ {0}
    PROVE  /\ \A k \in Nat : known * k = N => N % known = 0 /\ k = N \div known
           /\ N % known = 0 => N \div known \in 0..N + 1 /\ known * (N \div known) = N
<1> DEFINE q == N \div known
           r == N % known
<1>1. q \in Nat /\ r \in 0..known - 1 /\ N = r + q * known
  BY Division
<1>2. ASSUME NEW k \in Nat, known * k = N
      PROVE  r = 0 /\ k = q
  <2> DEFINE zero == 0
  <2>1. zero \in 0..known - 1 /\ k * known = known * k /\ q * known \in Nat
    BY <1>1
  <2>2. zero + k * known = N
    BY <1>2, <2>1
  <2>3. r + q * known = zero + k * known
    BY <1>1, <2>2
  <2> HIDE DEF q, r, zero
  <2>4. q = k /\ r = zero
    BY <1>1, <2>1, <2>3, DigitUnique
  <2> QED  BY <2>4 DEF zero
<1>3. ASSUME r = 0
      PROVE  q \in 0..N + 1 /\ known * q = N
  <2> HIDE DEF q, r
  <2> DEFINE y == q * known
  <2>1. y \in Nat /\ known * q = y /\ q <= y
    <3>1. y \in Nat /\ known * q = y
      BY <1>1
    <3>2. known >= 1
      OBVIOUS
    <3>3. q * (known - 1) \in Nat /\ y = q * (known - 1) + q
      BY <1>1, <3>2
    <3> DEFINE z == q * (known - 1)
    <3> HIDE DEF y, z
    <3>4. q <= y
      BY <1>1, <3>1, <3>3 DEF z
    <3> QED  BY <3>1, <3>4
  <2> HIDE DEF y
  <2>2. N = y
    <3>1. N = 0 + y
      BY <1>1, <1>3 DEF y
    <3> QED  BY <2>1, <3>1
  <2> QED  BY <1>1, <2>1, <2>2
<1> QED  BY <1>2, <1>3

\* resolved_shape() finds the only shape that fits, if there is one.
LEMMA ResolutionsAre ==
    ASSUME NEW t, t.shape \in Seq(Nat), NEW shape \in Seq(Int)
    PROVE  LET fits == Values!Resolutions(shape, Numel(t.shape))
           IN  /\ Resolvable(t, shape) => fits = {ResolvedShape(t, shape)}
               /\ Resolvable(t, shape) <=>
                    /\ \E f \in fits : fits = {f}
                    /\ Values!Cardinality({i \in DOMAIN shape : shape[i] = -1}) <= 1
<1> DEFINE n == Len(shape)
           N == Numel(t.shape)
           I == {i \in 1..n : shape[i] = -1}
           F(k) == Values!Filled(shape, k)
           fits == Values!Resolutions(shape, N)
           known == Known(shape)
           result == ResolvedShape(t, shape)
           valid == \A i \in 1..n : shape[i] >= -1
           resolvable == Resolvable(t, shape)
<1>1. n \in Nat /\ DOMAIN shape = 1..n /\ \A i \in 1..n : shape[i] \in Int
  BY LenProperties, ElementOfSeq
<1>2. N \in Nat
  BY NumelType
<1>3. IsFiniteSet(I) /\ Cardinality(I) \in Nat
  <2>1. IsFiniteSet(1..n) /\ I \in SUBSET (1..n)
    BY <1>1, FS_Interval
  <2> HIDE DEF I
  <2> QED  BY <2>1, FS_Subset, FS_CardinalityType
<1>4. Values!Cardinality({i \in DOMAIN shape : shape[i] = -1}) = Cardinality(I)
  BY <1>1, SameCardinality
<1>5. resolvable <=>
        valid /\ ((I = {} /\ known = N) \/ (Cardinality(I) = 1 /\ known # 0 /\ N % known = 0))
  <2>1. {i \in DOMAIN shape : shape[i] = -1} = I
    BY <1>1
  <2>2. (\A i \in DOMAIN shape : shape[i] >= -1) <=> valid
    BY <1>1
  <2> HIDE DEF I, valid, known, N
  <2> QED  BY <2>1, <2>2 DEF Resolvable, known, N
<1> SUFFICES /\ resolvable => fits = {result}
             /\ resolvable <=> (\E f \in fits : fits = {f}) /\ Cardinality(I) <= 1
  <2> HIDE DEF fits, result, resolvable
  <2> QED  BY <1>4 DEF fits, result, resolvable, N
<1>6. CASE ~valid
  <2>1. \E i \in 1..n : shape[i] < -1
    <3> HIDE DEF n
    <3> QED  BY <1>1, <1>6
  <2>2. \E i \in DOMAIN shape : shape[i] < -1
    BY <1>1, <2>1
  <2>3. fits = {}
    BY <2>2 DEF Values!Resolutions
  <2> HIDE DEF fits, result, resolvable, valid, I, n, N, known
  <2> QED  BY <1>5, <1>6, <2>3
<1>7. ASSUME valid
      PROVE  \A f : f \in fits <=> \E k \in 0..N + 1 : f = F(k) /\ Numel(F(k)) = N
  <2>1. ~\E i \in DOMAIN shape : shape[i] < -1
    <3>1. \A i \in 1..n : ~(shape[i] < -1)
      <4> HIDE DEF n
      <4> QED  BY <1>1, <1>7
    <3> QED  BY <1>1, <3>1
  <2>2. fits = {F(k) : k \in {k \in 0..N + 1 : Values!Numel(F(k)) = N}}
    BY <2>1 DEF Values!Resolutions
  <2>3. \A k : Values!Numel(F(k)) = Numel(F(k))
    BY SameNumel
  <2> HIDE DEF fits, F, N
  <2> QED  BY <2>2, <2>3, Zenon
<1>8. CASE valid /\ I = {}
  <2>1. \A i \in 1..n : shape[i] # -1
    BY <1>8
  <2>2. \A k : F(k) = shape
    <3> SUFFICES ASSUME NEW k PROVE F(k) = shape
      OBVIOUS
    <3>1. F(k) = [i \in 1..n |-> shape[i]]
      BY <2>1 DEF Values!Filled
    <3> QED  BY <1>1, <3>1
  <2>3. known = Numel(shape) /\ result = shape
    <3>1. [i \in DOMAIN shape |-> IF shape[i] = -1 THEN 1 ELSE shape[i]] = shape
      <4>1. [i \in DOMAIN shape |-> IF shape[i] = -1 THEN 1 ELSE shape[i]] = [i \in 1..n |-> shape[i]]
        BY <1>1, <2>1
      <4> QED  BY <1>1, <4>1
    <3>2. result = shape
      <4>1. result = [i \in 1..n |-> shape[i]]
        BY <1>1, <2>1 DEF ResolvedShape
      <4> QED  BY <1>1, <4>1
    <3> QED  BY <3>1, <3>2 DEF Known
  <2>4. Cardinality(I) = 0
    BY <1>8, FS_EmptySet
  <2>5. 0 \in 0..N + 1
    BY <1>2
  <2> HIDE DEF fits, result, resolvable, I, n, N, known, F
  <2>6. \A f : f \in fits <=> f = shape /\ known = N
    BY <1>7, <1>8, <2>2, <2>3, <2>5
  <2>7. resolvable <=> known = N
    BY <1>5, <1>8, <2>4
  <2>8. known = N => fits = {shape}
    BY <2>6
  <2>9. known # N => fits = {}
    BY <2>6
  <2>10. Cardinality(I) <= 1
    BY <2>4
  <2>11. (\E f \in fits : fits = {f}) <=> known = N
    BY <2>8, <2>9
  <2> QED  BY <2>3, <2>7, <2>8, <2>10, <2>11
<1>9. CASE valid /\ \E i : I = {i}
  <2>1. PICK i : I = {i}
    BY <1>9
  <2>2. Cardinality(I) = 1
    BY <2>1, FS_Singleton
  <2>3. i \in 1..n /\ shape[i] = -1
    BY <2>1
  <2>4. known \in Nat /\ \A k \in Nat : Numel(F(k)) = known * k
    <3>1. \A k \in Nat : known \in Nat /\ Numel(F(k)) = known * k
      <4> TAKE k \in Nat
      <4> QED  BY <1>9, <2>1, FilledNumel
    <3>2. 0 \in Nat
      OBVIOUS
    <3> QED  BY <3>1, <3>2
  <2>5. \A k \in Nat : F(k)[i] = k
    BY <1>9, <2>3, FilledIs
  <2>6. result = F(N \div known)
    BY <1>1 DEF ResolvedShape, Values!Filled
  <2> HIDE DEF fits, result, resolvable, I, n, N, known, F, valid
  <2>7. \A f : f \in fits <=> \E k \in 0..N + 1 : f = F(k) /\ known * k = N
    <3>1. \A k \in 0..N + 1 : k \in Nat
      BY <1>2
    <3>2. \A k \in 0..N + 1 : Numel(F(k)) = N <=> known * k = N
      BY <2>4, <3>1
    <3> QED  BY <1>7, <1>9, <3>2, Zenon
  <2>8. resolvable <=> known # 0 /\ N % known = 0
    BY <1>5, <1>9, <2>1, <2>2
  <2>9. CASE known = 0
    <3>1. \A k \in Nat : known * k = 0
      BY <2>9
    <3>2. CASE N = 0
      <4>1. F(0) \in fits /\ F(1) \in fits
        BY <2>7, <3>1, <3>2
      <4>2. F(0) # F(1)
        <5>1. F(0)[i] = 0 /\ F(1)[i] = 1
          BY <2>5
        <5> QED  BY <5>1
      <4> QED  BY <2>8, <2>9, <4>1, <4>2
    <3>3. CASE N # 0
      <4>1. fits = {}
        BY <1>2, <2>7, <3>1, <3>3
      <4> QED  BY <2>8, <2>9, <4>1
    <3> QED  BY <3>2, <3>3
  <2>10. CASE known # 0
    <3>1. /\ \A k \in Nat : known * k = N => N % known = 0 /\ k = N \div known
          /\ N % known = 0 => N \div known \in 0..N + 1 /\ known * (N \div known) = N
      BY <1>2, <2>4, <2>10, OnlyFactor
    <3> DEFINE q == N \div known
               divides == N % known = 0
               factor(k) == known * k = N
    <3>2. \A k \in Nat : factor(k) => divides /\ k = q
      BY <3>1
    <3>3. divides => q \in 0..N + 1 /\ factor(q)
      BY <3>1
    <3>4. \A f : f \in fits <=> \E k \in 0..N + 1 : f = F(k) /\ factor(k)
      BY <2>7
    <3>5. \A k \in 0..N + 1 : k \in Nat
      BY <1>2
    <3>6. resolvable <=> divides
      BY <2>8, <2>10
    <3>7. result = F(q)
      BY <2>6
    <3> HIDE DEF q, divides, factor
    <3>8. divides => fits = {F(q)}
      BY <3>2, <3>3, <3>4, <3>5
    <3>9. ~divides => fits = {}
      BY <3>2, <3>4, <3>5
    <3>10. Cardinality(I) <= 1
      BY <2>2
    <3>11. (\E f \in fits : fits = {f}) <=> divides
      BY <3>8, <3>9
    <3> QED  BY <3>6, <3>7, <3>8, <3>10, <3>11
  <2> QED  BY <2>9, <2>10
<1>10. CASE valid /\ I # {} /\ ~\E i : I = {i}
  <2> HIDE DEF I
  <2>1. Cardinality(I) # 0 /\ Cardinality(I) # 1
    BY <1>3, <1>10, FS_EmptySet, FS_Singleton
  <2> HIDE DEF fits, result, resolvable, n, N, known, F, valid
  <2>2. ~(Cardinality(I) <= 1)
    BY <1>3, <2>1
  <2> QED  BY <1>5, <1>10, <2>1, <2>2
<1> QED  BY <1>6, <1>8, <1>9, <1>10

\* reshape() and view() yield the array under the only shape that fits.
LEMMA ReshapeImplements ==
    ASSUME IInv, NEW s \in Slots, NEW d \in Slots, slot[s] # Undefined, NEW shape \in Seq(Int),
           Reshape(s, d, shape)
    PROVE  Values!Reshape(s, d, shape)
<1> DEFINE t == slot[s]
           a == Shown(t, memory)
           fits == Values!Resolutions(shape, Numel(t.shape))
           single == /\ \E f \in fits : fits = {f}
                     /\ Values!Cardinality({i \in DOMAIN shape : shape[i] = -1}) <= 1
           chosen == CHOOSE f \in fits : TRUE
           resolved == ResolvedShape(t, shape)
<1>1. Good(t, memory) /\ t.shape \in Seq(Nat) /\ Arrays[s] = a
  BY OperandIsGood, LayoutType, ArrayIs
<1>2. Values!Reshape(s, d, shape) <=>
        IF single THEN Yields(d, [a EXCEPT !.shape = chosen]) ELSE Refuses
  <2>1. Values!Resolutions(shape, Values!Numel(a.shape)) = fits
    BY SameNumel DEF Shown
  <2> HIDE DEF a, fits
  <2> QED  BY <1>1, <2>1 DEF Values!Reshape, Values!Result, Values!Refuse, Yields, Refuses, Arrays
<1>3. (Resolvable(t, shape) => fits = {resolved}) /\ (Resolvable(t, shape) <=> single)
  <2> HIDE DEF t
  <2> QED  BY <1>1, ResolutionsAre
<1>4. CASE Resolvable(t, shape)
  <2>1. Reshaped(d, t, resolved)
    BY <1>4 DEF Reshape
  <2>2. resolved \in Seq(Nat) /\ Numel(resolved) = Numel(t.shape)
    <3> HIDE DEF t
    <3> QED  BY <1>1, <1>4, ResolvedShapeIs
  <2> HIDE DEF t, resolved, fits
  <2>3. Yields(d, [a EXCEPT !.shape = resolved])
    BY <1>1, <2>1, <2>2, ReshapedYields
  <2>4. chosen = resolved
    BY <1>3, <1>4
  <2> HIDE DEF a, single, chosen
  <2> QED  BY <1>2, <1>3, <1>4, <2>3, <2>4
<1>5. CASE ~Resolvable(t, shape)
  <2>1. Throw
    BY <1>5 DEF Reshape
  <2>2. Refuses
    BY <2>1, Thrown
  <2> HIDE DEF a, t, single, chosen
  <2> QED  BY <1>2, <1>3, <1>5, <2>2
<1> QED  BY <1>4, <1>5

\* from_vector() yields its numbers, when they are as many as the shape holds.
LEMMA FromVectorImplements ==
    ASSUME IInv, NEW d \in Slots, NEW shape \in Seq(Nat), NEW size \in Nat,
           FromVector(d, shape, size)
    PROVE  Values!FromVector(d, shape, size)
<1> DEFINE N == Numel(shape)
           data == [n \in 1..N |-> n]
<1>1. N \in Nat
  BY NumelType
<1>2. CASE N # size
  <2>1. Refuses
    BY <1>2, Thrown DEF FromVector
  <2>2. ~(Values!Numel(shape) = size)
    BY <1>2, SameNumel
  <2> HIDE DEF N
  <2> QED  BY <2>1, <2>2, Zenon DEF Values!FromVector, Values!Refuse, Refuses, Arrays
<1> SUFFICES ASSUME N = size PROVE Values!FromVector(d, shape, size)
  BY <1>2
<1>3. Values!FromVector(d, shape, size) <=>
        Yields(d, [shape |-> shape, data |-> [n \in 1..N |-> Ravel(Unravel(n - 1, shape), shape) + 1]])
  BY SameNumel, SameRavel, SameUnravel
  DEF Values!FromVector, Values!Array, Values!Result, Yields, Arrays
<1>4. [n \in 1..N |-> Ravel(Unravel(n - 1, shape), shape) + 1] = data
  <2>1. ASSUME NEW n \in 1..N
        PROVE  Ravel(Unravel(n - 1, shape), shape) + 1 = n
    <3> DEFINE m == n - 1
    <3>1. m \in 0..N - 1 /\ m + 1 = n
      BY <1>1
    <3> HIDE DEF m
    <3>2. Ravel(Unravel(m, shape), shape) = m
      BY <3>1, RavelOfUnravel
    <3> QED  BY <3>1, <3>2 DEF m
  <2> HIDE DEF N
  <2> QED  BY <2>1, Zenon
<1>5. Fresh(d, shape, data)
  BY DEF FromVector
<1>6. data \in Seq(Int) /\ Len(data) = N
  <2> HIDE DEF N
  <2>1. data \in [1..N -> Int]
    BY <1>1
  <2> QED  BY <1>1, <2>1, FunctionsAreSequences
<1> HIDE DEF data
<1>7. Yields(d, [shape |-> shape, data |-> data])
  BY <1>5, <1>6, FreshYields
<1> QED  BY <1>3, <1>4, <1>7

-----------------------------------------------------------------------------
(* Pieces, seen by a caller.                                                 *)

\* Products with a sum.
LEMMA SumTimes ==
    ASSUME NEW a \in Int, NEW b \in Int, NEW w \in Int
    PROVE  (a + b) * w = a * w + b * w /\ a * w \in Int /\ b * w \in Int
OBVIOUS

\* The pieces of an axis begin at the multiples of their size.
LEMMA PiecesBegin ==
    ASSUME NEW n \in Nat, NEW size \in Nat \ {0}, NEW k \in Nat \ {0}
    PROVE  k <= (n + size - 1) \div size <=> (k - 1) * size < n
<1> DEFINE m == n + size - 1
           q == m \div size
           r == m % size
           b == (k - 1) * size
           e == q * size
<1>1. m \in Nat
  OBVIOUS
<1> HIDE DEF m
<1>2. q \in Nat /\ r \in 0..size - 1 /\ m = r + e /\ e \in Nat
  <2>1. q \in Nat /\ r \in 0..size - 1 /\ m = r + e
    BY <1>1, Division
  <2> HIDE DEF q
  <2>2. e \in Nat
    BY <2>1
  <2> QED  BY <2>1, <2>2
<1> HIDE DEF q, r
<1>3. b \in Nat /\ k * size \in Nat /\ k * size = b + size
  <2> DEFINE j == k - 1
             one == 1
  <2>1. j \in Nat /\ j + one = k /\ one \in Int /\ one * size = size
    OBVIOUS
  <2> HIDE DEF j, one
  <2>2. (j + one) * size = j * size + one * size /\ j * size \in Nat
    BY <2>1, SumTimes
  <2>3. k * size = j * size + size
    BY <2>1, <2>2
  <2>4. k * size \in Nat
    OBVIOUS
  <2> QED  BY <2>2, <2>3, <2>4 DEF j
<1>4. ASSUME k <= q
      PROVE  b < n
  <2>1. (q - k) * size \in Nat /\ e = k * size + (q - k) * size
    <3>1. q - k \in Nat
      BY <1>2, <1>4
    <3>2. e = (k + (q - k)) * size
      BY <1>2
    <3> DEFINE j == q - k
    <3> HIDE DEF j, e
    <3>3. j * size \in Nat /\ (k + j) * size = k * size + j * size
      <4>1. j \in Nat
        BY <3>1 DEF j
      <4>2. j \in Int /\ k \in Int /\ size \in Int /\ j * size \in Nat
        BY <1>2, <4>1
      <4>3. (k + j) * size = k * size + j * size
        BY <4>2, SumTimes
      <4> QED  BY <4>2, <4>3
    <3> QED  BY <3>2, <3>3 DEF j
  <2> DEFINE x == (q - k) * size
             y == k * size
  <2> HIDE DEF b, e, x, y
  <2> QED  BY <1>2, <1>3, <2>1 DEF x, y, m
<1>5. ASSUME ~(k <= q)
      PROVE  ~(b < n)
  <2>1. (k - 1 - q) * size \in Nat /\ b = e + (k - 1 - q) * size
    <3>1. k - 1 - q \in Nat
      BY <1>2, <1>5
    <3>2. b = (q + (k - 1 - q)) * size
      BY <1>2
    <3> DEFINE j == k - 1 - q
    <3> HIDE DEF j, b
    <3>3. j * size \in Nat /\ (q + j) * size = q * size + j * size
      <4>1. j \in Nat
        BY <3>1 DEF j
      <4>2. j \in Int /\ q \in Int /\ size \in Int /\ j * size \in Nat
        BY <1>2, <4>1
      <4>3. (q + j) * size = q * size + j * size
        BY <4>2, SumTimes
      <4> QED  BY <4>2, <4>3
    <3> QED  BY <3>2, <3>3 DEF j
  <2> DEFINE x == (k - 1 - q) * size
  <2> HIDE DEF b, e, x
  <2> QED  BY <1>2, <1>3, <2>1 DEF x, m
<1> QED  BY <1>4, <1>5 DEF q, m

\* A slice within an axis is taken as it is.
LEMMA NormalizedWithin ==
    ASSUME NEW size \in Nat, NEW start \in Nat, NEW m \in Nat \ {0}, NEW stop, stop = start + m,
           stop <= size
    PROVE  LET n == NormalizedSlice([start |-> start, stop |-> stop, step |-> 1], size)
           IN  n.length = m /\ n.start = start
<1>1. start # Omitted /\ stop # Omitted /\ stop \in Int
  BY OmittedAssumption
<1>2. Clamp(NormalizedDim(start, size), 0, size) = start /\ Clamp(NormalizedDim(stop, size), 0, size) = stop
  BY <1>1 DEF Clamp, NormalizedDim
<1>3. stop - start - 1 = m - 1 /\ ~(stop <= start) /\ 1 + ((m - 1) \div 1) = m
  <2>1. (m - 1) \div 1 = m - 1
    OBVIOUS
  <2> QED  BY <1>1, <2>1
<1> QED  BY <1>1, <1>2, <1>3 DEF NormalizedSlice

\* The positions of a piece are a progression.
LEMMA RunProgresses ==
    ASSUME NEW b \in Nat, NEW m \in Nat, NEW step, step = 1
    PROVE  Progression(Values!Run(b, m), b, step) /\ Len(Values!Run(b, m)) = m
<1>1. Values!Run(b, m) \in [1..m -> Int]
  BY DEF Values!Run
<1>2. Values!Run(b, m) \in Seq(Int) /\ Len(Values!Run(b, m)) = m
  BY <1>1, FunctionsAreSequences
<1>3. ASSUME NEW x \in Nat, x < m
      PROVE  Values!Run(b, m)[x + 1] = b + x * step
  <2>1. x + 1 \in 1..m /\ b + (x + 1) - 1 = b + x * step
    BY <1>3
  <2> QED  BY <2>1 DEF Values!Run
<1> QED  BY <1>2, <1>3 DEF Progression

\* A piece of an axis: a view, grounded, of the positions from its start.
LEMMA PieceShown ==
    ASSUME NEW t, IsLayout(t), Grounded(t), NEW axis \in 1..Len(t.shape),
           NEW start \in Nat, NEW m \in Nat \ {0}, NEW stop, stop = start + m, stop <= t.shape[axis]
    PROVE  LET u == SlicedView(t, axis, start, stop, 1)
           IN  /\ IsLayout(u) /\ Grounded(u) /\ \E M : IsView(u, t, M)
               /\ \A storages : Values!Take(Shown(t, storages), axis, Values!Run(start, m)) = Shown(u, storages)
<1> DEFINE size == t.shape[axis]
           step == 1
           slice == [start |-> start, stop |-> stop, step |-> step]
           n == NormalizedSlice(slice, size)
           u == SlicedView(t, axis, start, stop, step)
           p == Values!Run(start, m)
<1>1. size \in Nat /\ step \in Int /\ step > 0 /\ step \in Int \ {0} /\ stop \in Int /\ start \in Int
  BY LayoutType
<1>2. n.length = m /\ n.start = start
  <2> HIDE DEF size
  <2> QED  BY <1>1, NormalizedWithin DEF size
<1>3. Progression(p, start, step) /\ Len(p) = m
  BY RunProgresses
<1>4. slice.start \in Int \cup {Omitted} /\ slice.stop \in Int \cup {Omitted} /\ slice.step = step
  BY <1>1
<1> HIDE DEF step
<1>5. u = OneSliced(t, axis, n.length, n.start, step)
  BY <1>1, SlicedIs DEF slice
<1>6. Fits(n.length, n.start, step, size)
  <2> HIDE DEF slice, size, n
  <2> QED  BY <1>1, <1>4, NormalizedSliceFits DEF n
<1> HIDE DEF u, n, slice, p
<1>7. u = OneSliced(t, axis, m, start, step) /\ Fits(m, start, step, size)
  BY <1>2, <1>5, <1>6
<1>8. IsLayout(u) /\ Slices(u, t, axis, start, step) /\ u.shape[axis] = m
  <2> DEFINE o == OneSliced(t, axis, m, start, step)
  <2>1. IsLayout(o) /\ Slices(o, t, axis, start, step) /\ o.shape[axis] = m
    BY <1>1, OneSlicedIs
  <2> HIDE DEF o
  <2> QED  BY <1>7, <2>1 DEF o
<1>9. Grounded(u)
  <2>1. Fits(u.shape[axis], start, step, t.shape[axis]) /\ u.shape[axis] > 0
    BY <1>7, <1>8 DEF size
  <2> QED  BY <1>1, <1>8, <2>1, SliceGrounds
<1>10. \E M : IsView(u, t, M)
  <2>1. \A x \in Nat : x < u.shape[axis] => start + x * step \in 0..t.shape[axis] - 1
    BY <1>7, <1>8 DEF Fits, size
  <2> QED  BY <1>1, <1>8, <2>1, SliceIsView
<1>11. ASSUME NEW storages
       PROVE  Values!Take(Shown(t, storages), axis, p) = Shown(u, storages)
  <2>1. Fits(u.shape[axis], start, step, t.shape[axis]) /\ Len(p) = u.shape[axis]
    BY <1>3, <1>7, <1>8 DEF size
  <2> QED  BY <1>1, <1>3, <1>8, <2>1, SliceShown
<1> QED  BY <1>8, <1>9, <1>10, <1>11 DEF u, step, p

\* split() yields the piece asked for, if there are that many.
LEMMA SplitYields ==
    ASSUME IInv, AllGrounded, NEW s \in Slots, NEW d \in Slots, slot[s] # Undefined,
           NEW size \in Nat \ {0}, NEW dim \in Int, ValidDim(dim, Rank(slot[s])), NEW k \in Nat \ {0},
           Split(s, d, size, dim, k)
    PROVE  LET t == slot[s]
               axis == AxisOf(dim, t)
               n == t.shape[axis]
               b == (k - 1) * size
           IN  IF b < n
               THEN Yields(d, Values!Take(Shown(t, memory), axis, Values!Run(b, Min({size, n - b}))))
               ELSE Yields(d, Arrays[d])
<1> DEFINE t == slot[s]
           axis == AxisOf(dim, t)
           n == t.shape[axis]
           begin(j) == (j - 1) * size
           width(j) == Min({size, n - begin(j)})
           pieces == (n + size - 1) \div size
           piece(j) == SlicedView(t, axis, begin(j), begin(j) + width(j), 1)
<1>1. /\ Good(t, memory) /\ IsLayout(t) /\ Grounded(t) /\ Extends(memory, memory)
      /\ memory \in Seq(Seq(Int)) /\ ValidDim(dim, Rank(t))
  BY OperandIsGood DEF AllGrounded
<1>2. axis \in 1..Len(t.shape)
  <2> HIDE DEF t
  <2> QED  BY <1>1, AxisInRange
<1>3. n \in Nat
  BY <1>1, <1>2, LayoutType
<1>4. IF \A j \in 1..pieces : ValidLayout(piece(j))
      THEN Return(d, IF k <= pieces THEN piece(k) ELSE slot[d], memory)
      ELSE Throw
  <2>1. size > 0
    OBVIOUS
  <2> QED  BY <1>1, <2>1, Zenon DEF Split
<1> HIDE DEF t, axis, n, pieces
<1>5. pieces \in Nat /\ \A j \in Nat \ {0} : j <= pieces <=> begin(j) < n
  <2>1. n + size - 1 \in Nat
    BY <1>3
  <2>2. pieces \in Nat
    BY <2>1, Division DEF pieces
  <2>3. ASSUME NEW j \in Nat \ {0}
        PROVE  j <= pieces <=> begin(j) < n
    BY <1>3, PiecesBegin DEF pieces
  <2> QED  BY <2>2, <2>3
<1>6. ASSUME NEW j \in Nat \ {0}, begin(j) < n
      PROVE  /\ Good(piece(j), memory) /\ ValidLayout(piece(j))
             /\ Values!Take(Shown(t, memory), axis, Values!Run(begin(j), width(j))) = Shown(piece(j), memory)
  <2> DEFINE start == begin(j)
             m == width(j)
             stop == start + m
             u == SlicedView(t, axis, start, stop, 1)
  <2>1. start \in Nat
    OBVIOUS
  <2> HIDE DEF start
  <2>2. m \in Nat \ {0} /\ stop <= n
    <3>1. m = IF size <= n - start THEN size ELSE n - start
      <4> DEFINE y == n - start
      <4>1. y \in Int /\ size \in Int
        BY <1>3, <2>1
      <4> HIDE DEF y
      <4>2. Min({size, y}) = IF size <= y THEN size ELSE y
        BY <4>1, MinOfTwo
      <4> QED  BY <4>2 DEF y, start
    <3>2. start < n
      BY <1>6 DEF start
    <3> HIDE DEF m
    <3> QED  BY <1>3, <2>1, <3>1, <3>2
  <2> HIDE DEF m
  <2>3. stop = start + m /\ stop <= t.shape[axis]
    BY <2>2 DEF n
  <2> HIDE DEF stop
  <2>4. /\ IsLayout(u) /\ Grounded(u) /\ \E M : IsView(u, t, M)
        /\ \A storages : Values!Take(Shown(t, storages), axis, Values!Run(start, m)) = Shown(u, storages)
    BY <1>1, <1>2, <2>1, <2>2, <2>3, PieceShown
  <2>5. u = piece(j)
    BY DEF stop, m, start
  <2> HIDE DEF u, piece
  <2>6. PICK M : IsView(u, t, M)
    BY <2>4
  <2>7. Good(u, memory)
    BY <1>1, <2>4, <2>6, GroundedOffset, ViewIsGood
  <2>8. ValidLayout(u)
    BY <1>1, <2>4, <2>7, Accepted
  <2>9. Values!Run(begin(j), width(j)) = Values!Run(start, m)
    BY DEF start, m
  <2> QED  BY <2>4, <2>5, <2>7, <2>8, <2>9
<1>7. Return(d, IF k <= pieces THEN piece(k) ELSE slot[d], memory)
  <2>1. \A j \in 1..pieces : j \in Nat \ {0} /\ j <= pieces
    BY <1>5
  <2> HIDE DEF piece, begin
  <2>2. \A j \in 1..pieces : ValidLayout(piece(j))
    BY <1>5, <1>6, <2>1
  <2> QED  BY <1>4, <2>2
<1>8. CASE begin(k) < n
  <2>1. k <= pieces
    BY <1>5, <1>8
  <2> HIDE DEF piece, begin
  <2>2. Return(d, piece(k), memory)
    BY <1>7, <2>1
  <2>3. Yields(d, Shown(piece(k), memory))
    BY <1>1, <1>6, <1>8, <2>2, Returned
  <2>4. Yields(d, Values!Take(Shown(t, memory), axis, Values!Run(begin(k), width(k))))
    BY <1>6, <1>8, <2>3
  <2> QED  BY <1>8, <2>4 DEF t, axis, n, begin
<1>9. CASE ~(begin(k) < n)
  <2>1. ~(k <= pieces)
    BY <1>5, <1>9
  <2> HIDE DEF piece, begin
  <2>2. Return(d, slot[d], memory)
    BY <1>7, <2>1
  <2>3. Yields(d, Arrays[d])
    BY <2>2, Left
  <2> QED  BY <1>9, <2>3 DEF t, axis, n, begin
<1> QED  BY <1>8, <1>9

\* split() yields one of the pieces, or is refused.
LEMMA SplitImplements ==
    ASSUME IInv, AllGrounded, NEW s \in Slots, NEW d \in Slots, slot[s] # Undefined,
           NEW size \in Int, NEW dim \in Int, NEW k \in Nat \ {0}, Split(s, d, size, dim, k)
    PROVE  Values!Split(s, d, size, dim, k)
<1> DEFINE t == slot[s]
           a == Shown(t, memory)
           axis == AxisOf(dim, t)
           n == t.shape[axis]
           b == (k - 1) * size
           m == Min({size, n - b})
           taken == Values!Take(a, axis, Values!Run(b, m))
<1>1. IsLayout(t) /\ Arrays[s] = a /\ Len(t.shape) \in Nat
  BY OperandIsGood, ArrayIs, LayoutType
<1>2. a.shape = t.shape /\ Rank(t) = Len(a.shape)
  BY DEF Shown, Rank
<1>3. Values!InRange(dim, Len(a.shape)) <=> ValidDim(dim, Rank(t))
  BY <1>1, <1>2, RangeIs
<1>4. Values!Split(s, d, size, dim, k) <=>
        IF size > 0 /\ Values!InRange(dim, Len(a.shape))
        THEN IF b < n THEN Yields(d, taken) ELSE Yields(d, Arrays[d])
        ELSE Refuses
  <2>1. Values!Axis(dim, Len(a.shape)) = axis
    BY AxisIs
  <2>2. a.shape[axis] = n
    BY <1>2
  <2>3. Values!Min({size, n - b}) = m
    BY SameBounds
  <2>4. Values!Take(a, axis, Values!Run((k - 1) * size, m)) = taken
    OBVIOUS
  <2> HIDE DEF a, axis, n, m, taken
  <2> QED  BY <1>1, <2>1, <2>2, <2>3, <2>4
           DEF Values!Split, Values!Piece, Values!Result, Values!Refuse, Yields, Refuses, Arrays
<1>5. CASE size > 0 /\ ValidDim(dim, Rank(t))
  <2>1. size \in Nat \ {0}
    BY <1>5
  <2>2. IF b < n THEN Yields(d, taken) ELSE Yields(d, Arrays[d])
    BY <1>5, <2>1, SplitYields
  <2> HIDE DEF a, axis, n, taken, b
  <2> QED  BY <1>3, <1>4, <1>5, <2>2
<1>6. CASE ~(size > 0 /\ ValidDim(dim, Rank(t)))
  <2>1. Throw
    BY <1>6, Zenon DEF Split
  <2>2. Refuses
    BY <2>1, Thrown
  <2> HIDE DEF a, axis, n, taken, b, t
  <2> QED  BY <1>3, <1>4, <1>6, <2>2
<1> QED  BY <1>5, <1>6

\* chunk() yields one of the pieces of a split, or is refused.
LEMMA ChunkImplements ==
    ASSUME IInv, AllGrounded, NEW s \in Slots, NEW d \in Slots, slot[s] # Undefined,
           NEW chunks \in Int, NEW dim \in Int, NEW k \in Nat \ {0}, Chunk(s, d, chunks, dim, k)
    PROVE  Values!Chunk(s, d, chunks, dim, k)
<1> DEFINE t == slot[s]
           a == Shown(t, memory)
           axis == AxisOf(dim, t)
           n == t.shape[axis]
           each == (n + chunks - 1) \div chunks
           size == Max({each, 1})
           b == (k - 1) * size
           m == Min({size, n - b})
           taken == Values!Take(a, axis, Values!Run(b, m))
<1>1. IsLayout(t) /\ Arrays[s] = a /\ Len(t.shape) \in Nat
  BY OperandIsGood, ArrayIs, LayoutType
<1>2. a.shape = t.shape /\ Rank(t) = Len(a.shape)
  BY DEF Shown, Rank
<1>3. Values!InRange(dim, Len(a.shape)) <=> ValidDim(dim, Rank(t))
  BY <1>1, <1>2, RangeIs
<1>4. Values!Chunk(s, d, chunks, dim, k) <=>
        IF chunks > 0 /\ Values!InRange(dim, Len(a.shape))
        THEN IF b < n THEN Yields(d, taken) ELSE Yields(d, Arrays[d])
        ELSE Refuses
  <2>1. Values!Axis(dim, Len(Arrays[s].shape)) = axis
    BY <1>1, AxisIs
  <2>2. Arrays[s].shape[axis] = n
    BY <1>1, <1>2
  <2>3. Values!ChunkSize(Arrays[s].shape[axis], chunks) = size
    <3>1. {1, each} = {each, 1}
      OBVIOUS
    <3> QED  BY <2>2, <3>1, SameBounds DEF Values!ChunkSize
  <2>4. Values!Min({size, Arrays[s].shape[axis] - b}) = m
    BY <2>2, SameBounds
  <2>5. Values!Take(Arrays[s], axis, Values!Run((k - 1) * size, m)) = taken
    BY <1>1
  <2>6. Values!Chunk(s, d, chunks, dim, k) <=>
          IF chunks > 0 /\ Values!InRange(dim, Len(Arrays[s].shape))
          THEN IF (k - 1) * size < Arrays[s].shape[axis]
               THEN Yields(d, Values!Take(Arrays[s], axis,
                      Values!Run((k - 1) * size,
                                 Values!Min({size, Arrays[s].shape[axis] - (k - 1) * size}))))
               ELSE Yields(d, Arrays[d])
          ELSE Refuses
    <3> HIDE DEF a, axis, n, m, taken, size
    <3> QED  BY <2>1, <2>3
             DEF Values!Chunk, Values!Piece, Values!Result, Values!Refuse, Yields, Refuses, Arrays
  <2> HIDE DEF a, axis, n, m, taken, size
  <2> QED  BY <1>1, <2>2, <2>4, <2>5, <2>6
<1>5. CASE chunks > 0 /\ ValidDim(dim, Rank(t))
  <2>1. axis \in 1..Len(t.shape)
    <3> HIDE DEF t
    <3> QED  BY <1>1, <1>5, AxisInRange
  <2>2. n \in Nat
    BY <1>1, <2>1, LayoutType
  <2>3. each \in Int
    <3> HIDE DEF n
    <3>1. n + chunks - 1 \in Nat /\ chunks \in Nat \ {0}
      BY <1>5, <2>2
    <3> DEFINE x == n + chunks - 1
    <3> HIDE DEF x
    <3>2. x \div chunks \in Nat
      BY <3>1, Division DEF x
    <3> QED  BY <3>2 DEF x
  <2>4. size \in Nat \ {0}
    <3> HIDE DEF each
    <3>1. size = IF each >= 1 THEN each ELSE 1
      <4> DEFINE one == 1
      <4>1. one \in Int
        OBVIOUS
      <4> HIDE DEF one
      <4>2. Max({each, one}) = IF each >= one THEN each ELSE one
        BY <2>3, <4>1, MaxOfTwo
      <4> QED  BY <4>2 DEF one
    <3> HIDE DEF size
    <3> QED  BY <2>3, <3>1
  <2>5. Split(s, d, size, dim, k)
    BY <1>5 DEF Chunk
  <2>6. ValidDim(dim, Rank(slot[s]))
    BY <1>5
  <2> HIDE DEF size
  <2>7. IF b < n THEN Yields(d, taken) ELSE Yields(d, Arrays[d])
    BY <2>4, <2>5, <2>6, SplitYields
  <2> HIDE DEF a, axis, n, taken, b
  <2> QED  BY <1>3, <1>4, <1>5, <2>7
<1>6. CASE ~(chunks > 0 /\ ValidDim(dim, Rank(t)))
  <2>1. Throw
    BY <1>6, Zenon DEF Chunk
  <2>2. Refuses
    BY <2>1, Thrown
  <2> HIDE DEF a, axis, n, taken, b, t, size
  <2> QED  BY <1>3, <1>4, <1>6, <2>2
<1> QED  BY <1>5, <1>6

-----------------------------------------------------------------------------
(* Basic indexing, seen by a caller.                                         *)

\* index(): the array that the components read so far amount to, which the
\* view read so far agrees with while no component is refused.
ReadSoFar(v, t, storages) ==
    [array |-> Shown(Completed(v, t), storages), axis |-> Len(v.shape) + 1, legal |-> TRUE]
Agree(w, r, t, storages) ==
    /\ w.ok \in BOOLEAN /\ r.legal = w.ok
    /\ w.ok = TRUE => IsReading(w, t) /\ Grounded(Completed(w, t)) /\ r = ReadSoFar(w, t, storages)

\* The next axis is the first one that is not read.
LEMMA NextAxis ==
    ASSUME NEW t, IsLayout(t), NEW v, IsReading(v, t), v.axis \in 1..Len(t.shape)
    PROVE  LET u == Completed(v, t)
               k == Len(v.shape) + 1
           IN  /\ IsLayout(u) /\ k \in 1..Len(u.shape) /\ u.shape[k] = t.shape[v.axis]
               /\ t.shape[v.axis] \in Nat
<1> DEFINE axis == v.axis
           next == axis + 1
           u == Completed(v, t)
           k == Len(v.shape) + 1
<1>1. t.shape \in Seq(Nat) /\ Len(t.shape) \in Nat /\ t.shape[axis] \in Nat
  BY LayoutType
<1>2. IsReader(v, t) /\ v.shape \in Seq(Nat)
  BY ReaderType DEF IsReading
<1>3. IsLayout(u) /\ u.shape = Rejoined(v.shape, t.shape, axis)
  BY <1>2, CompletedIs
<1>4. IsNext(next, axis) /\ Behind(k, v.shape)
  BY DEF IsNext, Behind
<1> HIDE DEF k, next, u
<1>5. k \in 1..Len(u.shape) /\ u.shape[k] = t.shape[axis]
  BY <1>1, <1>2, <1>3, <1>4, JoinedOmits
<1> QED  BY <1>1, <1>3, <1>5 DEF u, k

\* An integer picks an element of it.
LEMMA IntegerAgrees ==
    ASSUME NEW t, IsLayout(t), NEW v, IsReading(v, t), v.axis \in 1..Len(t.shape), v.ok = TRUE,
           Grounded(Completed(v, t)), NEW storages, NEW at \in Int
    PROVE  Agree(AtInteger(v, t, at), Values!AtInteger(ReadSoFar(v, t, storages), at), t, storages)
<1> DEFINE size == t.shape[v.axis]
           i == NormalizedDim(at, size)
           w == AtInteger(v, t, at)
           u == Completed(v, t)
           x == Completed(w, t)
           k == Len(v.shape) + 1
           a == Shown(u, storages)
           r == ReadSoFar(v, t, storages)
           q == Values!AtInteger(r, at)
           inside == i \in 0..size - 1
<1>1. IsLayout(u) /\ k \in 1..Len(u.shape) /\ u.shape[k] = size /\ size \in Nat
  BY NextAxis
<1>2. w.ok = inside
  BY DEF AtInteger, IsReading, IsReader, Reader
<1>3. r.array = a /\ r.axis = k /\ a.shape = u.shape /\ r = [array |-> a, axis |-> k, legal |-> TRUE]
  BY DEF ReadSoFar, Shown
<1>4. Values!InRange(at, size) <=> inside
  <2> HIDE DEF size
  <2> QED  BY <1>1, RangeIs
<1>5. Values!Wrapped(at, size) = i
  <2> HIDE DEF size
  <2> QED  BY <1>1, RangeIs
<1> HIDE DEF i, r, k, u, a, size
<1>6. q = IF inside THEN [r EXCEPT !.array = Values!Pick(a, k, i)] ELSE [r EXCEPT !.legal = FALSE]
  <2> HIDE DEF inside
  <2> QED  BY <1>1, <1>3, <1>4, <1>5 DEF Values!AtInteger
<1>7. CASE inside
  <2>1. w.ok = TRUE
    <3> HIDE DEF w
    <3> QED  BY <1>2, <1>7
  <2>2. /\ IsReader(w, t) /\ Len(w.shape) + 1 = k /\ IsLayout(x) /\ i \in 0..u.shape[k] - 1
        /\ Selects(x, u, k, i)
    BY <2>1, IntegerSelects DEF u, k, i, size
  <2>3. IsReading(w, t)
    BY <2>1, IntegerReads
  <2> HIDE DEF w, x, inside
  <2>4. Values!Pick(a, k, i) = Shown(x, storages) /\ Grounded(x)
    BY <1>1, <2>2, SelectionShown, SelectionGrounds DEF u, a
  <2>5. q = [array |-> Shown(x, storages), axis |-> k, legal |-> TRUE]
    <3> DEFINE picked == Values!Pick(a, k, i)
               b == Shown(x, storages)
    <3>1. q = [r EXCEPT !.array = picked] /\ picked = b
      BY <1>6, <1>7, <2>4
    <3> HIDE DEF q, picked, b
    <3> DEFINE yes == TRUE
    <3>2. r = [array |-> a, axis |-> k, legal |-> yes]
      BY <1>3
    <3> HIDE DEF yes
    <3>3. q = [array |-> b, axis |-> k, legal |-> yes]
      BY <3>1, <3>2
    <3> QED  BY <3>3 DEF b, yes
  <2>6. q = ReadSoFar(w, t, storages)
    BY <2>2, <2>5 DEF ReadSoFar, x
  <2>7. q.legal = TRUE
    BY <2>5
  <2> QED  BY <2>1, <2>3, <2>4, <2>6, <2>7 DEF Agree, x, q, r, w
<1>8. CASE ~inside
  <2>1. w.ok = FALSE
    <3> HIDE DEF w, inside
    <3> QED  BY <1>2, <1>8
  <2>2. q.legal = FALSE
    <3> HIDE DEF q
    <3> QED  BY <1>3, <1>6, <1>8
  <2> HIDE DEF w, q
  <2>3. Agree(w, q, t, storages)
    BY <2>1, <2>2 DEF Agree
  <2> QED  BY <2>3 DEF w, q, r
<1> QED  BY <1>7, <1>8

\* A slice takes positions of it.
LEMMA SliceAgrees ==
    ASSUME NEW t, IsLayout(t), NEW v, IsReading(v, t), v.axis \in 1..Len(t.shape), v.ok = TRUE,
           Grounded(Completed(v, t)), NEW storages,
           NEW slice, slice.start \in Int \cup {Omitted}, slice.stop \in Int \cup {Omitted},
           slice.step \in Int
    PROVE  Agree(AtSlice(v, t, slice), Values!AtSlice(ReadSoFar(v, t, storages), slice), t, storages)
<1> DEFINE size == t.shape[v.axis]
           w == AtSlice(v, t, slice)
           u == Completed(v, t)
           x == Completed(w, t)
           k == Len(v.shape) + 1
           n == NormalizedSlice(slice, size)
           step == slice.step
           a == Shown(u, storages)
           r == ReadSoFar(v, t, storages)
           q == Values!AtSlice(r, slice)
           p == Values!Positions(slice, size)
<1>1. IsLayout(u) /\ k \in 1..Len(u.shape) /\ u.shape[k] = size /\ size \in Nat
  BY NextAxis
<1>2. r.array = a /\ r.axis = k /\ a.shape = u.shape /\ r = [array |-> a, axis |-> k, legal |-> TRUE]
  BY DEF ReadSoFar, Shown
<1>3. CASE step = 0
  <2>1. w.ok = FALSE
    BY <1>3 DEF AtSlice, IsReading, IsReader, Reader
  <2>2. q.legal = FALSE
    <3> HIDE DEF r, a, k
    <3>1. q = [r EXCEPT !.legal = FALSE]
      BY <1>3 DEF Values!AtSlice
    <3> HIDE DEF q
    <3> QED  BY <1>2, <3>1
  <2> HIDE DEF w, q
  <2>3. Agree(w, q, t, storages)
    BY <2>1, <2>2 DEF Agree
  <2> QED  BY <2>3 DEF w, q, r
<1>4. CASE step # 0
  <2>1. w.ok = TRUE
    BY <1>4 DEF AtSlice, Keep, IsReading, IsReader, Reader
  <2>2. /\ IsReader(w, t) /\ Len(w.shape) = k /\ IsLayout(x) /\ x.storage = u.storage
        /\ x.shape[k] = n.length /\ Replaces(x.shape, u.shape, k) /\ Replaces(x.strides, u.strides, k)
        /\ (n.length # 0 => Slices(x, u, k, n.start, step))
        /\ (n.length = 0 => x.offset = u.offset)
        /\ step \in Int \ {0}
    BY <2>1, SliceSlices, ZenonT(60)
  <2>3. IsReading(w, t)
    BY <2>1, SliceReads
  <2> HIDE DEF w, x, u, k, n, r, a
  <2>4. Sliced(x, u, k, NormalizedSlice(slice, u.shape[k]), slice.step)
    <3> HIDE DEF size
    <3> QED  BY <1>1, <2>2 DEF Sliced, n
  <2>5. Values!Take(a, k, p) = Shown(x, storages)
    <3>1. Values!Take(Shown(u, storages), k, Values!Positions(slice, u.shape[k])) = Shown(x, storages)
      BY <1>1, <2>2, <2>4, TakenShows
    <3> HIDE DEF size
    <3> QED  BY <1>1, <3>1 DEF a, p
  <2>6. Grounded(x)
    <3>1. CASE x.shape[k] = 0
      <4>1. x.offset = u.offset
        BY <2>2, <3>1
      <4> QED  BY <1>1, <2>2, <3>1, <4>1, EmptyGrounds DEF u
    <3>2. CASE x.shape[k] # 0
      BY <1>1, <2>2, <2>4, <3>2, TakenIsView DEF u
    <3> QED  BY <3>1, <3>2
  <2>7. q = [r EXCEPT !.array = Values!Take(a, k, p), !.axis = k + 1]
    <3> HIDE DEF p, size, step
    <3>1. Values!Positions(slice, r.array.shape[r.axis]) = p
      BY <1>1, <1>2 DEF p
    <3> QED  BY <1>2, <1>4, <3>1 DEF Values!AtSlice, step
  <2>8. q = [array |-> Shown(x, storages), axis |-> k + 1, legal |-> TRUE]
    <3> DEFINE taken == Values!Take(a, k, p)
               b == Shown(x, storages)
    <3>1. q = [r EXCEPT !.array = taken, !.axis = k + 1] /\ taken = b
      BY <2>5, <2>7
    <3> HIDE DEF q, taken, b
    <3> DEFINE yes == TRUE
    <3>2. r = [array |-> a, axis |-> k, legal |-> yes]
      BY <1>2
    <3> HIDE DEF yes
    <3>3. q = [array |-> b, axis |-> k + 1, legal |-> yes]
      BY <3>1, <3>2
    <3> QED  BY <3>3 DEF b, yes
  <2>9. q = ReadSoFar(w, t, storages)
    BY <2>2, <2>8 DEF ReadSoFar, x
  <2>10. q.legal = TRUE
    BY <2>8
  <2> QED  BY <2>1, <2>3, <2>6, <2>9, <2>10 DEF Agree, x, q, r, w
<1> QED  BY <1>3, <1>4

\* None adds an axis in front of it.
LEMMA NewAxisAgrees ==
    ASSUME NEW t, IsLayout(t), NEW v, IsReading(v, t), v.ok = TRUE,
           Grounded(Completed(v, t)), NEW storages
    PROVE  LET r == ReadSoFar(v, t, storages)
           IN  Agree(Keep(v, 1, 0),
                     [r EXCEPT !.array = Values!WithAxis(@, r.axis), !.axis = @ + 1], t, storages)
<1> DEFINE w == Keep(v, 1, 0)
           r == ReadSoFar(v, t, storages)
           u == Completed(v, t)
           x == Completed(w, t)
           k == Len(v.shape) + 1
           a == Shown(u, storages)
           q == [r EXCEPT !.array = Values!WithAxis(@, r.axis), !.axis = @ + 1]
<1>1. /\ IsReader(w, t) /\ w.ok = TRUE /\ Len(w.shape) = k
      /\ IsLayout(u) /\ IsLayout(x) /\ k \in 1..Len(x.shape) /\ Inserts(x, u, k)
  BY NewAxisInserts
<1>2. IsReading(w, t)
  BY NewAxisReads
<1>3. r.array = a /\ r.axis = k /\ r = [array |-> a, axis |-> k, legal |-> TRUE]
  BY DEF ReadSoFar
<1> HIDE DEF w, x, u, k, a, r
<1>4. Values!WithAxis(a, k) = Shown(x, storages) /\ Grounded(x)
  BY <1>1, InsertionShown, InsertionGrounds DEF u, a
<1>5. q = [array |-> Shown(x, storages), axis |-> k + 1, legal |-> TRUE]
  <2> DEFINE wider == Values!WithAxis(a, k)
             next == k + 1
  <2>1. q = [r EXCEPT !.array = wider, !.axis = next]
    BY <1>3, Zenon
  <2> HIDE DEF q, wider, next
  <2> DEFINE yes == TRUE
  <2>2. r = [array |-> a, axis |-> k, legal |-> yes]
    BY <1>3
  <2> HIDE DEF yes
  <2>3. q = [array |-> wider, axis |-> next, legal |-> yes]
    BY <2>1, <2>2
  <2> QED  BY <1>4, <2>3 DEF wider, next, yes
<1> HIDE DEF q
<1>6. q = ReadSoFar(w, t, storages) /\ q.legal = TRUE
  BY <1>1, <1>5 DEF ReadSoFar, x
<1>7. Agree(w, q, t, storages)
  BY <1>1, <1>2, <1>4, <1>6 DEF Agree, x
<1> QED  BY <1>7 DEF w, q, r

\* An ellipsis passes the axes it stands for.
LEMMA EllipsisAgrees ==
    ASSUME NEW t, IsLayout(t), NEW v, IsReading(v, t), v.ok = TRUE, NEW m \in Nat,
           v.axis + m \in 1..Len(t.shape) + 1,
           Grounded(Completed(v, t)), NEW storages
    PROVE  LET r == ReadSoFar(v, t, storages)
           IN  Agree(KeepAll(v, t, m), [r EXCEPT !.axis = @ + m], t, storages)
<1> DEFINE w == KeepAll(v, t, m)
           r == ReadSoFar(v, t, storages)
           q == [r EXCEPT !.axis = @ + m]
<1>1. /\ IsReading(w, t) /\ w.ok = TRUE /\ Len(w.shape) = Len(v.shape) + m
      /\ Completed(w, t) = Completed(v, t)
  BY EllipsisReads
<1>2. Len(v.shape) \in Nat
  BY ReaderType DEF IsReading
<1> HIDE DEF w
<1>3. q = [array |-> Shown(Completed(v, t), storages), axis |-> Len(v.shape) + 1 + m, legal |-> TRUE]
  <2> DEFINE a == Shown(Completed(v, t), storages)
             k == Len(v.shape) + 1
             yes == TRUE
  <2>1. r = [array |-> a, axis |-> k, legal |-> yes]
    BY DEF ReadSoFar
  <2> HIDE DEF a, k, yes
  <2>2. q = [array |-> a, axis |-> k + m, legal |-> yes]
    BY <2>1
  <2> QED  BY <2>2 DEF a, k, yes
<1> HIDE DEF q
<1>4. Len(v.shape) + 1 + m = Len(w.shape) + 1
  BY <1>1, <1>2
<1>5. q = ReadSoFar(w, t, storages) /\ q.legal = TRUE
  BY <1>1, <1>3, <1>4 DEF ReadSoFar
<1>6. Agree(w, q, t, storages)
  BY <1>1, <1>5 DEF Agree
<1> QED  BY <1>6 DEF w, q

\* Whatever the component, the view and the array read so far agree.
LEMMA ComponentAgrees ==
    ASSUME NEW t, IsLayout(t), NEW v, v.ok = TRUE, NEW c, NEW m \in Nat, MayRead(v, c, t, m),
           NEW storages, NEW r, Agree(v, r, t, storages)
    PROVE  Agree(AtComponent(v, t, c, m), Values!AtComponent(r, c, m), t, storages)
<1> DEFINE q == ReadSoFar(v, t, storages)
           w == AtComponent(v, t, c, m)
           y == Values!AtComponent(q, c, m)
<1>1. /\ IsReading(v, t) /\ c \in Component
      /\ c.kind \in {"int", "slice"} => v.axis \in 1..Len(t.shape)
      /\ c.kind = "ellipsis" => v.axis + m \in 1..Len(t.shape) + 1
  BY DEF MayRead
<1>2. r = q /\ Grounded(Completed(v, t)) /\ q.legal = TRUE
  BY DEF Agree, ReadSoFar
<1> SUFFICES Agree(w, y, t, storages)
  <2> HIDE DEF q
  <2> QED  BY <1>2
<1>3. CASE c.kind = "int"
  <2>1. w = AtInteger(v, t, c.at) /\ c.at \in Int
    BY <1>1, <1>3 DEF AtComponent, Component
  <2>2. y = Values!AtInteger(q, c.at)
    <3> HIDE DEF q
    <3> QED  BY <1>2, <1>3 DEF Values!AtComponent
  <2>3. Agree(AtInteger(v, t, c.at), Values!AtInteger(q, c.at), t, storages)
    BY <1>1, <1>2, <1>3, <2>1, IntegerAgrees
  <2> HIDE DEF w, y, q
  <2> QED  BY <2>1, <2>2, <2>3
<1>4. CASE c.kind = "slice"
  <2>1. /\ w = AtSlice(v, t, c) /\ c.start \in Int \cup {Omitted}
        /\ c.stop \in Int \cup {Omitted} /\ c.step \in Int
    BY <1>1, <1>4 DEF AtComponent, Component
  <2>2. y = Values!AtSlice(q, c)
    <3> HIDE DEF q
    <3> QED  BY <1>2, <1>4 DEF Values!AtComponent
  <2>3. Agree(AtSlice(v, t, c), Values!AtSlice(q, c), t, storages)
    BY <1>1, <1>2, <1>4, <2>1, SliceAgrees
  <2> HIDE DEF w, y, q
  <2> QED  BY <2>1, <2>2, <2>3
<1>5. CASE c.kind = "none"
  <2> DEFINE z == [q EXCEPT !.array = Values!WithAxis(@, q.axis), !.axis = @ + 1]
  <2>1. w = Keep(v, 1, 0)
    BY <1>5 DEF AtComponent
  <2>2. y = z
    <3> HIDE DEF q
    <3> QED  BY <1>2, <1>5 DEF Values!AtComponent
  <2>3. Agree(Keep(v, 1, 0), z, t, storages)
    BY <1>1, <1>2, NewAxisAgrees
  <2> HIDE DEF w, y, z, q
  <2> QED  BY <2>1, <2>2, <2>3
<1>6. CASE c.kind = "ellipsis"
  <2> DEFINE z == [q EXCEPT !.axis = @ + m]
  <2>1. w = KeepAll(v, t, m)
    BY <1>6 DEF AtComponent
  <2>2. y = z
    <3> HIDE DEF q
    <3> QED  BY <1>2, <1>6 DEF Values!AtComponent
  <2>3. Agree(KeepAll(v, t, m), z, t, storages)
    BY <1>1, <1>2, <1>6, EllipsisAgrees
  <2> HIDE DEF w, y, z, q
  <2> QED  BY <2>1, <2>2, <2>3
<1>7. c.kind \in {"int", "slice", "none", "ellipsis"}
  BY <1>1 DEF Component
<1> HIDE DEF w, y, q
<1> QED  BY <1>3, <1>4, <1>5, <1>6, <1>7

\* What has been refused stays refused.
LEMMA RefusedAgrees ==
    ASSUME NEW t, NEW v, v.ok = FALSE, NEW c, NEW m, NEW storages, NEW r, Agree(v, r, t, storages)
    PROVE  Agree(AtComponent(v, t, c, m), Values!AtComponent(r, c, m), t, storages)
<1>1. r.legal = FALSE
  BY DEF Agree
<1>2. AtComponent(v, t, c, m) = v
  BY DEF AtComponent
<1>3. Values!AtComponent(r, c, m) = r
  BY <1>1 DEF Values!AtComponent
<1> QED  BY <1>2, <1>3

\* Nothing is read of an array; g[k] is what k components have read.
Unread(a) == [array |-> a, axis |-> 1, legal |-> TRUE]
ArrayReads(g, start, m, x, n) ==
    g[0] = start /\ \A k \in 1..n : g[k] = Values!AtComponent(g[k - 1], x[k], m)

\* The two readings agree, component by component.
LEMMA ReadingsAgree ==
    ASSUME NEW t, IsLayout(t), Grounded(t), NEW n \in Nat, NEW x, NEW m \in Nat, NEW storages,
           NEW f, Reads(f, t, m, Beginning(t), x, n),
           \A k \in 1..n : f[k - 1].ok = TRUE => MayRead(f[k - 1], x[k], t, m),
           NEW g, ArrayReads(g, Unread(Shown(t, storages)), m, x, n)
    PROVE  Agree(f[n], g[n], t, storages)
<1> DEFINE P == {k \in 0..n : Agree(f[k], g[k], t, storages)}
           start == Unread(Shown(t, storages))
<1>1. 0 \in P
  <2> DEFINE v == Beginning(t)
  <2>1. f[0] = v /\ g[0] = start
    BY DEF Reads, ArrayReads
  <2>2. v.ok = TRUE /\ v.shape = <<>> /\ IsReading(v, t) /\ Completed(v, t) = t
    BY BeginningReads DEF Beginning
  <2>3. Len(v.shape) + 1 = 1
    <3> DEFINE empty == v.shape
    <3>1. Len(empty) = 0
      BY <2>2
    <3> HIDE DEF empty
    <3> QED  BY <3>1 DEF empty
  <2>4. start = ReadSoFar(v, t, storages)
    <3> DEFINE k == Len(v.shape) + 1
               u == Completed(v, t)
    <3>1. k = 1 /\ u = t
      BY <2>2, <2>3
    <3> HIDE DEF k, u
    <3>2. start = [array |-> Shown(u, storages), axis |-> k, legal |-> TRUE]
      BY <3>1 DEF Unread
    <3> QED  BY <3>2 DEF ReadSoFar, k, u
  <2>5. start.legal = TRUE
    BY DEF Unread
  <2> HIDE DEF v, start
  <2>6. Agree(v, start, t, storages)
    BY <2>2, <2>4, <2>5 DEF Agree
  <2> QED  BY <2>1, <2>6
<1>2. ASSUME NEW k \in 1..n, k - 1 \in P
      PROVE  k \in P
  <2> DEFINE v == f[k - 1]
             r == g[k - 1]
  <2>1. Agree(v, r, t, storages)
    BY <1>2
  <2>2. f[k] = AtComponent(v, t, x[k], m) /\ g[k] = Values!AtComponent(r, x[k], m)
    BY DEF Reads, ArrayReads
  <2>3. v.ok = TRUE => MayRead(v, x[k], t, m)
    OBVIOUS
  <2> HIDE DEF v, r
  <2>4. v.ok \in BOOLEAN
    BY <2>1 DEF Agree
  <2>5. Agree(AtComponent(v, t, x[k], m), Values!AtComponent(r, x[k], m), t, storages)
    <3> DEFINE c == x[k]
    <3> HIDE DEF c
    <3>1. CASE v.ok = TRUE
      <4>1. MayRead(v, c, t, m)
        BY <2>3, <3>1 DEF c
      <4>2. Agree(AtComponent(v, t, c, m), Values!AtComponent(r, c, m), t, storages)
        BY <2>1, <3>1, <4>1, ComponentAgrees
      <4> QED  BY <4>2 DEF c
    <3>2. CASE v.ok = FALSE
      <4>1. Agree(AtComponent(v, t, c, m), Values!AtComponent(r, c, m), t, storages)
        BY <2>1, <3>2, RefusedAgrees
      <4> QED  BY <4>1 DEF c
    <3> QED  BY <2>4, <3>1, <3>2
  <2> QED  BY <2>2, <2>5
<1>3. n \in P
  <2>1. 0..n \subseteq P
    <3> HIDE DEF P
    <3> QED  BY <1>1, <1>2, UpTo
  <2> HIDE DEF P
  <2> QED  BY <2>1
<1> QED  BY <1>3

\* A subscript can be read off an array component by component.
LEMMA ArrayReadsExist ==
    ASSUME NEW start, NEW m, NEW x, NEW n \in Nat
    PROVE  \E g : ArrayReads(g, start, m, x, n)
<1> DEFINE P == {k \in 0..n : \E g : ArrayReads(g, start, m, x, k)}
<1>1. 0 \in P
  <2> DEFINE g == [i \in 0..0 |-> start]
  <2>1. ArrayReads(g, start, m, x, 0)
    BY DEF ArrayReads
  <2> QED  BY <2>1
<1>2. ASSUME NEW k \in 1..n, k - 1 \in P
      PROVE  k \in P
  <2>1. PICK h : ArrayReads(h, start, m, x, k - 1)
    BY <1>2
  <2> DEFINE last == Values!AtComponent(h[k - 1], x[k], m)
             g == [i \in 0..k |-> IF i = k THEN last ELSE h[i]]
  <2> HIDE DEF last
  <2>2. g[k] = last /\ \A i \in 0..k - 1 : g[i] = h[i]
    OBVIOUS
  <2> HIDE DEF g
  <2>3. g[0] = start
    BY <2>1, <2>2 DEF ArrayReads
  <2>4. ASSUME NEW i \in 1..k
        PROVE  g[i] = Values!AtComponent(g[i - 1], x[i], m)
    <3>1. CASE i = k
      <4>1. g[k - 1] = h[k - 1]
        BY <2>2
      <4> QED  BY <2>2, <3>1, <4>1 DEF last
    <3>2. CASE i # k
      <4>1. i \in 1..k - 1 /\ i - 1 \in 0..k - 1 /\ i \in 0..k - 1
        BY <3>2
      <4>2. h[i] = Values!AtComponent(h[i - 1], x[i], m)
        BY <2>1, <4>1 DEF ArrayReads
      <4> QED  BY <2>2, <4>1, <4>2
    <3> QED  BY <3>1, <3>2
  <2>5. ArrayReads(g, start, m, x, k)
    BY <2>3, <2>4 DEF ArrayReads
  <2> QED  BY <2>5
<1>3. n \in P
  <2>1. 0..n \subseteq P
    <3> HIDE DEF P
    <3> QED  BY <1>1, <1>2, UpTo
  <2> HIDE DEF P
  <2> QED  BY <2>1
<1> QED  BY <1>3

\* What a caller reads off an array, from left to right.
LEMMA ArrayReadingIsFolded ==
    ASSUME NEW a, NEW m, NEW x, Len(x) \in Nat
    PROVE  \E g : ArrayReads(g, Unread(a), m, x, Len(x)) /\ Values!Read(a, x, m) = g[Len(x)]
<1> DEFINE n == Len(x)
           start == Unread(a)
           recursive(f) ==
               f = [k \in 0..n |-> IF k = 0 THEN start ELSE Values!AtComponent(f[k - 1], x[k], m)]
<1>1. PICK g : ArrayReads(g, start, m, x, n)
  BY ArrayReadsExist
<1> DEFINE f == [k \in 0..n |-> g[k]]
<1>2. n \in Nat
  OBVIOUS
<1>3. recursive(f)
  <2> HIDE DEF n, start
  <2>1. \A k \in 0..n : k = 0 \/ (k \in 1..n /\ k - 1 \in 0..n)
    BY <1>2
  <2>2. g[0] = start
    BY <1>1 DEF ArrayReads
  <2>3. ASSUME NEW k \in 0..n
        PROVE  f[k] = IF k = 0 THEN start ELSE Values!AtComponent(f[k - 1], x[k], m)
    <3>1. CASE k = 0
      BY <2>2, <3>1
    <3>2. CASE k # 0
      <4>1. k \in 1..n /\ f[k - 1] = g[k - 1] /\ f[k] = g[k]
        BY <2>1, <3>2
      <4>2. g[k] = Values!AtComponent(g[k - 1], x[k], m)
        BY <1>1, <4>1 DEF ArrayReads
      <4> QED  BY <3>2, <4>1, <4>2
    <3> QED  BY <3>1, <3>2
  <2> QED  BY <2>3
<1> DEFINE upTo == CHOOSE h : recursive(h)
<1>4. recursive(upTo)
  <2> HIDE DEF recursive, f
  <2> QED  BY <1>3
<1>5. Values!Read(a, x, m) = upTo[n]
  BY DEF Values!Read, Values!Folded, Unread
<1> HIDE DEF upTo
<1>6. ArrayReads(upTo, start, m, x, n)
  <2> HIDE DEF n, start
  <2>1. \A k \in 1..n : k \in 0..n /\ k # 0
    BY <1>2
  <2>2. 0 \in 0..n
    BY <1>2
  <2>3. \A k \in 0..n : upTo[k] = IF k = 0 THEN start ELSE Values!AtComponent(upTo[k - 1], x[k], m)
    BY <1>4
  <2> QED  BY <2>1, <2>2, <2>3 DEF ArrayReads
<1> QED  BY <1>5, <1>6

\* index() reads the array that NumPy would, and throws only for a subscript that
\* is not one of it.
LEMMA IndexImplements ==
    ASSUME IInv, AllGrounded, NEW s \in Slots, NEW d \in Slots, slot[s] # Undefined,
           NEW x \in Seq(Component), Index(s, d, x)
    PROVE  Values!Index(s, d, x)
<1> DEFINE t == slot[s]
           a == Shown(t, memory)
           r == Rank(t)
           n == Len(x)
           Axes == {k \in 1..n : x[k].kind \in {"int", "slice"}}
           Gaps == {k \in 1..n : x[k].kind = "ellipsis"}
           m == r - Cardinality(Axes)
           read == Reading(t, x, m)
           found == Values!Read(a, x, m)
           view == KeepAll(read, t, r + 1 - read.axis)
           u == [t EXCEPT !.shape = view.shape, !.strides = view.strides, !.offset = view.offset]
           admitted == Cardinality(Gaps) <= 1 /\ Cardinality(Axes) <= r
<1>1. Good(t, memory) /\ IsLayout(t) /\ Grounded(t) /\ Arrays[s] = a
  BY OperandIsGood, ArrayIs DEF AllGrounded
<1>2. n \in Nat /\ DOMAIN x = 1..n /\ \A k \in 1..n : x[k] \in Component
  BY LenProperties, ElementOfSeq
<1>3. IF admitted /\ read.ok THEN Construct(d, u) ELSE Throw
  BY <1>2 DEF Index
<1>4. Values!Index(s, d, x) <=> IF admitted /\ found.legal THEN Yields(d, found.array) ELSE Refuses
  <2>1. Values!Consumed(x) = Cardinality(Axes) /\ Values!Ellipses(x) = Cardinality(Gaps)
    <3> HIDE DEF n
    <3> QED  BY <1>2, SameCardinality DEF Values!Consumed, Values!Ellipses
  <2>2. Len(a.shape) = r
    BY DEF Shown, Rank
  <2>3. Values!Read(a, x, Len(a.shape) - Values!Consumed(x)) = found
    <3> HIDE DEF a, Axes, r
    <3> QED  BY <2>1, <2>2
  <2> HIDE DEF a, Axes, Gaps, found, r
  <2> QED  BY <1>1, <2>1, <2>2, <2>3
           DEF Values!Index, Values!Result, Values!Refuse, Yields, Refuses, Arrays
<1>5. CASE admitted
  <2> HIDE DEF t, read, found, a
  <2>1. PICK axes : Counts(axes, Axes, n)
    <3>1. Axes \in SUBSET (1..n)
      OBVIOUS
    <3> HIDE DEF Axes, n
    <3> QED  BY <1>2, <3>1, CountsExist
  <2>2. PICK gaps : Counts(gaps, Gaps, n)
    <3>1. Gaps \in SUBSET (1..n)
      OBVIOUS
    <3> HIDE DEF Gaps, n
    <3> QED  BY <1>2, <3>1, CountsExist
  <2>3. PICK f : Reads(f, t, m, Beginning(t), x, n) /\ read = f[n]
    <3> DEFINE c == m
    <3> HIDE DEF c
    <3>1. \E f : Reads(f, t, c, Beginning(t), x, Len(x)) /\ Reading(t, x, c) = f[Len(x)]
      BY <1>2, ReadingIsFolded
    <3> QED  BY <3>1 DEF c, read
  <2>4. PICK g : ArrayReads(g, Unread(a), m, x, n) /\ found = g[n]
    <3> DEFINE c == m
    <3> HIDE DEF c
    <3>1. \E g : ArrayReads(g, Unread(a), c, x, Len(x)) /\ Values!Read(a, x, c) = g[Len(x)]
      BY <1>2, ArrayReadingIsFolded
    <3> QED  BY <3>1 DEF c, found
  <2>5. m \in Nat /\ axes[n] + m = Len(t.shape) /\ gaps[n] <= 1
    <3>1. axes[n] = Cardinality(Axes) /\ axes[n] \in Nat /\ gaps[n] = Cardinality(Gaps)
      <4>1. n \in 0..n
        BY <1>2
      <4> HIDE DEF n, Axes, Gaps
      <4> QED  BY <2>1, <2>2, <4>1 DEF Counts
    <3>2. r = Len(t.shape) /\ r \in Nat
      BY <1>1, LayoutType DEF Rank
    <3> HIDE DEF n, Axes, Gaps
    <3> QED  BY <1>5, <3>1, <3>2
  <2>6. \A k \in 1..n : f[k - 1].ok = TRUE => MayRead(f[k - 1], x[k], t, m)
    <3> HIDE DEF n, m
    <3> QED  BY <1>1, <1>2, <2>1, <2>2, <2>3, <2>5, ReadingGoesOn
  <2>7. Agree(read, found, t, memory)
    <3>1. Agree(f[n], g[n], t, memory)
      <4> HIDE DEF n, m
      <4> QED  BY <1>1, <1>2, <2>3, <2>4, <2>5, <2>6, ReadingsAgree DEF a
    <3> QED  BY <2>3, <2>4, <3>1
  <2>8. CASE read.ok = TRUE
    <3>1. IsReading(read, t) /\ Grounded(Completed(read, t)) /\ found = ReadSoFar(read, t, memory)
      BY <2>7, <2>8 DEF Agree
    <3>2. u = Completed(read, t)
      BY <1>1, <3>1, ViewIsCompleted, Zenon
    <3>3. PICK M : IsView(u, t, M)
      <4> HIDE DEF u
      <4> QED  BY <3>1, <3>2 DEF IsReading
    <3>4. Construct(d, u)
      BY <1>3, <1>5, <2>8
    <3> HIDE DEF u
    <3>5. Yields(d, Shown(u, memory))
      BY <1>1, <3>1, <3>2, <3>3, <3>4, Constructed
    <3>6. found.legal = TRUE /\ found.array = Shown(u, memory)
      BY <3>1, <3>2 DEF ReadSoFar
    <3> HIDE DEF admitted
    <3> QED  BY <1>4, <1>5, <3>5, <3>6
  <2>9. CASE read.ok = FALSE
    <3>1. found.legal = FALSE
      BY <2>7, <2>9 DEF Agree
    <3> HIDE DEF admitted, u
    <3>2. Throw
      BY <1>3, <2>9
    <3>3. Refuses
      BY <3>2, Thrown
    <3> QED  BY <1>4, <3>1, <3>3
  <2>10. read.ok \in BOOLEAN
    BY <2>7 DEF Agree
  <2> QED  BY <2>8, <2>9, <2>10
<1>6. CASE ~admitted
  <2> HIDE DEF admitted, u, read, found
  <2>1. Throw
    BY <1>3, <1>6
  <2>2. Refuses
    BY <2>1, Thrown
  <2> QED  BY <1>4, <1>6, <2>2
<1> QED  BY <1>5, <1>6

-----------------------------------------------------------------------------
(* Behaviours, seen by a caller.                                             *)

\* No call changes what a caller sees unless it says so.
LEMMA Unchanged ==
    ASSUME UNCHANGED vars
    PROVE  UNCHANGED Values!vars
<1>1. UNCHANGED <<slot, memory>> /\ UNCHANGED <<threw, call>>
  BY DEF vars
<1>2. UNCHANGED Arrays
  BY <1>1 DEF Arrays, Denoted, Materialized, Address, Dot, Unravel
<1> QED  BY <1>1, <1>2 DEF Values!vars, Arrays

\* Undefined is not an array.
LEMMA ArrayIsDefined ==
    ASSUME IInv, NEW s \in Slots, slot[s] # Undefined
    PROVE  Arrays[s] # Undefined
<1> DEFINE t == slot[s]
           data == Materialized(t)
<1>1. Good(t, memory) /\ IsLayout(t) /\ memory \in Seq(Seq(Int))
  BY OperandIsGood DEF IInv
<1>2. t.shape \in Seq(Nat)
  BY <1>1, LayoutType
<1> HIDE DEF t
<1>3. data \in Seq(Int)
  BY <1>1, MaterializedIs
<1>4. Arrays[s] = Denoted(t)
  BY DEF Arrays, t
<1> HIDE DEF data
<1>5. Denoted(t) \in [shape : Seq(Nat), data : Seq(Int)]
  BY <1>2, <1>3 DEF Denoted, data
<1> QED  BY <1>4, <1>5, UndefinedAssumption

\* Whatever the call, the arrays of a caller change as TensorValues says.
LEMMA CallImplements ==
    ASSUME IInv, AllGrounded, NEW s \in Slots, NEW d \in Slots, slot[s] # Undefined,
           OneOperand(s, d)
    PROVE  Values!OneOperand(s, d) \/ EmptySliceRefused
<1>1. /\ \A x \in Inputs.shapes \cup Inputs.permutations : x \in Seq(Int)
      /\ \A x \in Inputs.subscripts : x \in Seq(Component)
      /\ \A b \in Inputs.slices : b[1] \in Int /\ b[2] \in Int /\ b[3] \in Int
      /\ Inputs.dims \subseteq Int /\ Inputs.indices \subseteq Int /\ Inputs.counts \subseteq Int
  BY InputsAssumption
<1>2. ASSUME NEW dim \in Inputs.dims, NEW i \in Inputs.indices,
             Select(s, d, dim, i), call' = <<"select", s, d, dim, i>>
      PROVE  Values!OneOperand(s, d)
  <2>1. dim \in Int /\ i \in Int
    BY <1>1, Zenon
  <2>2. Values!Select(s, d, dim, i)
    BY <1>2, <2>1, SelectImplements
  <2> QED  BY <1>2, <2>2, Zenon DEF Values!OneOperand
<1>3. ASSUME NEW dim \in Inputs.dims, NEW b \in Inputs.slices,
             Slice(s, d, dim, b[1], b[2], b[3]), call' = <<"slice", s, d, dim, b>>
      PROVE  Values!OneOperand(s, d) \/ EmptySliceRefused
  <2>1. dim \in Int /\ b[1] \in Int /\ b[2] \in Int /\ b[3] \in Int
    BY <1>1, Zenon
  <2>2. \/ Values!Slice(s, d, dim, b[1], b[2], b[3])
        \/ b[3] > 0 /\ StartsBehind(slot[s], dim, b[1]) /\ Values!Refuse
    BY <1>3, <2>1, SliceImplements
  <2>3. CASE Values!Slice(s, d, dim, b[1], b[2], b[3])
    BY <1>3, <2>3, Zenon DEF Values!OneOperand
  <2>4. CASE b[3] > 0 /\ StartsBehind(slot[s], dim, b[1]) /\ Values!Refuse
    BY <1>3, <2>4, Zenon DEF EmptySliceRefused
  <2> QED  BY <2>2, <2>3, <2>4
<1>4. ASSUME NEW x \in Inputs.subscripts,
             Index(s, d, x), call' = <<"index", s, d, x>>
      PROVE  Values!OneOperand(s, d)
  <2>1. x \in Seq(Component)
    BY <1>1, Zenon
  <2>2. Values!Index(s, d, x)
    BY <1>4, <2>1, IndexImplements
  <2> QED  BY <1>4, <2>2, Zenon DEF Values!OneOperand
<1>5. ASSUME NEW x \in Inputs.shapes,
             Reshape(s, d, x), call' = <<"reshape", s, d, x>>
      PROVE  Values!OneOperand(s, d)
  <2>1. x \in Seq(Int)
    BY <1>1, Zenon
  <2>2. Values!Reshape(s, d, x)
    BY <1>5, <2>1, ReshapeImplements
  <2> QED  BY <1>5, <2>2, Zenon DEF Values!OneOperand
<1>6. ASSUME NEW x \in Inputs.shapes,
             View(s, d, x), call' = <<"view", s, d, x>>
      PROVE  Values!OneOperand(s, d)
  <2>1. x \in Seq(Int)
    BY <1>1, Zenon
  <2>2. Values!Reshape(s, d, x)
    BY <1>6, <2>1, ReshapeImplements DEF View
  <2> QED  BY <1>6, <2>2, Zenon DEF Values!OneOperand
<1>7. ASSUME NEW i \in Inputs.dims, NEW j \in Inputs.dims,
             Flatten(s, d, i, j), call' = <<"flatten", s, d, i, j>>
      PROVE  Values!OneOperand(s, d)
  <2>1. i \in Int /\ j \in Int
    BY <1>1, Zenon
  <2>2. Values!Flatten(s, d, i, j)
    BY <1>7, <2>1, FlattenImplements
  <2> QED  BY <1>7, <2>2, Zenon DEF Values!OneOperand
<1>8. ASSUME NEW dim \in Inputs.dims,
             Unsqueeze(s, d, dim), call' = <<"unsqueeze", s, d, dim>>
      PROVE  Values!OneOperand(s, d)
  <2>1. dim \in Int
    BY <1>1, Zenon
  <2>2. Values!Unsqueeze(s, d, dim)
    BY <1>8, <2>1, UnsqueezeImplements
  <2> QED  BY <1>8, <2>2, Zenon DEF Values!OneOperand
<1>9. ASSUME SqueezeAll(s, d), call' = <<"squeezeAll", s, d>>
      PROVE  Values!OneOperand(s, d)
  <2>1. Values!SqueezeAll(s, d)
    BY <1>9, SqueezeAllImplements
  <2> QED  BY <1>9, <2>1, Zenon DEF Values!OneOperand
<1>10. ASSUME NEW dim \in Inputs.dims,
             Squeeze(s, d, dim), call' = <<"squeeze", s, d, dim>>
      PROVE  Values!OneOperand(s, d)
  <2>1. dim \in Int
    BY <1>1, Zenon
  <2>2. Values!Squeeze(s, d, dim)
    BY <1>10, <2>1, SqueezeImplements
  <2> QED  BY <1>10, <2>2, Zenon DEF Values!OneOperand
<1>11. ASSUME NEW p \in Inputs.permutations,
             Permute(s, d, p), call' = <<"permute", s, d, p>>
      PROVE  Values!OneOperand(s, d)
  <2>1. p \in Seq(Int)
    BY <1>1, Zenon
  <2>2. Values!Permute(s, d, p)
    BY <1>11, <2>1, PermuteImplements
  <2> QED  BY <1>11, <2>2, Zenon DEF Values!OneOperand
<1>12. ASSUME NEW i \in Inputs.dims, NEW j \in Inputs.dims,
             Transpose(s, d, i, j), call' = <<"transpose", s, d, i, j>>
      PROVE  Values!OneOperand(s, d)
  <2>1. i \in Int /\ j \in Int
    BY <1>1, Zenon
  <2>2. Values!Transpose(s, d, i, j)
    BY <1>12, <2>1, TransposeImplements
  <2> QED  BY <1>12, <2>2, Zenon DEF Values!OneOperand
<1>13. ASSUME Contiguous(s, d), call' = <<"contiguous", s, d>>
      PROVE  Values!OneOperand(s, d)
  <2>1. Values!Same(s, d)
    BY <1>13, ContiguousImplements
  <2> QED  BY <1>13, <2>1, Zenon DEF Values!OneOperand
<1>14. ASSUME Copy(s, d), call' = <<"copy", s, d>>
      PROVE  Values!OneOperand(s, d)
  <2>1. Values!Same(s, d)
    BY <1>14, CopyImplements
  <2> QED  BY <1>14, <2>1, Zenon DEF Values!OneOperand
<1>15. ASSUME NEW n \in Inputs.counts, NEW dim \in Inputs.dims, NEW k \in 1..2,
             Split(s, d, n, dim, k), call' = <<"split", s, d, n, dim, k>>
      PROVE  Values!OneOperand(s, d)
  <2>1. n \in Int /\ dim \in Int
    BY <1>1, Zenon
  <2>2. k \in Nat \ {0}
    OBVIOUS
  <2>3. Values!Split(s, d, n, dim, k)
    BY <1>15, <2>1, <2>2, SplitImplements
  <2> QED  BY <1>15, <2>3, Zenon DEF Values!OneOperand
<1>16. ASSUME NEW n \in Inputs.counts, NEW dim \in Inputs.dims, NEW k \in 1..2,
             Chunk(s, d, n, dim, k), call' = <<"chunk", s, d, n, dim, k>>
      PROVE  Values!OneOperand(s, d)
  <2>1. n \in Int /\ dim \in Int
    BY <1>1, Zenon
  <2>2. k \in Nat \ {0}
    OBVIOUS
  <2>3. Values!Chunk(s, d, n, dim, k)
    BY <1>16, <2>1, <2>2, ChunkImplements
  <2> QED  BY <1>16, <2>3, Zenon DEF Values!OneOperand
<1> QED
  BY <1>2, <1>3, <1>4, <1>5, <1>6, <1>7, <1>8, <1>9, <1>10, <1>11, <1>12, <1>13, <1>14, <1>15, <1>16, Zenon
     DEF OneOperand

\* Initially no array is defined.
LEMMA InitImplements == Init => Values!Init
<1> SUFFICES ASSUME Init PROVE Values!Init
  OBVIOUS
<1>1. Arrays = [s \in Slots |-> Undefined]
  BY DEF Init, Arrays
<1> QED  BY <1>1 DEF Init, Values!Init, Arrays

\* Every step changes the arrays as TensorValues says, or not at all.
LEMMA NextImplements ==
    IInv /\ AllGrounded /\ [Next]_vars => [Values!Next \/ EmptySliceRefused]_(Values!vars)
<1> SUFFICES ASSUME IInv, AllGrounded, [Next]_vars
             PROVE  [Values!Next \/ EmptySliceRefused]_(Values!vars)
  OBVIOUS
<1>1. ASSUME NEW d \in Slots, NEW v \in Inputs.vectors, FromVector(d, v.shape, v.size),
             call' = <<"from_vector", d, v>>
      PROVE  Values!Next
  <2>1. v.shape \in Seq(Nat) /\ v.size \in Nat
    BY InputsAssumption, Zenon
  <2>2. Values!FromVector(d, v.shape, v.size)
    BY <1>1, <2>1, FromVectorImplements
  <2> QED  BY <1>1, <2>2, Zenon DEF Values!Next
<1>2. ASSUME NEW s \in Slots, CallOnUndefined(s), call' = <<"undefined", s>>
      PROVE  Values!Next
  <2>1. Values!CallOnUndefined(s)
    BY <1>2, UndefinedImplements
  <2> QED  BY <1>2, <2>1, Zenon DEF Values!Next
<1>3. ASSUME NEW s \in Slots, NEW d \in Slots, slot[s] # Undefined, OneOperand(s, d)
      PROVE  Values!Next \/ EmptySliceRefused
  <2>1. Values!OneOperand(s, d) \/ EmptySliceRefused
    BY <1>3, CallImplements
  <2>2. Arrays[s] # Undefined
    BY <1>3, ArrayIsDefined
  <2> QED  BY <2>1, <2>2, Zenon DEF Values!Next, Arrays
<1>4. CASE UNCHANGED vars
  BY <1>4, Unchanged
<1> QED  BY <1>1, <1>2, <1>3, <1>4, Zenon DEF Next

\* No tensor's negative strides reach below its storage, not even without
\* elements: the constructor sees to it, and so views of it are accepted.
LEMMA GroundedAlways == Spec => []AllGrounded
<1> QED  BY Invariance, GroundedInitially, NextGrounds, PTL DEF Spec

(* ImplementsValues: whatever the shapes, the arguments and the chain of     *)
(* calls, views, copies and refusals are those of the arrays of TensorValues;*)
(* the constructor accepts every layout that a view function makes, except   *)
(* that slice() may refuse to take nothing from behind a backward axis.      *)
THEOREM Refinement == Spec => ImplementsValues
<1> QED
  BY Invariance, GroundedAlways, InitImplements, NextImplements, PTL
     DEF Spec, ImplementsValues
=============================================================================
