------------------------------ MODULE RowMajor ------------------------------
(* Row-major numbering of the elements of a shape, a sequence of dimensions, *)
(* and tensors' layouts over a storage.                                      *)
EXTENDS Integers, Sequences, SequencesExt

\* FoldLeft() of SequencesExt, which ranges over the subsets of the domain
\* and is too slow where every element of every tensor needs it.
Folded(Combine(_, _), base, s) ==
    LET upTo[n \in 0..Len(s)] == IF n = 0 THEN base ELSE Combine(upTo[n - 1], s[n])
    IN  upTo[Len(s)]
Numel(shape) == Folded(LAMBDA a, b : a * b, 1, shape)
Total(s) == Folded(LAMBDA a, b : a + b, 0, s)

\* Element distance between neighbours along each axis.
ContiguousStrides(shape) ==
    <<>> \o [i \in 1..Len(shape) |-> Numel(SubSeq(shape, i + 1, Len(shape)))]

Dot(c, strides) == Total([i \in 1..Len(c) |-> c[i] * strides[i]])

\* The coordinate of the n-th element (from 0), and back.
Unravel(n, shape) ==
    LET strides == ContiguousStrides(shape)
    IN  [i \in 1..Len(shape) |-> (n \div strides[i]) % shape[i]]
Ravel(c, shape) == Dot(c, ContiguousStrides(shape))

\* A shape without its axes of one element.
Squeezed(shape) == Folded(LAMBDA kept, n : IF n = 1 THEN kept ELSE Append(kept, n), <<>>, shape)

Rank(t) == Len(t.shape)

\* The place in its storage of a tensor's n-th element.
Address(t, n) == t.offset + Dot(Unravel(n, t.shape), t.strides)

\* Mutant: axes of one element are compared like the others.
IsContiguous_EveryAxis(t) ==
    \/ Numel(t.shape) = 0
    \/ \A i \in 1..Rank(t) : t.strides[i] = ContiguousStrides(t.shape)[i]

\* is_contiguous(): axes of one element may have any stride.
IsContiguous(t) ==
    \/ Numel(t.shape) = 0
    \/ \A i \in 1..Rank(t) : t.shape[i] = 1 \/ t.strides[i] = ContiguousStrides(t.shape)[i]
=============================================================================
