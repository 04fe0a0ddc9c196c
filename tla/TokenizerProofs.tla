-------------------------- MODULE TokenizerProofs --------------------------
(***************************************************************************)
(* Proofs about Tokenizer, for every input, vocabulary and list of merges  *)
(* that the assumptions of the module admit.                               *)
(*                                                                         *)
(* The first half are lemmas about the operators: FlattenSeq(), the byte   *)
(* encoder and its inverse, utf8_runes(), one merge rule applied to a      *)
(* sequence of symbols, ids and what decode() makes of them, and           *)
(* pretokenize()'s pattern. IInv is the inductive invariant: Encoding says *)
(* that what is done and what is left of the text make up the text, at     *)
(* every point of encode(); Decoding says the same of the ids and what     *)
(* decode() has put out, holds back and has not read; Staged says what a   *)
(* phase has left behind. Ranked, which adds the order of merges, says     *)
(* that the symbols at hand are what the rules up to some rank make of the *)
(* piece, one after the other. Faithful, which the round trip needs, says  *)
(* that what is encoded ends at a character, cuts no special token and     *)
(* shows what is kept of the text so far, and that every symbol has an id. *)
(***************************************************************************)
EXTENDS Tokenizer, Foundations, FiniteSetTheorems, SequenceTheorems, TLAPS

-----------------------------------------------------------------------------
(* Flattening                                                                *)

\* Concatenation is associative on Q.
Associates(Q) == \A s, t, u \in Q : (s \o t) \o u = s \o (t \o u)

\* It is on the sequences of any set.
LEMMA SequencesAssociate ==
    ASSUME NEW S
    PROVE  Associates(Seq(S))
BY ConcatAssociative DEF Associates

\* FlattenSeq() joins the sequences one after the other.
Joins(f, s, S) ==
    /\ f \in [0..Len(s) -> Seq(S)]
    /\ f[0] = <<>>
    /\ \A i \in 1..Len(s) : f[i] = f[i - 1] \o s[i]

\* FlattenSeq() is the last of these steps.
LEMMA FlattenSteps ==
    ASSUME NEW S, NEW s \in Seq(Seq(S))
    PROVE  \E f : Joins(f, s, S) /\ FlattenSeq(s) = f[Len(s)]
<1> USE DEF Joins
<1> DEFINE n == Len(s)
           D == Seq(S)
           step == [i \in 1..n |-> [q \in D |-> q \o s[i]]]
<1>1. n \in Nat /\ <<>> \in D /\ DOMAIN s = 1..n
  BY LenProperties
<1>2. \A i \in 1..n : s[i] \in D
  BY ElementOfSeq
<1>3. step \in [1..n -> [D -> D]]
  <2>1. \A i \in 1..n, q \in D : q \o s[i] \in D
    BY <1>2, ConcatProperties
  <2> QED  BY <2>1
<1>4. PICK f : Iteration(f, n, D, <<>>, step)
  <2> HIDE DEF n, D, step
  <2> QED  BY <1>1, <1>3, Iterates
<1>5. /\ f \in [0..n -> D]
      /\ f[0] = <<>>
      /\ \A i \in 1..n : f[i] = f[i - 1] \o s[i]
  <2>1. \A i \in 1..n : i - 1 \in 0..n
    BY <1>1
  <2> QED  BY <1>4, <2>1 DEF Iteration
<1>6. CASE n = 0
  <2>1. s = <<>>
    BY <1>6, EmptySeq
  <2>2. FlattenSeq(s) = f[n]
    BY <1>5, <1>6, <2>1 DEF FlattenSeq
  <2> QED  BY <1>5, <2>2
<1>7. CASE n # 0
  <2> DEFINE Flattens(g) == g = [i \in 1..n |-> IF i = 1 THEN s[i] ELSE g[i - 1] \o s[i]]
             g0 == [i \in 1..n |-> f[i]]
             g1 == CHOOSE g : Flattens(g)
  <2>1. Flattens(g0)
    <3>1. \A i \in 1..n : f[i] = IF i = 1 THEN s[i] ELSE g0[i - 1] \o s[i]
      <4> SUFFICES ASSUME NEW i \in 1..n
                   PROVE  f[i] = IF i = 1 THEN s[i] ELSE g0[i - 1] \o s[i]
        OBVIOUS
      <4>1. CASE i = 1
        <5>1. i - 1 = 0
          BY <4>1
        <5>2. f[i] = <<>> \o s[i]
          BY <1>5, <5>1
        <5>3. <<>> \o s[i] = s[i]
          BY <1>2, ConcatEmptySeq
        <5> QED  BY <4>1, <5>2, <5>3
      <4>2. CASE i # 1
        <5>1. i - 1 \in 1..n
          BY <1>1, <4>2
        <5> QED  BY <1>5, <4>2, <5>1
      <4> QED  BY <4>1, <4>2
    <3> QED  BY <3>1
  <2>2. Flattens(g1)
    <3> HIDE DEF Flattens, g0
    <3> QED  BY <2>1
  <2>3. \A i \in 1..n : g1[i] = IF i = 1 THEN s[i] ELSE g1[i - 1] \o s[i]
    <3> HIDE DEF g1
    <3> QED  BY <2>2
  <2> DEFINE T == {i \in 1..n : g1[i] # f[i]}
  <2>4. T = {}
    <3> HIDE DEF Flattens, g1
    <3> SUFFICES ASSUME T # {}
                 PROVE  FALSE
      OBVIOUS
    <3>1. PICK i \in T : \A j \in T : i <= j
      <4>1. T \subseteq Nat
        OBVIOUS
      <4> HIDE DEF T
      <4> QED  BY <4>1, LeastNatural
    <3>2. i \in 1..n
      BY <3>1
    <3>3. i # 1
      <4> SUFFICES ASSUME i = 1
                   PROVE  FALSE
        OBVIOUS
      <4>1. i - 1 = 0
        OBVIOUS
      <4>2. f[i] = <<>> \o s[i]
        BY <1>5, <3>2, <4>1
      <4>3. f[i] = s[i]
        BY <1>2, <3>2, <4>2, ConcatEmptySeq
      <4> QED  BY <2>3, <3>1, <3>2, <4>3
    <3>4. i - 1 \in 1..n /\ ~(i <= i - 1)
      BY <1>1, <3>2, <3>3
    <3>5. g1[i - 1] = f[i - 1]
      BY <3>1, <3>4
    <3>6. g1[i] = g1[i - 1] \o s[i]
      BY <2>3, <3>2, <3>3
    <3>7. f[i] = f[i - 1] \o s[i]
      BY <1>5, <3>2
    <3>8. g1[i] # f[i]
      BY <3>1
    <3> QED  BY <3>5, <3>6, <3>7, <3>8
  <2>5. n \in 1..n
    BY <1>1, <1>7
  <2>6. g1[n] = f[n]
    <3> HIDE DEF g1
    <3> QED  BY <2>4, <2>5
  <2>7. FlattenSeq(s) = g1[n]
    BY <1>7 DEF FlattenSeq
  <2>8. FlattenSeq(s) = f[n]
    BY <2>6, <2>7
  <2> HIDE DEF g1
  <2> QED  BY <1>5, <2>8
<1> QED  BY <1>6, <1>7

\* FlattenSeq() of sequences over S is one.
LEMMA FlattenType ==
    ASSUME NEW S, NEW s \in Seq(Seq(S))
    PROVE  FlattenSeq(s) \in Seq(S)
<1>1. PICK f : Joins(f, s, S) /\ FlattenSeq(s) = f[Len(s)]
  BY FlattenSteps
<1>2. Len(s) \in 0..Len(s)
  BY LenProperties
<1> QED  BY <1>1, <1>2 DEF Joins

\* Nothing flattens to nothing.
LEMMA FlattenEmpty == FlattenSeq(<<>>) = <<>>
BY DEF FlattenSeq

\* One more sequence is joined at the end.
LEMMA FlattenAppend ==
    ASSUME NEW S, NEW s \in Seq(Seq(S)), NEW e \in Seq(S)
    PROVE  FlattenSeq(Append(s, e)) = FlattenSeq(s) \o e
<1> DEFINE t == Append(s, e)
           n == Len(s)
<1>1. /\ n \in Nat /\ t \in Seq(Seq(S)) /\ Len(t) = n + 1
      /\ \A i \in 1..n : t[i] = s[i]
      /\ t[n + 1] = e
  BY LenProperties, AppendProperties
<1> HIDE DEF t
<1>2. PICK f : Joins(f, s, S) /\ FlattenSeq(s) = f[n]
  BY FlattenSteps
<1>3. PICK g : Joins(g, t, S) /\ FlattenSeq(t) = g[Len(t)]
  BY <1>1, FlattenSteps
<1>4. \A i \in 1..n : f[i - 1] = g[i - 1] => f[i] = g[i]
  <2>1. \A i \in 1..n : i \in 1..Len(t)
    BY <1>1
  <2> QED  BY <1>1, <1>2, <1>3, <2>1 DEF Joins
<1>5. f[n] = g[n]
  <2>1. f[0] = g[0]
    BY <1>2, <1>3 DEF Joins
  <2>2. n \in Nat
    BY <1>1
  <2>3. \A i \in 0..n : f[i] = g[i]
    BY <1>4, <2>1, <2>2, StepsAgree, ZenonT(60)
  <2> QED  BY <2>2, <2>3
<1>6. g[n + 1] = g[n] \o e
  <2>1. n + 1 \in 1..Len(t) /\ (n + 1) - 1 = n
    BY <1>1
  <2> QED  BY <1>1, <1>3, <2>1 DEF Joins
<1> QED  BY <1>1, <1>2, <1>3, <1>5, <1>6 DEF t

\* Flattening distributes over concatenation.
LEMMA FlattenConcat ==
    ASSUME NEW S, NEW s \in Seq(Seq(S)), NEW t \in Seq(Seq(S))
    PROVE  FlattenSeq(s \o t) = FlattenSeq(s) \o FlattenSeq(t)
<1> DEFINE P == {u \in Seq(Seq(S)) : FlattenSeq(s \o u) = FlattenSeq(s) \o FlattenSeq(u)}
<1>1. <<>> \in P
  <2>1. s \o <<>> = s /\ <<>> \in Seq(Seq(S))
    BY ConcatEmptySeq
  <2>2. FlattenSeq(s) \o <<>> = FlattenSeq(s)
    BY FlattenType, ConcatEmptySeq
  <2> QED  BY <2>1, <2>2, FlattenEmpty
<1>2. ASSUME NEW u \in Seq(Seq(S)), NEW e \in Seq(S), u \in P
      PROVE  Append(u, e) \in P
  <2>1. s \o u \in Seq(Seq(S)) /\ Append(u, e) \in Seq(Seq(S))
    BY ConcatProperties, AppendProperties
  <2>2. s \o Append(u, e) = Append(s \o u, e)
    <3>1. Append(u, e) = u \o <<e>> /\ Append(s \o u, e) = (s \o u) \o <<e>>
      BY <2>1, AppendIsConcat
    <3>2. <<e>> \in Seq(Seq(S))
      OBVIOUS
    <3>3. (s \o u) \o <<e>> = s \o (u \o <<e>>)
      <4>1. Associates(Seq(Seq(S)))
        BY SequencesAssociate
      <4> QED  BY <3>2, <4>1 DEF Associates
    <3> QED  BY <3>1, <3>3, Zenon
  <2>3. FlattenSeq(Append(s \o u, e)) = FlattenSeq(s \o u) \o e
    BY <2>1, FlattenAppend
  <2>4. FlattenSeq(Append(u, e)) = FlattenSeq(u) \o e
    BY FlattenAppend
  <2>5. FlattenSeq(s \o u) = FlattenSeq(s) \o FlattenSeq(u)
    BY <1>2
  <2>6. (FlattenSeq(s) \o FlattenSeq(u)) \o e = FlattenSeq(s) \o (FlattenSeq(u) \o e)
    <3>1. FlattenSeq(s) \in Seq(S) /\ FlattenSeq(u) \in Seq(S)
      BY FlattenType
    <3>2. Associates(Seq(S))
      BY SequencesAssociate
    <3> QED  BY <3>1, <3>2 DEF Associates
  <2> QED  BY <2>1, <2>2, <2>3, <2>4, <2>5, <2>6
<1>3. Seq(Seq(S)) \subseteq P
  <2> HIDE DEF P
  <2> QED  BY <1>1, <1>2, SequenceInduction
<1> QED  BY <1>3

\* Sequences of one element each.
LEMMA FlattenSingletons ==
    ASSUME NEW S, NEW q \in Seq(S)
    PROVE  /\ [i \in DOMAIN q |-> <<q[i]>>] \in Seq(Seq(S))
           /\ FlattenSeq([i \in DOMAIN q |-> <<q[i]>>]) = q
<1> DEFINE Alone(r) == [i \in DOMAIN r |-> <<r[i]>>]
           P == {r \in Seq(S) : FlattenSeq(Alone(r)) = r}
<1>1. ASSUME NEW r \in Seq(S)
      PROVE  Alone(r) \in Seq(Seq(S)) /\ Len(Alone(r)) = Len(r)
  <2>1. Len(r) \in Nat /\ DOMAIN r = 1..Len(r)
    BY LenProperties
  <2>2. \A i \in 1..Len(r) : <<r[i]>> \in Seq(S)
    OBVIOUS
  <2> QED  BY <2>1, <2>2
<1>2. <<>> \in P
  <2>1. Alone(<<>>) = <<>>
    OBVIOUS
  <2> QED  BY <2>1, FlattenEmpty
<1>3. ASSUME NEW r \in Seq(S), NEW e \in S, r \in P
      PROVE  Append(r, e) \in P
  <2>1. Append(r, e) \in Seq(S) /\ <<e>> \in Seq(S)
    OBVIOUS
  <2>2. Alone(Append(r, e)) = Append(Alone(r), <<e>>)
    <3>1. Append(Alone(r), <<e>>) \in Seq(Seq(S)) /\ Alone(Append(r, e)) \in Seq(Seq(S))
      BY <1>1, <2>1, AppendProperties
    <3>2. Len(Alone(Append(r, e))) = Len(r) + 1 /\ Len(Append(Alone(r), <<e>>)) = Len(r) + 1
      BY <1>1, <2>1, AppendProperties
    <3>3. ASSUME NEW i \in 1..Len(r) + 1
          PROVE  Alone(Append(r, e))[i] = Append(Alone(r), <<e>>)[i]
      <4>1. Alone(Append(r, e))[i] = <<Append(r, e)[i]>>
        OBVIOUS
      <4>2. CASE i = Len(r) + 1
        <5>1. Append(r, e)[i] = e
          BY <4>2
        <5>2. Append(Alone(r), <<e>>)[i] = <<e>>
          <6> HIDE DEF Alone
          <6> QED  BY <1>1, <2>1, <4>2
        <5> QED  BY <4>1, <5>1, <5>2
      <4>3. CASE i # Len(r) + 1
        <5>1. i \in 1..Len(r) /\ Append(r, e)[i] = r[i]
          BY <4>3
        <5>2. Append(Alone(r), <<e>>)[i] = Alone(r)[i]
          <6> HIDE DEF Alone
          <6> QED  BY <1>1, <2>1, <5>1
        <5> QED  BY <4>1, <5>1, <5>2
      <4> QED  BY <4>2, <4>3
    <3> HIDE DEF Alone
    <3> DEFINE D == Seq(S)
    <3> HIDE DEF D
    <3>4. Append(Alone(r), <<e>>) \in Seq(D) /\ Alone(Append(r, e)) \in Seq(D)
      BY <3>1 DEF D
    <3> QED  BY <3>2, <3>3, <3>4, SeqEqual
  <2>3. FlattenSeq(Append(Alone(r), <<e>>)) = FlattenSeq(Alone(r)) \o <<e>>
    BY <1>1, <2>1, FlattenAppend
  <2>4. r \o <<e>> = Append(r, e)
    BY AppendIsConcat
  <2>5. FlattenSeq(Alone(r)) = r
    BY <1>3
  <2> QED  BY <2>1, <2>2, <2>3, <2>4, <2>5
<1>4. Seq(S) \subseteq P
  <2> HIDE DEF P
  <2> QED  BY <1>2, <1>3, SequenceInduction
<1> QED  BY <1>1, <1>4

-----------------------------------------------------------------------------
(* Bytes and the symbols that stand for them                                 *)

\* The characters of the byte encoder, and the bytes they stand for.
Symbol == {ByteSymbol(b) : b \in Byte}
Text(q) == [i \in DOMAIN q |-> SymbolByte(q[i])]

\* The bytes that are numbered before b.
Below(b) == {x \in Unprintable : x < b}

\* So that they can be counted.
LEMMA BelowIsFinite ==
    ASSUME NEW b
    PROVE  IsFiniteSet(Below(b)) /\ Cardinality(Below(b)) \in Nat
<1>1. IsFiniteSet(Byte)
  <2>1. 0 \in Int /\ 255 \in Int
    OBVIOUS
  <2>2. IsFiniteSet(0..255)
    BY <2>1, FS_Interval, Zenon
  <2> QED  BY <2>2 DEF Byte
<1>2. Below(b) \in SUBSET Byte
  BY DEF Unprintable, Below
<1> QED  BY <1>1, <1>2, FS_Subset, FS_CardinalityType

\* A character is a number, and an unprintable byte has the next free one.
LEMMA SymbolsAreNaturals ==
    ASSUME NEW b \in Byte
    PROVE  /\ ByteSymbol(b) \in Nat
           /\ b \in Unprintable => ByteSymbol(b) = 256 + Cardinality(Below(b))
<1>1. Cardinality(Below(b)) \in Nat
  BY BelowIsFinite
<1> QED  BY <1>1 DEF ByteSymbol, Byte, Unprintable, Below

\* The byte of a symbol is the byte the symbol was made for.
LEMMA SymbolIsRead ==
    ASSUME NEW b \in Byte
    PROVE  SymbolByte(ByteSymbol(b)) = b
<1>1. CASE b \in Printable
  BY <1>1 DEF SymbolByte, ByteSymbol
<1>2. CASE b \in Unprintable
  <2>1. \A x \in Unprintable : x \in Int /\ x \in Byte /\ x \notin Printable
    BY DEF Unprintable, Byte
  <2>2. ASSUME NEW x \in Unprintable, NEW y \in Unprintable, x < y
        PROVE  ByteSymbol(x) < ByteSymbol(y)
    <3>1. IsFiniteSet(Below(y)) /\ Cardinality(Below(y)) \in Nat /\ Cardinality(Below(x)) \in Nat
      BY BelowIsFinite
    <3>2. Below(x) \in SUBSET Below(y) /\ x \in Below(y) /\ x \notin Below(x)
      BY <2>1, <2>2 DEF Below
    <3>3. /\ Cardinality(Below(x)) <= Cardinality(Below(y))
          /\ Cardinality(Below(x)) # Cardinality(Below(y))
      BY <3>1, <3>2, FS_Subset
    <3>4. ByteSymbol(x) = 256 + Cardinality(Below(x)) /\ ByteSymbol(y) = 256 + Cardinality(Below(y))
      BY <2>1, SymbolsAreNaturals
    <3> QED  BY <3>1, <3>3, <3>4
  <2>3. \A x \in Unprintable : ByteSymbol(x) \in Nat
    BY <2>1, SymbolsAreNaturals
  <2>4. \A x \in Unprintable : ByteSymbol(x) = ByteSymbol(b) => x = b
    <3> SUFFICES ASSUME NEW x \in Unprintable, ByteSymbol(x) = ByteSymbol(b), x # b
                 PROVE  FALSE
      OBVIOUS
    <3>1. x < b \/ b < x
      BY <1>2, <2>1
    <3>2. ~(ByteSymbol(x) < ByteSymbol(b)) /\ ~(ByteSymbol(b) < ByteSymbol(x))
      BY <1>2, <2>3
    <3> QED  BY <1>2, <2>2, <3>1, <3>2
  <2>5. ByteSymbol(b) \notin Printable
    <3>1. Cardinality(Below(b)) \in Nat /\ ByteSymbol(b) = 256 + Cardinality(Below(b))
      BY <1>2, BelowIsFinite, SymbolsAreNaturals
    <3> QED  BY <3>1 DEF Printable
  <2>6. SymbolByte(ByteSymbol(b)) = CHOOSE x \in Unprintable : ByteSymbol(x) = ByteSymbol(b)
    BY <2>5 DEF SymbolByte
  <2> QED  BY <1>2, <2>4, <2>6
<1> QED  BY <1>1, <1>2 DEF Unprintable

\* Every character stands for a byte.
LEMMA SymbolType ==
    ASSUME NEW c \in Symbol
    PROVE  SymbolByte(c) \in Byte
<1>1. PICK b \in Byte : c = ByteSymbol(b)
  BY DEF Symbol
<1> QED  BY <1>1, SymbolIsRead

\* Characters stand for as many bytes.
LEMMA TextType ==
    ASSUME NEW q \in Seq(Symbol)
    PROVE  /\ Text(q) \in Seq(Byte)
           /\ Len(Text(q)) = Len(q)
           /\ \A i \in 1..Len(q) : Text(q)[i] = SymbolByte(q[i])
<1>1. Len(q) \in Nat /\ DOMAIN q = 1..Len(q)
  BY LenProperties
<1>2. \A i \in 1..Len(q) : SymbolByte(q[i]) \in Byte
  BY SymbolType
<1> QED  BY <1>1, <1>2 DEF Text

\* And one by one.
LEMMA TextConcat ==
    ASSUME NEW q \in Seq(Symbol), NEW r \in Seq(Symbol)
    PROVE  Text(q \o r) = Text(q) \o Text(r)
<1>1. q \o r \in Seq(Symbol)
  BY ConcatProperties
<1>2. /\ Text(q) \in Seq(Byte) /\ Text(r) \in Seq(Byte) /\ Text(q \o r) \in Seq(Byte)
      /\ Len(Text(q)) = Len(q) /\ Len(Text(r)) = Len(r) /\ Len(Text(q \o r)) = Len(q) + Len(r)
  BY <1>1, TextType, ConcatProperties
<1>3. Text(q) \o Text(r) \in Seq(Byte) /\ Len(Text(q) \o Text(r)) = Len(q) + Len(r)
  BY <1>2, ConcatProperties
<1>4. ASSUME NEW i \in 1..Len(q) + Len(r)
      PROVE  Text(q \o r)[i] = (Text(q) \o Text(r))[i]
  <2>1. Len(q) \in Nat /\ Len(r) \in Nat /\ Len(q \o r) = Len(q) + Len(r)
    BY LenProperties, ConcatProperties
  <2>2. Text(q \o r)[i] = SymbolByte((q \o r)[i])
    BY <1>1, <2>1, TextType
  <2>3. CASE i <= Len(q)
    <3>1. i \in 1..Len(q) /\ (q \o r)[i] = q[i]
      BY <2>1, <2>3, ConcatProperties
    <3>2. (Text(q) \o Text(r))[i] = Text(q)[i]
      BY <1>2, <2>1, <2>3, ConcatProperties
    <3> QED  BY <2>2, <3>1, <3>2, TextType
  <2>4. CASE ~(i <= Len(q))
    <3>1. i - Len(q) \in 1..Len(r) /\ (q \o r)[i] = r[i - Len(q)]
      BY <2>1, <2>4, ConcatProperties
    <3>2. (Text(q) \o Text(r))[i] = Text(r)[i - Len(q)]
      BY <1>2, <2>1, <2>4, ConcatProperties
    <3> QED  BY <2>2, <3>1, <3>2, TextType
  <2> QED  BY <2>3, <2>4
<1> QED  BY <1>2, <1>3, <1>4, SeqEqual

\* The bytes of joined symbols are the joined bytes of the symbols.
LEMMA TextFlatten ==
    ASSUME NEW s \in Seq(Seq(Symbol))
    PROVE  /\ [i \in DOMAIN s |-> Text(s[i])] \in Seq(Seq(Byte))
           /\ FlattenSeq([i \in DOMAIN s |-> Text(s[i])]) = Text(FlattenSeq(s))
<1> DEFINE Each(r) == [i \in DOMAIN r |-> Text(r[i])]
           D == Seq(Symbol)
           E == Seq(Byte)
           P == {r \in Seq(D) : FlattenSeq(Each(r)) = Text(FlattenSeq(r))}
<1>1. ASSUME NEW r \in Seq(D)
      PROVE  Each(r) \in Seq(E) /\ Len(Each(r)) = Len(r)
  <2>1. Len(r) \in Nat /\ DOMAIN r = 1..Len(r)
    BY LenProperties
  <2>2. \A i \in 1..Len(r) : Text(r[i]) \in E
    BY TextType
  <2> HIDE DEF E
  <2> QED  BY <2>1, <2>2
<1>2. <<>> \in P
  <2>1. Each(<<>>) = <<>> /\ Text(<<>>) = <<>>
    BY DEF Text
  <2> QED  BY <2>1, FlattenEmpty
<1>3. ASSUME NEW r \in Seq(D), NEW e \in D, r \in P
      PROVE  Append(r, e) \in P
  <2>1. Append(r, e) \in Seq(D) /\ Text(e) \in E
    BY TextType
  <2>2. Each(Append(r, e)) = Append(Each(r), Text(e))
    <3> HIDE DEF D, E
    <3>1. Append(Each(r), Text(e)) \in Seq(E) /\ Each(Append(r, e)) \in Seq(E)
      BY <1>1, <2>1, AppendProperties
    <3>2. Len(Each(Append(r, e))) = Len(r) + 1 /\ Len(Append(Each(r), Text(e))) = Len(r) + 1
      BY <1>1, <2>1, AppendProperties
    <3>3. ASSUME NEW i \in 1..Len(r) + 1
          PROVE  Each(Append(r, e))[i] = Append(Each(r), Text(e))[i]
      <4>1. Each(Append(r, e))[i] = Text(Append(r, e)[i])
        OBVIOUS
      <4>2. CASE i = Len(r) + 1
        <5>1. Append(r, e)[i] = e
          BY <4>2
        <5>2. Append(Each(r), Text(e))[i] = Text(e)
          <6> HIDE DEF Each
          <6>1. Each(r) \in Seq(E) /\ Len(Each(r)) = Len(r)
            BY <1>1
          <6>2. Append(Each(r), Text(e))[Len(Each(r)) + 1] = Text(e)
            BY <2>1, <6>1, AppendProperties
          <6> QED  BY <4>2, <6>1, <6>2
        <5> QED  BY <4>1, <5>1, <5>2
      <4>3. CASE i # Len(r) + 1
        <5>1. i \in 1..Len(r) /\ Append(r, e)[i] = r[i]
          BY <4>3
        <5>2. Append(Each(r), Text(e))[i] = Each(r)[i]
          <6> HIDE DEF Each
          <6> QED  BY <1>1, <2>1, <5>1
        <5>3. Each(r)[i] = Text(r[i])
          BY <5>1
        <5> QED  BY <4>1, <5>1, <5>2, <5>3
      <4> QED  BY <4>2, <4>3
    <3> HIDE DEF Each
    <3> QED  BY <3>1, <3>2, <3>3, SeqEqual
  <2>3. FlattenSeq(Append(Each(r), Text(e))) = FlattenSeq(Each(r)) \o Text(e)
    BY <1>1, <2>1, FlattenAppend
  <2>4. FlattenSeq(Append(r, e)) = FlattenSeq(r) \o e
    BY FlattenAppend
  <2>5. Text(FlattenSeq(r) \o e) = Text(FlattenSeq(r)) \o Text(e)
    BY FlattenType, TextConcat
  <2>6. FlattenSeq(Each(r)) = Text(FlattenSeq(r))
    BY <1>3
  <2> QED  BY <2>1, <2>2, <2>3, <2>4, <2>5, <2>6
<1>4. Seq(D) \subseteq P
  <2> HIDE DEF P, D
  <2> QED  BY <1>2, <1>3, SequenceInduction
<1> QED  BY <1>1, <1>4

\* The symbols a piece starts with spell the piece.
LEMMA SymbolsOfBytes ==
    ASSUME NEW b \in Seq(Byte)
    PROVE  /\ [i \in DOMAIN b |-> <<ByteSymbol(b[i])>>] \in Seq(Seq(Symbol))
           /\ Text(FlattenSeq([i \in DOMAIN b |-> <<ByteSymbol(b[i])>>])) = b
<1> DEFINE q == [i \in DOMAIN b |-> ByteSymbol(b[i])]
<1>1. Len(b) \in Nat /\ DOMAIN b = 1..Len(b) /\ \A i \in 1..Len(b) : b[i] \in Byte
  BY LenProperties, ElementOfSeq
<1>2. q \in Seq(Symbol) /\ Len(q) = Len(b) /\ DOMAIN q = DOMAIN b
  <2>1. \A i \in 1..Len(b) : ByteSymbol(b[i]) \in Symbol
    BY <1>1 DEF Symbol
  <2> QED  BY <1>1, <2>1
<1>3. [i \in DOMAIN b |-> <<ByteSymbol(b[i])>>] = [i \in DOMAIN q |-> <<q[i]>>]
  BY <1>2
<1>4. Text(q) = b
  <2>1. \A i \in 1..Len(b) : q[i] = ByteSymbol(b[i])
    BY <1>1
  <2> HIDE DEF q
  <2>2. \A i \in 1..Len(b) : Text(q)[i] = b[i]
    BY <1>1, <1>2, <2>1, TextType, SymbolIsRead
  <2>3. Text(q) \in Seq(Byte) /\ Len(Text(q)) = Len(b)
    BY <1>2, TextType
  <2> QED  BY <2>2, <2>3, SeqEqual
<1> HIDE DEF q
<1>5. /\ [i \in DOMAIN q |-> <<q[i]>>] \in Seq(Seq(Symbol))
      /\ FlattenSeq([i \in DOMAIN q |-> <<q[i]>>]) = q
  BY <1>2, FlattenSingletons
<1> QED  BY <1>3, <1>4, <1>5

-----------------------------------------------------------------------------
(* The bytes of runes                                                        *)

\* A code point with its bytes, as utf8_runes() gives it.
Rune == [value : Nat, bytes : Seq(Byte)]
Encodings(r) == [i \in DOMAIN r |-> r[i].bytes]

\* The encodings of runes are sequences of bytes.
LEMMA EncodingsType ==
    ASSUME NEW r \in Seq(Rune)
    PROVE  /\ Encodings(r) \in Seq(Seq(Byte))
           /\ Len(Encodings(r)) = Len(r)
           /\ \A i \in 1..Len(r) : Encodings(r)[i] = r[i].bytes
<1> DEFINE E == Seq(Byte)
<1>1. Len(r) \in Nat /\ DOMAIN r = 1..Len(r)
  BY LenProperties
<1>2. \A i \in 1..Len(r) : r[i].bytes \in E
  <2>1. \A i \in 1..Len(r) : r[i] \in Rune
    BY ElementOfSeq
  <2>2. \A x \in Rune : x.bytes \in E
    BY DEF Rune
  <2> QED  BY <2>1, <2>2, Zenon
<1> HIDE DEF E
<1>3. Encodings(r) \in Seq(E) /\ Len(Encodings(r)) = Len(r)
  BY <1>1, <1>2 DEF Encodings
<1> QED  BY <1>1, <1>3 DEF E, Encodings

\* So are the bytes of runes.
LEMMA BytesType ==
    ASSUME NEW r \in Seq(Rune)
    PROVE  Bytes(r) \in Seq(Byte)
BY EncodingsType, FlattenType DEF Bytes, Encodings

\* The bytes of two parts are the bytes of the whole.
LEMMA BytesConcat ==
    ASSUME NEW r \in Seq(Rune), NEW s \in Seq(Rune)
    PROVE  Bytes(r \o s) = Bytes(r) \o Bytes(s)
<1> DEFINE E == Seq(Byte)
<1>1. /\ r \o s \in Seq(Rune) /\ Len(r \o s) = Len(r) + Len(s)
      /\ Len(r) \in Nat /\ Len(s) \in Nat
  BY ConcatProperties, LenProperties
<1>2. /\ Encodings(r) \in Seq(E) /\ Encodings(s) \in Seq(E) /\ Encodings(r \o s) \in Seq(E)
      /\ Len(Encodings(r)) = Len(r) /\ Len(Encodings(s)) = Len(s)
      /\ Len(Encodings(r \o s)) = Len(r) + Len(s)
  BY <1>1, EncodingsType
<1>3. Encodings(r \o s) = Encodings(r) \o Encodings(s)
  <2> HIDE DEF E
  <2>1. /\ Encodings(r) \o Encodings(s) \in Seq(E)
        /\ Len(Encodings(r) \o Encodings(s)) = Len(r) + Len(s)
    BY <1>2, ConcatProperties
  <2>2. ASSUME NEW i \in 1..Len(r) + Len(s)
        PROVE  Encodings(r \o s)[i] = (Encodings(r) \o Encodings(s))[i]
    <3>1. Encodings(r \o s)[i] = (r \o s)[i].bytes
      BY <1>1, EncodingsType
    <3>2. CASE i <= Len(r)
      <4>1. i \in 1..Len(r) /\ (r \o s)[i] = r[i]
        BY <1>1, <3>2, ConcatProperties
      <4>2. (Encodings(r) \o Encodings(s))[i] = Encodings(r)[i]
        BY <1>1, <1>2, <3>2, ConcatProperties
      <4> QED  BY <3>1, <4>1, <4>2, EncodingsType
    <3>3. CASE ~(i <= Len(r))
      <4>1. i - Len(r) \in 1..Len(s) /\ (r \o s)[i] = s[i - Len(r)]
        BY <1>1, <3>3, ConcatProperties
      <4>2. (Encodings(r) \o Encodings(s))[i] = Encodings(s)[i - Len(r)]
        BY <1>1, <1>2, <3>3, ConcatProperties
      <4> QED  BY <3>1, <4>1, <4>2, EncodingsType
    <3> QED  BY <3>2, <3>3
  <2> QED  BY <1>2, <2>1, <2>2, SeqEqual
<1> QED  BY <1>2, <1>3, FlattenConcat DEF Bytes, Encodings

\* The bytes of a single rune.
LEMMA BytesOfOne ==
    ASSUME NEW x \in Rune
    PROVE  <<x>> \in Seq(Rune) /\ Bytes(<<x>>) = x.bytes
<1>1. x.bytes \in Seq(Byte) /\ <<x>> \in Seq(Rune) /\ <<>> \in Seq(Seq(Byte))
  BY DEF Rune
<1>2. [i \in DOMAIN <<x>> |-> <<x>>[i].bytes] = Append(<<>>, x.bytes)
  OBVIOUS
<1>3. FlattenSeq(Append(<<>>, x.bytes)) = <<>> \o x.bytes
  BY <1>1, FlattenAppend, FlattenEmpty
<1>4. <<>> \o x.bytes = x.bytes
  BY <1>1, ConcatEmptySeq
<1> QED  BY <1>1, <1>2, <1>3, <1>4 DEF Bytes

\* No runes, no bytes.
LEMMA BytesOfNone == Bytes(<<>>) = <<>>
<1>1. [i \in DOMAIN <<>> |-> <<>>[i].bytes] = <<>>
  OBVIOUS
<1> QED  BY <1>1, FlattenEmpty DEF Bytes

-----------------------------------------------------------------------------
(* utf8_runes()                                                              *)

\* The last element of a sequence, replaced.
LastIsReplaced(s, e, S) ==
    /\ Len(s) \in 1..Len(s)
    /\ Front(s) \in Seq(S)
    /\ s = Front(s) \o <<s[Len(s)]>>
    /\ [s EXCEPT ![Len(s)] = e] = Front(s) \o <<e>>
    /\ Front(s) \o <<e>> \in Seq(S)
    /\ Len(Front(s) \o <<e>>) = Len(s)

\* The last element of a sequence can be taken off and put back.
LEMMA LastReplaced ==
    ASSUME NEW S, NEW s \in Seq(S), s # <<>>, NEW e \in S
    PROVE  LastIsReplaced(s, e, S)
<1> DEFINE n == Len(s)
           f == Front(s)
<1>1. n \in Nat /\ n > 0
  BY LenProperties, EmptySeq
<1>2. f \in Seq(S) /\ Len(f) = n - 1 /\ \A i \in 1..n - 1 : f[i] = s[i]
  <2>1. \A i \in 1..n - 1 : s[i] \in S
    BY <1>1, ElementOfSeq
  <2> HIDE DEF n
  <2>2. 1 \in Int /\ n - 1 \in Int /\ (n - 1) - 1 + 1 = n - 1
    BY <1>1
  <2>3. /\ SubSeq(s, 1, n - 1) \in Seq(S)
        /\ Len(SubSeq(s, 1, n - 1)) = IF 1 <= n - 1 THEN (n - 1) - 1 + 1 ELSE 0
        /\ \A i \in 1..(n - 1) - 1 + 1 : SubSeq(s, 1, n - 1)[i] = s[1 + i - 1]
    BY <2>1, <2>2, SubSeqProperties
  <2>4. f = SubSeq(s, 1, n - 1)
    BY DEF n, Front
  <2>5. \A i \in 1..n - 1 : 1 + i - 1 = i
    BY <1>1
  <2> HIDE DEF f
  <2> QED  BY <1>1, <2>2, <2>3, <2>4, <2>5
<1> HIDE DEF f
<1>3. ASSUME NEW x \in S
      PROVE  /\ f \o <<x>> \in Seq(S) /\ Len(f \o <<x>>) = n
             /\ (f \o <<x>>)[n] = x /\ \A i \in 1..n - 1 : (f \o <<x>>)[i] = s[i]
  <2>1. <<x>> \in Seq(S) /\ Len(<<x>>) = 1
    OBVIOUS
  <2> QED  BY <1>1, <1>2, <2>1, ConcatProperties
<1>4. s[n] \in S
  BY <1>1
<1>5. s = f \o <<s[n]>>
  <2> DEFINE t == f \o <<s[n]>>
  <2>1. t \in Seq(S) /\ Len(t) = n /\ t[n] = s[n] /\ \A i \in 1..n - 1 : t[i] = s[i]
    BY <1>3, <1>4
  <2> HIDE DEF t
  <2>2. \A i \in 1..n : s[i] = t[i]
    BY <1>1, <2>1
  <2>3. s = t
    BY <2>1, <2>2, SeqEqual
  <2> QED  BY <2>3 DEF t
<1>6. [s EXCEPT ![n] = e] = f \o <<e>>
  <2> DEFINE t == [s EXCEPT ![n] = e]
  <2>1. /\ t \in Seq(S) /\ Len(t) = n
        /\ \A j \in 1..n : t[j] = IF j = n THEN e ELSE s[j]
    BY <1>1, ExceptSeq
  <2> HIDE DEF t
  <2> DEFINE u == f \o <<e>>
  <2>2. u \in Seq(S) /\ Len(u) = n /\ u[n] = e /\ \A i \in 1..n - 1 : u[i] = s[i]
    BY <1>3
  <2> HIDE DEF u
  <2>3. \A i \in 1..n : t[i] = u[i]
    BY <1>1, <2>1, <2>2
  <2>4. t = u
    BY <2>1, <2>2, <2>3, SeqEqual
  <2> QED  BY <2>4 DEF t, u
<1>7. f \o <<e>> \in Seq(S) /\ Len(f \o <<e>>) = n
  BY <1>3
<1> QED  BY <1>1, <1>2, <1>5, <1>6, <1>7 DEF f, LastIsReplaced

\* What ReadByte() works on: a rune that needs more bytes is there.
Reading ==
    {state \in [runes : Seq(Rune), need : 0..3, bad : BOOLEAN] :
        state.need > 0 => state.runes # <<>>}
\* Before the first byte.
Initially == [runes |-> <<>>, need |-> 0, bad |-> FALSE]

\* A state with runes may wait for more bytes.
LEMMA ReadingState ==
    ASSUME NEW r \in Seq(Rune), r # <<>>, NEW need \in 0..3, NEW bad \in BOOLEAN
    PROVE  [runes |-> r, need |-> need, bad |-> bad] \in Reading
BY DEF Reading

\* Reading a byte adds it to the bytes of the runes.
LEMMA ByteIsRead ==
    ASSUME NEW state \in Reading, NEW b \in Byte
    PROVE  /\ ReadByte(state, b) \in Reading
           /\ Bytes(ReadByte(state, b).runes) = Append(Bytes(state.runes), b)
<1> DEFINE r == state.runes
           n == Len(r)
<1>1. /\ r \in Seq(Rune) /\ n \in Nat /\ state.need \in 0..3 /\ state.bad \in BOOLEAN
      /\ b \in 0..255 /\ <<b>> \in Seq(Byte)
  BY LenProperties DEF Reading, Byte
<1>2. Append(Bytes(r), b) = Bytes(r) \o <<b>>
  BY <1>1, BytesType, AppendIsConcat
<1>3. CASE state.need > 0
  <2> DEFINE last == r[n]
             new == [value |-> (last.value * 64) + (b % 64), bytes |-> Append(last.bytes, b)]
             grown == [r EXCEPT ![n] = new]
  <2>1. n \in 1..n /\ r # <<>>
    BY <1>1, <1>3, EmptySeq DEF Reading
  <2>2. last \in Rune
    BY <1>1, <2>1, ElementOfSeq
  <2>3. new \in Rune
    <3>1. last.value \in Nat /\ last.bytes \in Seq(Byte)
      BY <2>2 DEF Rune
    <3>2. (last.value * 64) + (b % 64) \in Nat
      <4> DEFINE x == last.value
      <4>1. x \in Nat
        BY <3>1
      <4> HIDE DEF x
      <4>2. x * 64 \in Nat
        BY <4>1
      <4>3. b % 64 \in Nat
        BY <1>1
      <4> QED  BY <4>2, <4>3 DEF x
    <3>3. Append(last.bytes, b) \in Seq(Byte)
      BY <3>1, AppendProperties
    <3> QED  BY <3>2, <3>3 DEF Rune
  <2>4. /\ grown \in Seq(Rune) /\ Len(grown) = n
        /\ Front(r) \in Seq(Rune)
        /\ r = Front(r) \o <<last>> /\ grown = Front(r) \o <<new>>
    <3> HIDE DEF new, r
    <3>1. LastIsReplaced(r, new, Rune)
      BY <1>1, <2>1, <2>3, LastReplaced
    <3> QED  BY <3>1 DEF LastIsReplaced
  <2>5. ReadByte(state, b) = [runes |-> grown, need |-> state.need - 1,
                              bad |-> state.bad \/ ~IsContinuation(b)]
    BY <1>3 DEF ReadByte
  <2>6. /\ Bytes(r) = Bytes(Front(r)) \o last.bytes
        /\ Bytes(grown) = Bytes(Front(r)) \o new.bytes
    <3>1. /\ <<last>> \in Seq(Rune) /\ Bytes(<<last>>) = last.bytes
          /\ <<new>> \in Seq(Rune) /\ Bytes(<<new>>) = new.bytes
      <4> HIDE DEF last, new
      <4> QED  BY <2>2, <2>3, BytesOfOne
    <3> HIDE DEF last, new, grown, r
    <3> QED  BY <2>4, <3>1, BytesConcat
  <2>7. Bytes(grown) = Append(Bytes(r), b)
    <3>1. Bytes(Front(r)) \in Seq(Byte) /\ last.bytes \in Seq(Byte)
      <4> HIDE DEF last, r
      <4> QED  BY <2>2, <2>4, BytesType DEF Rune
    <3>2. new.bytes = last.bytes \o <<b>>
      <4>1. new.bytes = Append(last.bytes, b)
        OBVIOUS
      <4> HIDE DEF last, new
      <4> QED  BY <3>1, <4>1, AppendIsConcat
    <3>3. Associates(Seq(Byte))
      BY SequencesAssociate
    <3> HIDE DEF last, new, grown, r
    <3>4. (Bytes(Front(r)) \o last.bytes) \o <<b>> = Bytes(Front(r)) \o (last.bytes \o <<b>>)
      BY <1>1, <3>1, <3>3 DEF Associates
    <3> QED  BY <1>2, <2>6, <3>2, <3>4
  <2>8. grown # <<>>
    BY <2>1, <2>4
  <2>9. state.need - 1 \in 0..3 /\ (state.bad \/ ~IsContinuation(b)) \in BOOLEAN
    BY <1>1, <1>3 DEF IsContinuation
  <2> HIDE DEF grown
  <2>10. ReadByte(state, b).runes = grown
    BY <2>5
  <2>11. ReadByte(state, b) \in Reading
    <3> DEFINE m == state.need - 1
               d == state.bad \/ ~IsContinuation(b)
    <3>1. ReadByte(state, b) = [runes |-> grown, need |-> m, bad |-> d]
      BY <2>5
    <3>2. m \in 0..3 /\ d \in BOOLEAN
      BY <2>9
    <3> HIDE DEF m, d
    <3>3. grown \in Seq(Rune) /\ grown # <<>>
      BY <2>4, <2>8
    <3>4. [runes |-> grown, need |-> m, bad |-> d] \in Reading
      BY <3>2, <3>3, ReadingState
    <3> QED  BY <3>1, <3>4
  <2> QED  BY <2>7, <2>10, <2>11
<1>4. CASE ~(state.need > 0)
  <2> DEFINE new == [value |-> Leading(b), bytes |-> <<b>>]
             grown == Append(r, new)
  <2>1. Remaining(b) \in 0..3
    BY DEF Remaining
  <2>2. Leading(b) \in Nat
    <3>1. b % 32 \in Nat /\ b % 16 \in Nat /\ b % 8 \in Nat /\ b \in Nat
      BY <1>1
    <3>2. CASE Remaining(b) = 1
      <4>1. Remaining(b) # 2 /\ Remaining(b) # 3
        BY <3>2
      <4>2. Leading(b) = b % 32
        BY <3>2, <4>1, Zenon DEF Leading
      <4> QED  BY <3>1, <4>2
    <3>3. CASE Remaining(b) = 2
      <4>1. Remaining(b) # 1 /\ Remaining(b) # 3
        BY <3>3
      <4>2. Leading(b) = b % 16
        BY <3>3, <4>1, Zenon DEF Leading
      <4> QED  BY <3>1, <4>2
    <3>4. CASE Remaining(b) = 3
      <4>1. Remaining(b) # 1 /\ Remaining(b) # 2
        BY <3>4
      <4>2. Leading(b) = b % 8
        BY <3>4, <4>1, Zenon DEF Leading
      <4> QED  BY <3>1, <4>2
    <3>5. CASE Remaining(b) = 0
      <4>1. Remaining(b) # 1 /\ Remaining(b) # 2 /\ Remaining(b) # 3
        BY <3>5
      <4>2. Leading(b) = b
        BY <4>1, Zenon DEF Leading
      <4> QED  BY <3>1, <4>2
    <3> QED  BY <2>1, <3>2, <3>3, <3>4, <3>5
  <2>3. new \in Rune
    BY <1>1, <2>2 DEF Rune
  <2>4. ReadByte(state, b) = [runes |-> grown, need |-> Remaining(b),
                              bad |-> state.bad \/ (b >= 128 /\ Remaining(b) = 0)]
    BY <1>4 DEF ReadByte
  <2>5. grown \in Seq(Rune) /\ grown # <<>> /\ grown = r \o <<new>>
    <3> HIDE DEF new, r
    <3> QED  BY <1>1, <2>3, AppendProperties, AppendIsConcat
  <2>6. Bytes(grown) = Bytes(r) \o <<b>>
    <3>1. <<new>> \in Seq(Rune) /\ Bytes(<<new>>) = new.bytes
      <4> HIDE DEF new
      <4> QED  BY <2>3, BytesOfOne
    <3>2. Bytes(r \o <<new>>) = Bytes(r) \o Bytes(<<new>>)
      <4> HIDE DEF new, r
      <4> QED  BY <1>1, <3>1, BytesConcat
    <3> QED  BY <2>5, <3>1, <3>2
  <2> HIDE DEF grown
  <2>7. ReadByte(state, b).runes = grown
    BY <2>4
  <2>8. ReadByte(state, b) \in Reading
    <3> DEFINE m == Remaining(b)
               d == state.bad \/ (b >= 128 /\ m = 0)
    <3>1. ReadByte(state, b) = [runes |-> grown, need |-> m, bad |-> d]
      BY <2>4
    <3>2. m \in 0..3 /\ d \in BOOLEAN
      BY <1>1, <2>1
    <3> HIDE DEF m, d
    <3> QED  BY <2>5, <3>1, <3>2, ReadingState
  <2> QED  BY <1>2, <2>6, <2>7, <2>8
<1> QED  BY <1>3, <1>4

\* Decoding proceeds byte by byte.
Reads(f, s) ==
    /\ f[0] = Initially
    /\ \A i \in 1..Len(s) : f[i] = ReadByte(f[i - 1], s[i])

\* Decoded() is the last of these steps.
LEMMA DecodedSteps ==
    ASSUME NEW s \in Seq(Byte)
    PROVE  \E f : Reads(f, s) /\ Decoded(s) = f[Len(s)]
<1> DEFINE n == Len(s)
           step == [i \in 1..n |-> [state \in Reading |-> ReadByte(state, s[i])]]
           Folds(h) == h = [S \in SUBSET (1..n) |->
                              IF S = {} THEN Initially ELSE ReadByte(h[S \ {Max(S)}], s[Max(S)])]
<1>1. n \in Nat /\ DOMAIN s = 1..n /\ \A i \in 1..n : s[i] \in Byte
  BY LenProperties, ElementOfSeq
<1>2. Initially \in Reading
  BY DEF Initially, Reading
<1>3. step \in [1..n -> [Reading -> Reading]]
  <2>1. \A i \in 1..n, state \in Reading : ReadByte(state, s[i]) \in Reading
    BY <1>1, ByteIsRead
  <2> QED  BY <2>1
<1>4. PICK g : SetIteration(g, n, Reading, Initially, step)
  <2> HIDE DEF n, step
  <2> QED  BY <1>1, <1>2, <1>3, SetIterates
<1>5. \A S \in SUBSET (1..n) : S # {} => Max(S) \in 1..n /\ S \ {Max(S)} \in SUBSET (1..n)
  BY <1>1, LastIndex
<1>6. Folds(g)
  <2>1. \A S \in SUBSET (1..n) : S # {} =>
          step[Max(S)][g[S \ {Max(S)}]] = ReadByte(g[S \ {Max(S)}], s[Max(S)])
    BY <1>4, <1>5 DEF SetIteration
  <2> HIDE DEF step
  <2> QED  BY <1>4, <2>1 DEF SetIteration
<1> DEFINE iter == CHOOSE h : Folds(h)
<1>7. Folds(iter)
  <2> HIDE DEF Folds
  <2> QED  BY <1>6
<1>8. Decoded(s) = iter[1..n]
  BY <1>1 DEF Decoded, FoldLeft, MapThenFoldSet, Initially
<1> HIDE DEF iter
<1> DEFINE f == [i \in 0..n |-> iter[1..i]]
<1>9. f[0] = Initially
  BY <1>1, <1>7
<1>10. ASSUME NEW i \in 1..n
       PROVE  f[i] = ReadByte(f[i - 1], s[i])
  <2>1. 1..i \in SUBSET (1..n) /\ 1..i # {} /\ Max(1..i) = i /\ (1..i) \ {i} = 1..(i - 1)
    <3>1. n \in Nat
      BY <1>1
    <3> HIDE DEF n
    <3>2. i \in Nat \ {0} /\ i \in 1..i /\ 1..i \in SUBSET (1..n)
      BY <3>1
    <3>3. Max(1..i) = i /\ (1..i) \ {i} = 1..(i - 1)
      BY <3>2, InitialIndices
    <3> QED  BY <3>2, <3>3
  <2>2. iter[1..i] = ReadByte(iter[1..(i - 1)], s[i])
    BY <1>7, <2>1
  <2>3. i \in 0..n /\ i - 1 \in 0..n
    BY <1>1
  <2> QED  BY <2>2, <2>3
<1>11. Decoded(s) = f[n]
  BY <1>1, <1>8
<1> HIDE DEF f
<1> QED  BY <1>9, <1>10, <1>11 DEF Reads

\* The runes of a text have the bytes of the text.
LEMMA DecodedBytes ==
    ASSUME NEW s \in Seq(Byte)
    PROVE  Decoded(s).runes \in Seq(Rune) /\ Bytes(Decoded(s).runes) = s
<1> DEFINE n == Len(s)
<1>1. n \in Nat /\ \A i \in 1..n : s[i] \in Byte
  BY LenProperties, ElementOfSeq
<1>2. PICK f : Reads(f, s) /\ Decoded(s) = f[n]
  BY DecodedSteps
<1> DEFINE P == {i \in 0..n : f[i] \in Reading /\ Bytes(f[i].runes) = SubSeq(s, 1, i)}
<1>3. 0 \in P
  <2>1. f[0] \in Reading /\ f[0].runes = <<>>
    BY <1>2 DEF Reads, Reading, Initially
  <2>2. SubSeq(s, 1, 0) = <<>>
    BY SubSeqEmpty
  <2>3. 0 \in 0..n
    BY <1>1
  <2>4. Bytes(f[0].runes) = <<>>
    BY <2>1, BytesOfNone
  <2> QED  BY <2>1, <2>2, <2>3, <2>4
<1>4. ASSUME NEW i \in 1..n, i - 1 \in P
      PROVE  i \in P
  <2>1. i \in 0..n
    BY <1>1
  <2>2. f[i] = ReadByte(f[i - 1], s[i]) /\ s[i] \in Byte
    BY <1>1, <1>2 DEF Reads
  <2>3. f[i - 1] \in Reading /\ Bytes(f[i - 1].runes) = SubSeq(s, 1, i - 1)
    BY <1>4
  <2>4. f[i] \in Reading /\ Bytes(f[i].runes) = Append(SubSeq(s, 1, i - 1), s[i])
    BY <2>2, <2>3, ByteIsRead
  <2>5. SubSeq(s, 1, i) = Append(SubSeq(s, 1, i - 1), s[i])
    <3>1. 1 \in 1..n /\ i \in 1..n
      BY <1>1
    <3>2. SubSeq(s, 1, i) = SubSeq(s, 1, i - 1) \o <<s[i]>>
      BY <3>1, SubSeqRecursiveSecond
    <3>3. SubSeq(s, 1, i - 1) \in Seq(Byte)
      BY <2>3, <2>3, BytesType DEF Reading
    <3> QED  BY <2>2, <3>2, <3>3, AppendIsConcat
  <2> QED  BY <2>1, <2>4, <2>5
<1>5. n \in P
  <2>1. 0..n \subseteq P
    <3> HIDE DEF P, n
    <3> QED  BY <1>1, <1>3, <1>4, UpTo
  <2> QED  BY <1>1, <2>1
<1>6. SubSeq(s, 1, n) = s
  BY SubSeqFull
<1> QED  BY <1>2, <1>5, <1>6 DEF Reading

-----------------------------------------------------------------------------
(* Merging                                                                   *)

\* What Merged() does with the next symbol. A symbol is a sequence of the byte
\* encoder's characters, with TRUE if it was joined by this rule.
Put(done, x, rule) ==
    IF /\ done # <<>> /\ done[Len(done)] = <<rule[1], FALSE>> /\ x = rule[2]
    THEN Append(Front(done), <<rule[1] \o rule[2], TRUE>>)
    ELSE Append(done, <<x, FALSE>>)
Marked == Seq(Symbol) \X BOOLEAN
Unmarked(m) == [i \in DOMAIN m |-> m[i][1]]

\* Without the marks they are symbols.
LEMMA UnmarkedType ==
    ASSUME NEW m \in Seq(Marked)
    PROVE  Unmarked(m) \in Seq(Seq(Symbol)) /\ Len(Unmarked(m)) = Len(m)
<1> DEFINE D == Seq(Symbol)
<1>1. Len(m) \in Nat /\ DOMAIN m = 1..Len(m)
  BY LenProperties
<1>2. \A i \in 1..Len(m) : m[i][1] \in D
  <2>1. \A i \in 1..Len(m) : m[i] \in Marked
    BY ElementOfSeq
  <2>2. \A x \in Marked : x[1] \in D
    BY DEF Marked
  <2> QED  BY <2>1, <2>2, Zenon
<1> HIDE DEF D
<1>3. Unmarked(m) \in Seq(D) /\ Len(Unmarked(m)) = Len(m)
  BY <1>1, <1>2 DEF Unmarked
<1> QED  BY <1>3 DEF D

\* One more symbol.
LEMMA UnmarkedAppend ==
    ASSUME NEW m \in Seq(Marked), NEW x \in Marked
    PROVE  /\ x[1] \in Seq(Symbol) /\ Append(m, x) \in Seq(Marked)
           /\ Unmarked(Append(m, x)) = Append(Unmarked(m), x[1])
<1> DEFINE D == Seq(Symbol)
           t == Append(m, x)
           v == Unmarked(t)
           w == Append(Unmarked(m), x[1])
<1>1. x[1] \in D /\ Unmarked(m) \in Seq(D) /\ Len(Unmarked(m)) = Len(m)
  BY UnmarkedType DEF Marked
<1>2. /\ Len(m) \in Nat /\ t \in Seq(Marked) /\ Len(t) = Len(m) + 1
      /\ t[Len(m) + 1] = x /\ \A i \in 1..Len(m) : t[i] = m[i]
  BY LenProperties, AppendProperties
<1> HIDE DEF t
<1>3. v \in Seq(D) /\ Len(v) = Len(m) + 1
  BY <1>2, UnmarkedType
<1>4. DOMAIN t = 1..Len(m) + 1 /\ DOMAIN m = 1..Len(m)
  BY <1>2, LenProperties
<1>5. v[Len(m) + 1] = x[1] /\ \A i \in 1..Len(m) : v[i] = m[i][1]
  BY <1>2, <1>4 DEF Unmarked
<1>6. \A i \in 1..Len(m) : Unmarked(m)[i] = m[i][1]
  BY <1>4 DEF Unmarked
<1> HIDE DEF D
<1>7. /\ w \in Seq(D) /\ Len(w) = Len(m) + 1
      /\ w[Len(m) + 1] = x[1] /\ \A i \in 1..Len(m) : w[i] = Unmarked(m)[i]
  BY <1>1, AppendProperties
<1> HIDE DEF v, w
<1>8. \A i \in 1..Len(m) + 1 : v[i] = w[i]
  BY <1>2, <1>5, <1>6, <1>7
<1>9. v = w
  BY <1>3, <1>7, <1>8, SeqEqual
<1> QED  BY <1>1, <1>2, <1>9 DEF D, t, v, w

\* Joining two neighbours or not, the symbols spell the same.
LEMMA PutSpells ==
    ASSUME NEW done \in Seq(Marked), NEW x \in Seq(Symbol), NEW rule
    PROVE  /\ Put(done, x, rule) \in Seq(Marked)
           /\ FlattenSeq(Unmarked(Put(done, x, rule))) = FlattenSeq(Unmarked(done)) \o x
<1>1. Unmarked(done) \in Seq(Seq(Symbol))
  BY UnmarkedType
<1>2. CASE /\ done # <<>> /\ done[Len(done)] = <<rule[1], FALSE>> /\ x = rule[2]
  <2> DEFINE last == done[Len(done)]
             new == <<rule[1] \o rule[2], TRUE>>
             front == Front(done)
  <2>1. LastIsReplaced(done, last, Marked)
    <3>1. Len(done) \in 1..Len(done)
      BY <1>2, EmptySeq, LenProperties
    <3>2. last \in Marked
      BY <3>1, ElementOfSeq
    <3> HIDE DEF last
    <3> QED  BY <1>2, <3>2, LastReplaced
  <2>2. front \in Seq(Marked) /\ done = front \o <<last>> /\ last \in Marked
    <3>1. Len(done) \in 1..Len(done) /\ front \in Seq(Marked) /\ done = front \o <<last>>
      BY <2>1 DEF LastIsReplaced
    <3>2. last \in Marked
      BY <3>1, ElementOfSeq
    <3> QED  BY <3>1, <3>2
  <2>3. last[1] = rule[1] /\ rule[1] \in Seq(Symbol) /\ rule[2] \in Seq(Symbol)
    BY <1>2, <2>2 DEF Marked
  <2>4. new \in Marked /\ new[1] = rule[1] \o x
    <3>1. rule[1] \o rule[2] \in Seq(Symbol)
      BY <2>3, ConcatProperties
    <3> QED  BY <1>2, <3>1 DEF Marked
  <2>5. Put(done, x, rule) = Append(front, new)
    BY <1>2 DEF Put
  <2> HIDE DEF last, new, front
  <2>6. done = Append(front, last)
    BY <2>2, AppendIsConcat
  <2>7. /\ Unmarked(done) = Append(Unmarked(front), last[1])
        /\ Unmarked(Append(front, new)) = Append(Unmarked(front), new[1])
        /\ Append(front, new) \in Seq(Marked)
    BY <2>2, <2>4, <2>6, UnmarkedAppend
  <2>8. /\ Unmarked(front) \in Seq(Seq(Symbol))
        /\ last[1] \in Seq(Symbol) /\ new[1] \in Seq(Symbol)
    BY <2>2, <2>4, UnmarkedType, UnmarkedAppend
  <2>9. /\ FlattenSeq(Unmarked(done)) = FlattenSeq(Unmarked(front)) \o rule[1]
        /\ FlattenSeq(Unmarked(Append(front, new))) = FlattenSeq(Unmarked(front)) \o (rule[1] \o x)
    <3>1. FlattenSeq(Append(Unmarked(front), last[1])) = FlattenSeq(Unmarked(front)) \o last[1]
      BY <2>8, FlattenAppend
    <3>2. FlattenSeq(Append(Unmarked(front), new[1])) = FlattenSeq(Unmarked(front)) \o new[1]
      BY <2>8, FlattenAppend
    <3> QED  BY <2>3, <2>4, <2>7, <3>1, <3>2, Zenon
  <2>10. (FlattenSeq(Unmarked(front)) \o rule[1]) \o x = FlattenSeq(Unmarked(front)) \o (rule[1] \o x)
    <3>1. Associates(Seq(Symbol))
      BY SequencesAssociate
    <3>2. FlattenSeq(Unmarked(front)) \in Seq(Symbol)
      BY <2>8, FlattenType
    <3> QED  BY <2>3, <3>1, <3>2 DEF Associates
  <2> QED  BY <2>5, <2>7, <2>9, <2>10
<1>3. CASE ~(done # <<>> /\ done[Len(done)] = <<rule[1], FALSE>> /\ x = rule[2])
  <2> DEFINE new == <<x, FALSE>>
  <2>1. new \in Marked /\ new[1] = x
    BY DEF Marked
  <2>2. Put(done, x, rule) = Append(done, new)
    BY <1>3 DEF Put
  <2> HIDE DEF new
  <2>3. Append(done, new) \in Seq(Marked) /\ Unmarked(Append(done, new)) = Append(Unmarked(done), x)
    BY <2>1, UnmarkedAppend
  <2> QED  BY <1>1, <2>2, <2>3, FlattenAppend
<1> QED  BY <1>2, <1>3

\* f is Merged() after each symbol of s.
Puts(f, s, rule) ==
    /\ f[0] = <<>>
    /\ \A i \in 1..Len(s) : f[i] = Put(f[i - 1], s[i], rule)

\* Merged() is the last of these steps.
LEMMA MergedSteps ==
    ASSUME NEW s \in Seq(Seq(Symbol)), NEW rule
    PROVE  \E f : Puts(f, s, rule) /\ Merged(s, rule) = f[Len(s)]
<1> DEFINE n == Len(s)
           D == Seq(Marked)
           step == [i \in 1..n |-> [done \in D |-> Put(done, s[i], rule)]]
           Folds(h) == h = [S \in SUBSET (1..n) |->
                              IF S = {} THEN <<>> ELSE Put(h[S \ {Max(S)}], s[Max(S)], rule)]
<1>1. n \in Nat /\ DOMAIN s = 1..n /\ \A i \in 1..n : s[i] \in Seq(Symbol)
  BY LenProperties, ElementOfSeq
<1>2. <<>> \in D
  OBVIOUS
<1>3. step \in [1..n -> [D -> D]]
  <2>1. \A i \in 1..n, done \in D : Put(done, s[i], rule) \in D
    BY <1>1, PutSpells
  <2> HIDE DEF D
  <2> QED  BY <2>1
<1>4. PICK g : SetIteration(g, n, D, <<>>, step)
  <2> HIDE DEF n, D, step
  <2> QED  BY <1>1, <1>2, <1>3, SetIterates
<1>5. \A S \in SUBSET (1..n) : S # {} => Max(S) \in 1..n /\ S \ {Max(S)} \in SUBSET (1..n)
  BY <1>1, LastIndex
<1>6. Folds(g)
  <2> HIDE DEF D
  <2>1. \A S \in SUBSET (1..n) : S # {} =>
          step[Max(S)][g[S \ {Max(S)}]] = Put(g[S \ {Max(S)}], s[Max(S)], rule)
    BY <1>4, <1>5 DEF SetIteration
  <2> HIDE DEF step
  <2> QED  BY <1>4, <2>1 DEF SetIteration
<1> DEFINE iter == CHOOSE h : Folds(h)
<1>7. Folds(iter)
  <2> HIDE DEF Folds
  <2> QED  BY <1>6
<1>8. Merged(s, rule) = iter[1..n]
  BY <1>1 DEF Merged, FoldLeft, MapThenFoldSet, Put
<1> HIDE DEF iter
<1> DEFINE f == [i \in 0..n |-> iter[1..i]]
<1>9. f[0] = <<>>
  BY <1>1, <1>7
<1>10. ASSUME NEW i \in 1..n
       PROVE  f[i] = Put(f[i - 1], s[i], rule)
  <2>1. 1..i \in SUBSET (1..n) /\ 1..i # {} /\ Max(1..i) = i /\ (1..i) \ {i} = 1..(i - 1)
    <3>1. n \in Nat
      BY <1>1
    <3> HIDE DEF n
    <3>2. i \in Nat \ {0} /\ i \in 1..i /\ 1..i \in SUBSET (1..n)
      BY <3>1
    <3>3. Max(1..i) = i /\ (1..i) \ {i} = 1..(i - 1)
      BY <3>2, InitialIndices
    <3> QED  BY <3>2, <3>3
  <2>2. iter[1..i] = Put(iter[1..(i - 1)], s[i], rule)
    BY <1>7, <2>1
  <2>3. i \in 0..n /\ i - 1 \in 0..n
    BY <1>1
  <2> QED  BY <2>2, <2>3
<1>11. Merged(s, rule) = f[n]
  BY <1>1, <1>8
<1> HIDE DEF f
<1> QED  BY <1>9, <1>10, <1>11 DEF Puts

\* Whatever the rule, applying it changes how symbols are joined, not what
\* they spell.
LEMMA AppliedSpells ==
    ASSUME NEW s \in Seq(Seq(Symbol)), NEW rule
    PROVE  /\ Applied(s, rule) \in Seq(Seq(Symbol))
           /\ FlattenSeq(Applied(s, rule)) = FlattenSeq(s)
<1> DEFINE n == Len(s)
           D == Seq(Symbol)
<1>1. n \in Nat /\ \A i \in 1..n : s[i] \in D
  BY LenProperties, ElementOfSeq
<1>2. PICK f : Puts(f, s, rule) /\ Merged(s, rule) = f[n]
  BY MergedSteps
<1>3. s \in Seq(D)
  OBVIOUS
<1> DEFINE P == {i \in 0..n : /\ f[i] \in Seq(Marked)
                              /\ FlattenSeq(Unmarked(f[i])) = FlattenSeq(SubSeq(s, 1, i))}
<1>4. 0 \in P
  <2>1. f[0] \in Seq(Marked) /\ Unmarked(f[0]) = <<>>
    BY <1>2 DEF Puts, Unmarked
  <2>2. SubSeq(s, 1, 0) = <<>>
    BY SubSeqEmpty
  <2>3. 0 \in 0..n
    BY <1>1
  <2> QED  BY <2>1, <2>2, <2>3
<1>5. ASSUME NEW i \in 1..n, i - 1 \in P
      PROVE  i \in P
  <2>1. i \in 0..n
    BY <1>1
  <2>2. f[i] = Put(f[i - 1], s[i], rule) /\ s[i] \in D
    BY <1>1, <1>2 DEF Puts
  <2>3. f[i - 1] \in Seq(Marked) /\ FlattenSeq(Unmarked(f[i - 1])) = FlattenSeq(SubSeq(s, 1, i - 1))
    BY <1>5
  <2>4. /\ f[i] \in Seq(Marked)
        /\ FlattenSeq(Unmarked(f[i])) = FlattenSeq(Unmarked(f[i - 1])) \o s[i]
    BY <2>2, <2>3, PutSpells
  <2>5. SubSeq(s, 1, i - 1) \in Seq(D) /\ SubSeq(s, 1, i) = Append(SubSeq(s, 1, i - 1), s[i])
    <3> HIDE DEF D
    <3>1. 1 \in 1..n /\ i \in 1..n /\ 1 \in Int /\ i - 1 \in Int /\ 1..i - 1 \subseteq 1..n
      BY <1>1
    <3>2. SubSeq(s, 1, i) = SubSeq(s, 1, i - 1) \o <<s[i]>>
      BY <1>3, <3>1, SubSeqRecursiveSecond
    <3>3. SubSeq(s, 1, i - 1) \in Seq(D)
      <4>1. \A j \in 1..i - 1 : s[j] \in D
        BY <1>1, <3>1
      <4> QED  BY <3>1, <4>1, SubSeqProperties
    <3> QED  BY <2>2, <3>2, <3>3, AppendIsConcat
  <2>6. FlattenSeq(Append(SubSeq(s, 1, i - 1), s[i])) = FlattenSeq(SubSeq(s, 1, i - 1)) \o s[i]
    BY <2>2, <2>5, FlattenAppend
  <2> QED  BY <2>1, <2>3, <2>4, <2>5, <2>6
<1>6. n \in P
  <2>1. 0..n \subseteq P
    <3> HIDE DEF P, n
    <3> QED  BY <1>1, <1>4, <1>5, UpTo
  <2> QED  BY <1>1, <2>1
<1>7. SubSeq(s, 1, n) = s
  <2> HIDE DEF D
  <2> QED  BY <1>3, SubSeqFull
<1>8. Applied(s, rule) = Unmarked(f[n])
  BY <1>2 DEF Applied, Unmarked
<1> QED  BY <1>6, <1>7, <1>8, UnmarkedType

\* A rule that does not fit changes nothing.
LEMMA AppliedIdle ==
    ASSUME NEW s \in Seq(Seq(Symbol)), NEW rule, <<rule[1], rule[2]>> \notin Adjacent(s)
    PROVE  Applied(s, rule) = s
<1> DEFINE n == Len(s)
           D == Seq(Symbol)
<1>1. n \in Nat /\ \A i \in 1..n : s[i] \in D
  BY LenProperties, ElementOfSeq
<1>2. PICK f : Puts(f, s, rule) /\ Merged(s, rule) = f[n]
  BY MergedSteps
<1>3. s \in Seq(D)
  OBVIOUS
<1> DEFINE P == {i \in 0..n : /\ f[i] \in Seq(Marked) /\ Len(f[i]) = i
                              /\ \A k \in 1..i : f[i][k] = <<s[k], FALSE>>}
<1>4. 0 \in P
  <2>1. f[0] = <<>>
    BY <1>2 DEF Puts
  <2>2. f[0] \in Seq(Marked) /\ Len(f[0]) = 0
    BY <2>1, EmptySeq
  <2>3. 0 \in 0..n /\ \A k \in 1..0 : f[0][k] = <<s[k], FALSE>>
    BY <1>1
  <2> QED  BY <2>2, <2>3
<1>5. ASSUME NEW i \in 1..n, i - 1 \in P
      PROVE  i \in P
  <2> DEFINE d == f[i - 1]
  <2>1. i \in 0..n /\ i \in Nat /\ i - 1 \in Nat /\ (i - 1) + 1 = i
    BY <1>1
  <2>2. f[i] = Put(d, s[i], rule) /\ s[i] \in D
    BY <1>1, <1>2 DEF Puts
  <2>3. d \in Seq(Marked) /\ Len(d) = i - 1 /\ \A k \in 1..i - 1 : d[k] = <<s[k], FALSE>>
    BY <1>5
  <2> HIDE DEF d
  <2>4. ~(d # <<>> /\ d[Len(d)] = <<rule[1], FALSE>> /\ s[i] = rule[2])
    <3> SUFFICES ASSUME d # <<>>, d[Len(d)] = <<rule[1], FALSE>>, s[i] = rule[2]
                 PROVE  FALSE
      OBVIOUS
    <3>1. i - 1 \in 1..n - 1 /\ i - 1 \in 1..i - 1
      <4>1. i - 1 # 0
        BY <2>3, EmptySeq
      <4> QED  BY <1>1, <2>1, <4>1
    <3>2. s[i - 1] = rule[1]
      <4>1. d[i - 1] = <<s[i - 1], FALSE>> /\ d[i - 1] = <<rule[1], FALSE>>
        BY <2>3, <3>1
      <4>2. <<s[i - 1], FALSE>>[1] = <<rule[1], FALSE>>[1]
        BY <4>1
      <4> QED  BY <4>2
    <3>3. <<s[i - 1], s[(i - 1) + 1]>> \in Adjacent(s)
      BY <3>1 DEF Adjacent
    <3> QED  BY <2>1, <3>2, <3>3
  <2> DEFINE new == <<s[i], FALSE>>
             e == Append(d, new)
  <2>5. f[i] = e
    BY <2>2, <2>4 DEF Put
  <2>6. new \in Marked
    BY <2>2 DEF Marked
  <2> HIDE DEF new
  <2>7. /\ f[i] \in Seq(Marked) /\ Len(f[i]) = (i - 1) + 1 /\ f[i][(i - 1) + 1] = new
        /\ \A k \in 1..i - 1 : f[i][k] = d[k]
    <3>1. /\ e \in Seq(Marked) /\ Len(e) = Len(d) + 1 /\ e[Len(d) + 1] = new
          /\ \A k \in 1..Len(d) : e[k] = d[k]
      BY <2>3, <2>6, AppendProperties
    <3> HIDE DEF e
    <3> QED  BY <2>3, <2>5, <3>1
  <2>8. \A k \in 1..i : f[i][k] = <<s[k], FALSE>>
    <3> SUFFICES ASSUME NEW k \in 1..i PROVE f[i][k] = <<s[k], FALSE>>
      OBVIOUS
    <3>1. CASE k = i
      BY <2>1, <2>7, <3>1 DEF new
    <3>2. CASE k # i
      <4>1. k \in 1..i - 1
        BY <2>1, <3>2
      <4> QED  BY <2>3, <2>7, <4>1
    <3> QED  BY <3>1, <3>2
  <2> QED  BY <2>1, <2>7, <2>8
<1>6. n \in P
  <2> HIDE DEF P, n
  <2>1. 0..n \subseteq P
    BY <1>1, <1>4, <1>5, UpTo
  <2> QED  BY <1>1, <2>1
<1> DEFINE t == Unmarked(f[n])
<1>7. t \in Seq(D) /\ Len(t) = n
  BY <1>6, UnmarkedType
<1>8. \A k \in 1..n : t[k] = s[k]
  <2>1. f[n] \in Seq(Marked) /\ Len(f[n]) = n /\ \A k \in 1..n : f[n][k] = <<s[k], FALSE>>
    BY <1>6
  <2>2. DOMAIN f[n] = 1..n
    BY <2>1, LenProperties
  <2> SUFFICES ASSUME NEW k \in 1..n PROVE t[k] = s[k]
    OBVIOUS
  <2>3. t[k] = f[n][k][1]
    BY <2>2 DEF Unmarked
  <2>4. f[n][k] = <<s[k], FALSE>>
    BY <2>1
  <2> QED  BY <2>3, <2>4
<1>9. Applied(s, rule) = t
  BY <1>2 DEF Applied, Unmarked
<1> HIDE DEF t, D
<1> QED  BY <1>1, <1>3, <1>7, <1>8, <1>9, SeqEqual

\* After i symbols: what was joined was joined by the rule, the last symbol is
\* the i-th unless it was joined, and no two neighbours are left to join.
Joined(d, i, s, rule) ==
    /\ d # <<>> => i \in 1..Len(s) /\ (~d[Len(d)][2] => d[Len(d)][1] = s[i])
    /\ \A k \in 1..Len(d) : d[k][2] => d[k][1] = rule[1] \o rule[2]
    /\ \A k \in 1..Len(d) - 1 : ~d[k][2] /\ ~d[k + 1][2] =>
        <<d[k][1], d[k + 1][1]>> \in Adjacent(s) \ {<<rule[1], rule[2]>>}

\* The next symbol keeps that so, whether it is joined or not.
LEMMA PutJoins ==
    ASSUME NEW s \in Seq(Seq(Symbol)), NEW rule, NEW i \in 1..Len(s),
           NEW d \in Seq(Marked), Joined(d, i - 1, s, rule)
    PROVE  Joined(Put(d, s[i], rule), i, s, rule)
<1>1. Len(s) \in Nat /\ Len(d) \in Nat /\ s[i] \in Seq(Symbol)
  BY LenProperties, ElementOfSeq
<1>2. CASE d # <<>> /\ d[Len(d)] = <<rule[1], FALSE>> /\ s[i] = rule[2]
  <2> DEFINE last == d[Len(d)]
             new == <<rule[1] \o rule[2], TRUE>>
             front == Front(d)
             e == Append(front, new)
  <2>1. LastIsReplaced(d, last, Marked)
    <3>1. Len(d) \in 1..Len(d)
      BY <1>2, EmptySeq, LenProperties
    <3>2. last \in Marked
      BY <3>1, ElementOfSeq
    <3> HIDE DEF last
    <3> QED  BY <1>2, <3>2, LastReplaced
  <2>2. front \in Seq(Marked) /\ d = front \o <<last>> /\ last \in Marked
    <3>1. Len(d) \in 1..Len(d) /\ front \in Seq(Marked) /\ d = front \o <<last>>
      BY <2>1 DEF LastIsReplaced
    <3>2. last \in Marked
      BY <3>1, ElementOfSeq
    <3> QED  BY <3>1, <3>2
  <2>3. new \in Marked /\ new[2] = TRUE /\ new[1] = rule[1] \o rule[2]
    <3>1. rule[1] \in Seq(Symbol) /\ rule[2] \in Seq(Symbol)
      <4>1. last[1] = rule[1] /\ s[i] = rule[2]
        BY <1>2
      <4>2. last[1] \in Seq(Symbol)
        <5> HIDE DEF last
        <5> QED  BY <2>2 DEF Marked
      <4> QED  BY <1>1, <4>1, <4>2, Zenon
    <3>2. rule[1] \o rule[2] \in Seq(Symbol)
      <4>1. \A u, w \in Seq(Symbol) : u \o w \in Seq(Symbol)
        BY ConcatProperties
      <4> QED  BY <3>1, <4>1
    <3> QED  BY <3>2 DEF Marked
  <2>4. Put(d, s[i], rule) = e
    BY <1>2 DEF Put
  <2> HIDE DEF last, new, front
  <2>5. d = Append(front, last)
    BY <2>2, AppendIsConcat
  <2>6. /\ Len(front) \in Nat /\ Len(d) = Len(front) + 1
        /\ \A k \in 1..Len(front) : d[k] = front[k]
    BY <2>2, <2>5, AppendProperties, LenProperties
  <2>7. /\ Len(e) = Len(front) + 1 /\ e[Len(front) + 1] = new
        /\ \A k \in 1..Len(front) : e[k] = front[k]
    BY <2>2, <2>3, AppendProperties
  <2> HIDE DEF e
  <2>8. e[Len(e)][2]
    BY <2>3, <2>7
  <2>9. \A k \in 1..Len(e) : e[k][2] => e[k][1] = rule[1] \o rule[2]
    <3> SUFFICES ASSUME NEW k \in 1..Len(e), e[k][2] PROVE e[k][1] = rule[1] \o rule[2]
      OBVIOUS
    <3>1. CASE k = Len(front) + 1
      BY <2>3, <2>7, <3>1
    <3>2. CASE k # Len(front) + 1
      <4>1. k \in 1..Len(front) /\ k \in 1..Len(d)
        BY <2>6, <2>7, <3>2
      <4>2. e[k] = d[k]
        BY <2>6, <2>7, <4>1
      <4>3. \A j \in 1..Len(d) : d[j][2] => d[j][1] = rule[1] \o rule[2]
        BY DEF Joined
      <4> QED  BY <3>2, <4>1, <4>2, <4>3
    <3> QED  BY <3>1, <3>2
  <2>10. ASSUME NEW k \in 1..Len(e) - 1, ~e[k][2], ~e[k + 1][2]
         PROVE  <<e[k][1], e[k + 1][1]>> \in Adjacent(s) \ {<<rule[1], rule[2]>>}
    <3>1. k + 1 # Len(front) + 1
      BY <2>3, <2>7, <2>10
    <3>2. k \in 1..Len(front) /\ k + 1 \in 1..Len(front) /\ k \in 1..Len(d) - 1
      BY <2>6, <2>7, <3>1
    <3>3. e[k] = d[k] /\ e[k + 1] = d[k + 1]
      BY <2>6, <2>7, <3>2
    <3> QED  BY <2>10, <3>2, <3>3 DEF Joined
  <2>11. Joined(e, i, s, rule)
    BY <2>8, <2>9, <2>10 DEF Joined
  <2> QED  BY <2>4, <2>11
<1>3. CASE ~(d # <<>> /\ d[Len(d)] = <<rule[1], FALSE>> /\ s[i] = rule[2])
  <2> DEFINE new == <<s[i], FALSE>>
             e == Append(d, new)
  <2>1. new \in Marked /\ new[1] = s[i] /\ ~new[2]
    BY <1>1 DEF Marked
  <2>2. Put(d, s[i], rule) = e
    BY <1>3 DEF Put
  <2> HIDE DEF new
  <2>3. /\ Len(e) = Len(d) + 1 /\ e[Len(d) + 1] = new
        /\ \A k \in 1..Len(d) : e[k] = d[k]
    BY <2>1, AppendProperties
  <2> HIDE DEF e
  <2>4. e[Len(e)][1] = s[i]
    BY <2>1, <2>3
  <2>5. \A k \in 1..Len(e) : e[k][2] => e[k][1] = rule[1] \o rule[2]
    <3> SUFFICES ASSUME NEW k \in 1..Len(e), e[k][2] PROVE e[k][1] = rule[1] \o rule[2]
      OBVIOUS
    <3>1. k # Len(d) + 1
      BY <2>1, <2>3
    <3>2. k \in 1..Len(d)
      BY <1>1, <2>3, <3>1
    <3> QED  BY <2>3, <3>2 DEF Joined
  <2>6. ASSUME NEW k \in 1..Len(e) - 1, ~e[k][2], ~e[k + 1][2]
        PROVE  <<e[k][1], e[k + 1][1]>> \in Adjacent(s) \ {<<rule[1], rule[2]>>}
    <3>1. k \in 1..Len(d) /\ e[k] = d[k]
      BY <1>1, <2>3
    <3>2. CASE k = Len(d)
      <4>1. d # <<>> /\ e[k + 1] = new
        BY <1>1, <2>3, <3>1, <3>2, EmptySeq
      <4>2. i - 1 \in 1..Len(s) /\ d[k][1] = s[i - 1]
        BY <2>6, <3>1, <3>2, <4>1 DEF Joined
      <4>3. i - 1 \in 1..Len(s) - 1 /\ (i - 1) + 1 = i
        BY <1>1, <4>2
      <4>4. <<s[i - 1], s[(i - 1) + 1]>> \in Adjacent(s)
        BY <4>3 DEF Adjacent
      <4>5. d[k] = <<d[k][1], FALSE>>
        <5>1. d[k] \in Marked
          BY <3>1, ElementOfSeq
        <5>2. PICK a \in Seq(Symbol), b \in BOOLEAN : d[k] = <<a, b>>
          BY <5>1 DEF Marked
        <5>3. d[k][1] = a /\ d[k][2] = b
          BY <5>2
        <5>4. ~b
          BY <2>6, <3>1, <5>3
        <5>5. b = FALSE
          BY <5>4
        <5> QED  BY <5>2, <5>3, <5>5
      <4>6. ~(d[k][1] = rule[1] /\ s[i] = rule[2])
        BY <1>3, <3>2, <4>1, <4>5
      <4> QED  BY <2>1, <3>1, <4>1, <4>2, <4>3, <4>4, <4>6
    <3>3. CASE k # Len(d)
      <4>1. k \in 1..Len(d) - 1 /\ k + 1 \in 1..Len(d)
        BY <1>1, <3>1, <3>3
      <4>2. e[k + 1] = d[k + 1]
        BY <2>3, <4>1
      <4> QED  BY <2>6, <3>1, <4>1, <4>2 DEF Joined
    <3> QED  BY <3>2, <3>3
  <2>7. Joined(e, i, s, rule)
    BY <2>4, <2>5, <2>6 DEF Joined
  <2> QED  BY <2>2, <2>7
<1> QED  BY <1>2, <1>3

\* After a rule is applied, two neighbours were neighbours before, and are not
\* the rule's, or one of them is what the rule builds.
LEMMA AppliedPairs ==
    ASSUME NEW s \in Seq(Seq(Symbol)), NEW rule,
           NEW k \in 1..Len(Applied(s, rule)) - 1
    PROVE  LET t == Applied(s, rule)
           IN  \/ t[k] = rule[1] \o rule[2]
               \/ t[k + 1] = rule[1] \o rule[2]
               \/ <<t[k], t[k + 1]>> \in Adjacent(s) \ {<<rule[1], rule[2]>>}
<1> DEFINE n == Len(s)
           t == Applied(s, rule)
<1>1. n \in Nat /\ \A i \in 1..n : s[i] \in Seq(Symbol)
  BY LenProperties, ElementOfSeq
<1>2. PICK f : Puts(f, s, rule) /\ Merged(s, rule) = f[n]
  BY MergedSteps
<1> DEFINE P == {i \in 0..n : f[i] \in Seq(Marked) /\ Joined(f[i], i, s, rule)}
<1>3. 0 \in P
  <2>1. f[0] = <<>>
    BY <1>2 DEF Puts
  <2>2. f[0] \in Seq(Marked) /\ Len(f[0]) = 0 /\ 0 \in 0..n
    BY <1>1, <2>1, EmptySeq
  <2>3. Joined(f[0], 0, s, rule)
    BY <2>1, <2>2 DEF Joined
  <2> QED  BY <2>2, <2>3
<1>4. ASSUME NEW i \in 1..n, i - 1 \in P
      PROVE  i \in P
  <2>1. i \in 0..n
    BY <1>1
  <2>2. f[i - 1] \in Seq(Marked) /\ Joined(f[i - 1], i - 1, s, rule)
    BY <1>4
  <2>3. f[i] = Put(f[i - 1], s[i], rule) /\ s[i] \in Seq(Symbol)
    BY <1>1, <1>2 DEF Puts
  <2>4. f[i] \in Seq(Marked)
    BY <2>2, <2>3, PutSpells
  <2>5. Joined(f[i], i, s, rule)
    BY <2>2, <2>3, PutJoins
  <2> QED  BY <2>1, <2>4, <2>5
<1>5. n \in P
  <2> HIDE DEF P, n
  <2>1. 0..n \subseteq P
    BY <1>1, <1>3, <1>4, UpTo
  <2> QED  BY <1>1, <2>1
<1> DEFINE d == f[n]
<1>6. d \in Seq(Marked) /\ Joined(d, n, s, rule) /\ t = Unmarked(d)
  BY <1>2, <1>5 DEF Applied, Unmarked
<1> HIDE DEF d, t
<1>7. Len(t) = Len(d) /\ Len(d) \in Nat /\ DOMAIN d = 1..Len(d)
  BY <1>6, UnmarkedType, LenProperties
<1>8. k \in 1..Len(d) - 1 /\ k \in 1..Len(d) /\ k + 1 \in 1..Len(d)
  BY <1>7 DEF t
<1>9. t[k] = d[k][1] /\ t[k + 1] = d[k + 1][1]
  BY <1>6, <1>7, <1>8 DEF Unmarked
<1>10. CASE d[k][2]
  <2>1. d[k][1] = rule[1] \o rule[2]
    BY <1>6, <1>8, <1>10 DEF Joined
  <2> QED  BY <1>9, <2>1 DEF t
<1>11. CASE d[k + 1][2]
  <2>1. d[k + 1][1] = rule[1] \o rule[2]
    BY <1>6, <1>8, <1>11 DEF Joined
  <2> QED  BY <1>9, <2>1 DEF t
<1>12. CASE ~d[k][2] /\ ~d[k + 1][2]
  <2>1. <<d[k][1], d[k + 1][1]>> \in Adjacent(s) \ {<<rule[1], rule[2]>>}
    BY <1>6, <1>8, <1>12 DEF Joined
  <2> QED  BY <1>9, <2>1 DEF t
<1> QED  BY <1>10, <1>11, <1>12

\* Applying the rule of the lowest rank leaves only rules of higher ranks.
LEMMA RanksRise ==
    ASSUME NEW s \in Seq(Seq(Symbol)), NEW m \in RanksIn(s), \A j \in RanksIn(s) : m <= j
    PROVE  \A k \in RanksIn(Applied(s, MergeRules[m])) : m < k
<1> DEFINE rule == MergeRules[m]
           t == Applied(s, rule)
<1>1. DOMAIN MergeRules \subseteq Nat /\ m \in DOMAIN MergeRules
      /\ \A k \in DOMAIN MergeRules : MergeRules[k] \in Seq(Nat) \X Seq(Nat)
  <2>1. DOMAIN MergeRules \subseteq Nat
    BY MergesAssumption, LenProperties
  <2>2. m \in DOMAIN MergeRules
    BY DEF RanksIn
  <2>3. \A k \in DOMAIN MergeRules : MergeRules[k] \in Seq(Nat) \X Seq(Nat)
    BY MergesAssumption, LenProperties, ElementOfSeq
  <2> QED  BY <2>1, <2>2, <2>3
<1> SUFFICES ASSUME NEW k \in RanksIn(t), ~(m < k)
             PROVE  FALSE
  OBVIOUS
<1>2. k \in DOMAIN MergeRules /\ k <= m /\ MergeRules[k] \in Adjacent(t)
  BY <1>1 DEF RanksIn
<1>3. PICK i \in 1..Len(t) - 1 : MergeRules[k] = <<t[i], t[i + 1]>>
  BY <1>2 DEF Adjacent
<1>4. \/ t[i] = rule[1] \o rule[2]
      \/ t[i + 1] = rule[1] \o rule[2]
      \/ <<t[i], t[i + 1]>> \in Adjacent(s) \ {<<rule[1], rule[2]>>}
  <2> HIDE DEF rule
  <2> QED  BY AppliedPairs
<1> HIDE DEF t
<1>5. MergeRules[k][1] = t[i] /\ MergeRules[k][2] = t[i + 1]
  BY <1>3
<1>6. rule[1] \o rule[2] \notin {MergeRules[k][1], MergeRules[k][2]}
  BY <1>1, <1>2, MergesAssumption
<1>7. MergeRules[k] \in Adjacent(s) /\ MergeRules[k] # <<rule[1], rule[2]>>
  <2> HIDE DEF rule
  <2> QED  BY <1>3, <1>4, <1>5, <1>6
<1>8. k \in RanksIn(s)
  BY <1>2, <1>7 DEF RanksIn
<1>9. k = m
  BY <1>1, <1>2, <1>8
<1>10. rule = <<rule[1], rule[2]>>
  <2>1. rule \in Seq(Nat) \X Seq(Nat)
    BY <1>1
  <2> HIDE DEF rule
  <2> QED  BY <2>1
<1> QED  BY <1>7, <1>9, <1>10

\* The rules one after the other, from the byte symbols of b.
ByteSymbols(b) == [i \in DOMAIN b |-> <<ByteSymbol(b[i])>>]
\* f is what the rules make of the bytes b, after each rule.
Orders(f, b) ==
    /\ f[0] = ByteSymbols(b)
    /\ \A i \in 1..Len(MergeRules) : f[i] = Applied(f[i - 1], MergeRules[i])

\* RulesInOrder() is the last of these steps.
LEMMA OrderedSteps ==
    ASSUME NEW b \in Seq(Byte)
    PROVE  \E f : Orders(f, b) /\ RulesInOrder(b) = f[Len(MergeRules)]
<1> DEFINE n == Len(MergeRules)
           D == Seq(Seq(Symbol))
           base == ByteSymbols(b)
           step == [i \in 1..n |-> [s \in D |-> Applied(s, MergeRules[i])]]
           Folds(h) == h = [S \in SUBSET (1..n) |->
                              IF S = {} THEN base ELSE Applied(h[S \ {Max(S)}], MergeRules[Max(S)])]
<1>1. n \in Nat /\ DOMAIN MergeRules = 1..n
  BY MergesAssumption, LenProperties
<1>2. base \in D
  BY SymbolsOfBytes DEF ByteSymbols
<1> HIDE DEF base
<1>3. step \in [1..n -> [D -> D]]
  <2>1. \A i \in 1..n, s \in D : Applied(s, MergeRules[i]) \in D
    BY AppliedSpells
  <2> HIDE DEF D
  <2> QED  BY <2>1
<1>4. PICK g : SetIteration(g, n, D, base, step)
  <2> HIDE DEF n, D, step
  <2> QED  BY <1>1, <1>2, <1>3, SetIterates
<1>5. \A S \in SUBSET (1..n) : S # {} => Max(S) \in 1..n /\ S \ {Max(S)} \in SUBSET (1..n)
  <2> HIDE DEF n
  <2> QED  BY <1>1, LastIndex
<1>6. Folds(g)
  <2> HIDE DEF D
  <2>1. \A S \in SUBSET (1..n) : S # {} =>
          step[Max(S)][g[S \ {Max(S)}]] = Applied(g[S \ {Max(S)}], MergeRules[Max(S)])
    BY <1>4, <1>5 DEF SetIteration
  <2> HIDE DEF step
  <2> QED  BY <1>4, <2>1 DEF SetIteration
<1> DEFINE iter == CHOOSE h : Folds(h)
<1>7. Folds(iter)
  <2> HIDE DEF Folds
  <2> QED  BY <1>6
<1>8. RulesInOrder(b) = iter[1..n]
  BY <1>1 DEF RulesInOrder, FoldLeft, MapThenFoldSet, base, ByteSymbols
<1> HIDE DEF iter
<1> DEFINE f == [i \in 0..n |-> iter[1..i]]
<1>9. f[0] = base
  BY <1>1, <1>7
<1>10. ASSUME NEW i \in 1..n
       PROVE  f[i] = Applied(f[i - 1], MergeRules[i])
  <2>1. 1..i \in SUBSET (1..n) /\ 1..i # {} /\ Max(1..i) = i /\ (1..i) \ {i} = 1..(i - 1)
    <3>1. n \in Nat
      BY <1>1
    <3> HIDE DEF n
    <3>2. i \in Nat \ {0} /\ i \in 1..i /\ 1..i \in SUBSET (1..n)
      BY <3>1
    <3>3. Max(1..i) = i /\ (1..i) \ {i} = 1..(i - 1)
      BY <3>2, InitialIndices
    <3> QED  BY <3>2, <3>3
  <2>2. iter[1..i] = Applied(iter[1..(i - 1)], MergeRules[i])
    BY <1>7, <2>1
  <2>3. i \in 0..n /\ i - 1 \in 0..n
    BY <1>1
  <2> QED  BY <2>2, <2>3
<1>11. RulesInOrder(b) = f[n]
  BY <1>1, <1>8
<1> HIDE DEF f
<1> QED  BY <1>9, <1>10, <1>11 DEF Orders, base

\* Rules that do not fit are passed over: from rank r to the one before m.
LEMMA RanksPassed ==
    ASSUME NEW b, NEW f, Orders(f, b), NEW s \in Seq(Seq(Symbol)),
           NEW r \in 0..Len(MergeRules), f[r] = s, NEW m \in r..Len(MergeRules),
           \A j \in r + 1..m : j \notin RanksIn(s)
    PROVE  f[m] = s
<1> DEFINE n == Len(MergeRules)
           P == {i \in 0..m - r : f[r + i] = s}
<1>1. n \in Nat /\ DOMAIN MergeRules = 1..n /\ r \in Nat /\ m \in Nat /\ m - r \in Nat
  BY MergesAssumption, LenProperties
<1>2. 0 \in P
  BY <1>1
<1>3. ASSUME NEW i \in 1..m - r, i - 1 \in P
      PROVE  i \in P
  <2> DEFINE j == r + i
             rule == MergeRules[j]
  <2>1. j \in 1..n /\ j \in r + 1..m /\ j - 1 = r + (i - 1) /\ i \in 0..m - r
    BY <1>1
  <2>2. f[j - 1] = s
    BY <1>3, <2>1
  <2> HIDE DEF j
  <2>3. f[j] = Applied(s, rule)
    BY <2>1, <2>2 DEF Orders
  <2>4. rule \notin Adjacent(s)
    BY <1>1, <2>1 DEF RanksIn
  <2>5. rule \in Seq(Nat) \X Seq(Nat)
    BY <1>1, <2>1, MergesAssumption, ElementOfSeq
  <2> HIDE DEF rule
  <2>6. <<rule[1], rule[2]>> \notin Adjacent(s)
    <3>1. rule = <<rule[1], rule[2]>>
      BY <2>5
    <3> QED  BY <2>4, <3>1
  <2>7. f[j] = s
    BY <2>3, <2>6, AppliedIdle
  <2> QED  BY <2>1, <2>7 DEF j
<1>4. m - r \in P
  <2> DEFINE k == m - r
  <2>1. k \in Nat
    BY <1>1
  <2>2. \A i \in 1..k : i - 1 \in P => i \in P
    BY <1>3
  <2> HIDE DEF P, k
  <2>3. 0..k \subseteq P
    BY <1>2, <2>1, <2>2, UpTo
  <2> QED  BY <2>1, <2>3 DEF k
<1>5. r + (m - r) = m
  BY <1>1
<1> QED  BY <1>4, <1>5

-----------------------------------------------------------------------------
(* Ids                                                                       *)

\* The ids encode() can give: of entries for bytes, and of special tokens.
Known ==
    {id \in 0..Len(Tokens) - 1 : Tokens[id + 1] \in Seq(Symbol)} \cup {SpecialId[s] : s \in Specials}
\* What decode() makes of an id, and of a sequence of them.
ShownBytes(id, skipped) == IF skipped /\ id >= Len(Tokens) THEN <<>> ELSE TokenBytes(id)
ShownEach(is, skipped) == [i \in DOMAIN is |-> ShownBytes(is[i], skipped)]
Shown(is, skipped) == FlattenSeq(ShownEach(is, skipped))

\* The id of a special token stands for the token.
LEMMA SpecialIsKnown ==
    ASSUME NEW s \in Specials
    PROVE  /\ SpecialId[s] \in Known /\ SpecialId[s] \in Nat /\ SpecialId[s] >= Len(Tokens)
           /\ TokenBytes(SpecialId[s]) = s
           /\ s \in Seq(Byte) /\ s # <<>>
<1>1. SpecialId[s] \in Nat /\ SpecialId[s] >= Len(Tokens) /\ Len(Tokens) \in Nat
  <2>1. Len(Tokens) \in Nat
    BY TokensAssumption, LenProperties
  <2> QED  BY <2>1, TokensAssumption, VocabularyAssumption
<1>2. ~(SpecialId[s] < Len(Tokens))
  BY <1>1
<1>3. \A t \in Specials : SpecialId[t] = SpecialId[s] => t = s
  BY VocabularyAssumption DEF IsInjective, Specials
<1>4. TokenBytes(SpecialId[s]) = s
  <2>1. TokenBytes(SpecialId[s]) = CHOOSE t \in Specials : SpecialId[t] = SpecialId[s]
    BY <1>2 DEF TokenBytes
  <2> QED  BY <1>3, <2>1
<1>5. s \in Seq(Byte) /\ s # <<>>
  BY BytesAssumption, VocabularyAssumption
<1> QED  BY <1>1, <1>4, <1>5 DEF Known

\* An id of the vocabulary stands for the bytes of its entry.
LEMMA TokenIsKnown ==
    ASSUME NEW id \in Nat, id < Len(Tokens), id \in Known
    PROVE  /\ Tokens[id + 1] \in Seq(Symbol) /\ TokenBytes(id) = Text(Tokens[id + 1])
<1>1. \A s \in Specials : SpecialId[s] # id
  <2>1. Len(Tokens) \in Nat
    BY TokensAssumption, LenProperties
  <2>2. \A s \in Specials : SpecialId[s] \in Nat /\ SpecialId[s] >= Len(Tokens)
    BY SpecialIsKnown
  <2> QED  BY <2>1, <2>2
<1> QED  BY <1>1 DEF Known, TokenBytes, Text

\* Looking up a symbol of the vocabulary and going back.
LEMMA TokenIsLookedUp ==
    ASSUME NEW t \in Seq(Symbol), t \in Range(Tokens)
    PROVE  Id(t) \in Known /\ TokenBytes(Id(t)) = Text(t) /\ ~(Id(t) >= Len(Tokens))
<1>1. Len(Tokens) \in Nat /\ DOMAIN Tokens = 1..Len(Tokens)
  BY TokensAssumption, LenProperties
<1>2. PICK k \in 1..Len(Tokens) : Tokens[k] = t
  BY <1>1 DEF Range
<1>3. k - 1 \in 0..Len(Tokens) - 1 /\ Tokens[(k - 1) + 1] = t
  BY <1>1, <1>2
<1> DEFINE id == Id(t)
<1>4. id \in 0..Len(Tokens) - 1 /\ Tokens[id + 1] = t
  BY <1>3 DEF Id
<1>5. id \in Nat /\ id < Len(Tokens) /\ id \in Known
  BY <1>1, <1>4 DEF Known
<1> HIDE DEF id
<1>6. TokenBytes(id) = Text(t)
  BY <1>4, <1>5, TokenIsKnown
<1>7. ~(id >= Len(Tokens))
  BY <1>1, <1>5
<1> QED  BY <1>5, <1>6, <1>7 DEF id

\* Every id stands for bytes.
LEMMA KnownType ==
    ASSUME NEW id \in Known
    PROVE  id \in Nat /\ TokenBytes(id) \in Seq(Byte)
<1>1. CASE id \in {SpecialId[s] : s \in Specials}
  <2>1. PICK s \in Specials : id = SpecialId[s]
    BY <1>1
  <2> QED  BY <2>1, SpecialIsKnown
<1>2. CASE id \notin {SpecialId[s] : s \in Specials}
  <2>1. Len(Tokens) \in Nat
    BY TokensAssumption, LenProperties
  <2>2. id \in 0..Len(Tokens) - 1
    BY <1>2 DEF Known
  <2>3. id \in Nat /\ id < Len(Tokens)
    BY <2>1, <2>2
  <2>4. Tokens[id + 1] \in Seq(Symbol) /\ TokenBytes(id) = Text(Tokens[id + 1])
    BY <2>3, TokenIsKnown
  <2> QED  BY <2>3, <2>4, TextType
<1> QED  BY <1>1, <1>2

\* Of every id the bytes it stands for.
LEMMA ShownEachType ==
    ASSUME NEW is \in Seq(Known), NEW skipped
    PROVE  /\ ShownEach(is, skipped) \in Seq(Seq(Byte))
           /\ Len(ShownEach(is, skipped)) = Len(is)
           /\ \A i \in 1..Len(is) : ShownEach(is, skipped)[i] = ShownBytes(is[i], skipped)
<1> DEFINE E == Seq(Byte)
<1>1. Len(is) \in Nat /\ DOMAIN is = 1..Len(is) /\ \A i \in 1..Len(is) : is[i] \in Known
  BY LenProperties, ElementOfSeq
<1>2. \A id \in Known : ShownBytes(id, skipped) \in E
  <2>1. <<>> \in E
    OBVIOUS
  <2>2. \A id \in Known : TokenBytes(id) \in E
    BY KnownType
  <2> QED  BY <2>1, <2>2 DEF ShownBytes
<1>3. \A i \in 1..Len(is) : ShownBytes(is[i], skipped) \in E
  BY <1>1, <1>2
<1> HIDE DEF E
<1>4. ShownEach(is, skipped) \in Seq(E) /\ Len(ShownEach(is, skipped)) = Len(is)
  BY <1>1, <1>3 DEF ShownEach
<1> QED  BY <1>1, <1>4 DEF E, ShownEach

\* What decode() makes of ids is bytes.
LEMMA ShownType ==
    ASSUME NEW is \in Seq(Known), NEW skipped
    PROVE  Shown(is, skipped) \in Seq(Byte)
BY ShownEachType, FlattenType DEF Shown

\* It makes the same of two parts as of the whole.
LEMMA ShownConcat ==
    ASSUME NEW is \in Seq(Known), NEW js \in Seq(Known), NEW skipped
    PROVE  Shown(is \o js, skipped) = Shown(is, skipped) \o Shown(js, skipped)
<1> DEFINE E == Seq(Byte)
           v == ShownEach(is, skipped)
           w == ShownEach(js, skipped)
           u == ShownEach(is \o js, skipped)
<1>1. /\ is \o js \in Seq(Known) /\ Len(is \o js) = Len(is) + Len(js)
      /\ Len(is) \in Nat /\ Len(js) \in Nat
  BY ConcatProperties, LenProperties
<1>2. /\ v \in Seq(E) /\ w \in Seq(E) /\ u \in Seq(E)
      /\ Len(v) = Len(is) /\ Len(w) = Len(js) /\ Len(u) = Len(is) + Len(js)
  BY <1>1, ShownEachType
<1>3. u = v \o w
  <2>1. \A i \in 1..Len(is) + Len(js) : u[i] = ShownBytes((is \o js)[i], skipped)
    BY <1>1, ShownEachType
  <2>2. \A i \in 1..Len(is) : v[i] = ShownBytes(is[i], skipped)
    BY ShownEachType
  <2>3. \A i \in 1..Len(js) : w[i] = ShownBytes(js[i], skipped)
    BY ShownEachType
  <2> HIDE DEF E, u, v, w
  <2>4. /\ v \o w \in Seq(E) /\ Len(v \o w) = Len(is) + Len(js)
    <3>1. v \in Seq(E) /\ w \in Seq(E)
      BY <1>2
    <3>2. v \o w \in Seq(E) /\ Len(v \o w) = Len(v) + Len(w)
      BY <3>1, ConcatProperties
    <3> QED  BY <1>2, <3>2
  <2>5. ASSUME NEW i \in 1..Len(is) + Len(js)
        PROVE  u[i] = (v \o w)[i]
    <3>1. CASE i <= Len(is)
      <4>1. i \in 1..Len(is) /\ (is \o js)[i] = is[i]
        BY <1>1, <3>1, ConcatProperties
      <4>2. (v \o w)[i] = v[i]
        BY <1>1, <1>2, <3>1, ConcatProperties
      <4> QED  BY <2>1, <2>2, <4>1, <4>2
    <3>2. CASE ~(i <= Len(is))
      <4>1. i - Len(is) \in 1..Len(js) /\ (is \o js)[i] = js[i - Len(is)]
        BY <1>1, <3>2, ConcatProperties
      <4>2. (v \o w)[i] = w[i - Len(is)]
        BY <1>1, <1>2, <3>2, ConcatProperties
      <4> QED  BY <2>1, <2>3, <4>1, <4>2
    <3> QED  BY <3>1, <3>2
  <2> QED  BY <1>2, <2>4, <2>5, SeqEqual
<1> QED  BY <1>2, <1>3, FlattenConcat DEF Shown

\* Of no ids nothing.
LEMMA ShownOfNone == ASSUME NEW skipped PROVE Shown(<<>>, skipped) = <<>>
<1>1. ShownEach(<<>>, skipped) = <<>>
  BY DEF ShownEach
<1> QED  BY <1>1, FlattenEmpty DEF Shown

\* And of one id what it stands for.
LEMMA ShownOfOne ==
    ASSUME NEW id \in Known, NEW skipped
    PROVE  <<id>> \in Seq(Known) /\ Shown(<<id>>, skipped) = ShownBytes(id, skipped)
<1> DEFINE b == ShownBytes(id, skipped)
<1>1. b \in Seq(Byte) /\ <<id>> \in Seq(Known) /\ <<>> \in Seq(Seq(Byte))
  BY KnownType DEF ShownBytes
<1>2. ShownEach(<<id>>, skipped) = Append(<<>>, b)
  BY DEF ShownEach
<1> HIDE DEF b
<1>3. FlattenSeq(Append(<<>>, b)) = <<>> \o b
  BY <1>1, FlattenAppend, FlattenEmpty
<1>4. <<>> \o b = b
  BY <1>1, ConcatEmptySeq
<1> QED  BY <1>1, <1>2, <1>3, <1>4 DEF Shown, b

\* The ids that encode() appends for the symbols of a piece spell the symbols.
LEMMA SymbolsAreShown ==
    ASSUME NEW s \in Seq(Seq(Symbol)), Range(s) \subseteq Range(Tokens), NEW skipped
    PROVE  /\ [i \in DOMAIN s |-> Id(s[i])] \in Seq(Known)
           /\ Shown([i \in DOMAIN s |-> Id(s[i])], skipped) = Text(FlattenSeq(s))
<1> DEFINE is == [i \in DOMAIN s |-> Id(s[i])]
<1>1. Len(s) \in Nat /\ DOMAIN s = 1..Len(s) /\ \A i \in 1..Len(s) : s[i] \in Seq(Symbol)
  BY LenProperties, ElementOfSeq
<1>2. \A i \in 1..Len(s) : s[i] \in Range(Tokens)
  BY <1>1 DEF Range
<1>3. \A i \in 1..Len(s) :
        Id(s[i]) \in Known /\ TokenBytes(Id(s[i])) = Text(s[i]) /\ ~(Id(s[i]) >= Len(Tokens))
  BY <1>1, <1>2, TokenIsLookedUp
<1>4. is \in Seq(Known) /\ DOMAIN is = DOMAIN s
  BY <1>1, <1>3
<1>5. ShownEach(is, skipped) = [i \in DOMAIN s |-> Text(s[i])]
  BY <1>1, <1>3 DEF ShownEach, ShownBytes
<1> HIDE DEF is
<1>6. Shown(is, skipped) = Text(FlattenSeq(s))
  BY <1>5, TextFlatten DEF Shown
<1> QED  BY <1>4, <1>6 DEF is

-----------------------------------------------------------------------------
(* pretokenize()                                                             *)

\* e is where the runes from i on stop to have values in C.
Until(e, r, i, C) ==
    /\ e \in i..Len(r) + 1
    /\ \A k \in i..e - 1 : r[k].value \in C
    /\ e <= Len(r) => r[e].value \notin C
\* Where a run of values in C can stop.
Stops(r, i, C) == {j \in i..Len(r) + 1 : j = Len(r) + 1 \/ r[j].value \notin C}

\* The least stop is where the run ends.
LEMMA FirstStop ==
    ASSUME NEW r \in Seq(Rune), NEW i \in 1..Len(r) + 1, NEW C
    PROVE  Until(Min(Stops(r, i, C)), r, i, C)
<1> DEFINE T == Stops(r, i, C)
<1>1. Len(r) \in Nat
  BY LenProperties
<1>2. T \subseteq Nat /\ Len(r) + 1 \in T
  BY <1>1 DEF Stops
<1>3. Min(T) \in T /\ \A j \in T : Min(T) <= j
  <2> HIDE DEF T
  <2>1. \E x \in T : \A y \in T : x <= y
    BY <1>2, LeastNatural
  <2> QED  BY <2>1 DEF Min
<1> DEFINE e == Min(T)
<1>4. e \in T /\ \A j \in T : e <= j
  BY <1>3
<1> HIDE DEF e
<1>5. e \in i..Len(r) + 1 /\ (e <= Len(r) => r[e].value \notin C)
  BY <1>1, <1>4 DEF Stops
<1>6. \A k \in i..e - 1 : r[k].value \in C
  <2> SUFFICES ASSUME NEW k \in i..e - 1, r[k].value \notin C
               PROVE  FALSE
    OBVIOUS
  <2>1. k \in i..Len(r) + 1 /\ ~(e <= k)
    BY <1>1, <1>5
  <2>2. k \in T
    BY <2>1 DEF Stops
  <2> HIDE DEF T
  <2> QED  BY <1>4, <2>1, <2>2
<1> QED  BY <1>5, <1>6 DEF Until, e

\* The values of runes are numbers.
LEMMA ValuesOfRunes ==
    ASSUME NEW r \in Seq(Rune)
    PROVE  Len(r) \in Nat /\ \A k \in 1..Len(r) : r[k].value \in Nat
<1>1. \A k \in 1..Len(r) : r[k] \in Rune
  BY ElementOfSeq
<1>2. \A x \in Rune : x.value \in Nat
  BY DEF Rune
<1> QED  BY <1>1, <1>2, LenProperties

\* The classes of the pattern as sets.
Letters == {v \in Nat : IsLetter(v)}
Punctuation == {v \in Nat : IsPunctuation(v)}
Newlines == {v \in Nat : IsNewline(v)}
Spaces == {v \in Nat : IsSpace(v)}

\* EndOf() for the classes the pattern uses.
LEMMA EndOfClass ==
    ASSUME NEW r \in Seq(Rune), NEW i \in 1..Len(r) + 1
    PROVE  /\ Until(EndOf(r, i, IsLetter), r, i, Letters)
           /\ Until(EndOf(r, i, IsPunctuation), r, i, Punctuation)
           /\ Until(EndOf(r, i, IsNewline), r, i, Newlines)
           /\ Until(EndOf(r, i, IsSpace), r, i, Spaces)
<1>1. Len(r) \in Nat /\ \A k \in 1..Len(r) : r[k].value \in Nat
  BY ValuesOfRunes
<1>2. \A j \in i..Len(r) + 1 : j = Len(r) + 1 \/ j \in 1..Len(r)
  BY <1>1
<1>3. {j \in i..Len(r) + 1 : j = Len(r) + 1 \/ ~IsLetter(r[j].value)} = Stops(r, i, Letters)
  BY <1>1, <1>2 DEF Stops, Letters
<1>4. {j \in i..Len(r) + 1 : j = Len(r) + 1 \/ ~IsPunctuation(r[j].value)} = Stops(r, i, Punctuation)
  BY <1>1, <1>2 DEF Stops, Punctuation
<1>5. {j \in i..Len(r) + 1 : j = Len(r) + 1 \/ ~IsNewline(r[j].value)} = Stops(r, i, Newlines)
  BY <1>1, <1>2 DEF Stops, Newlines
<1>6. {j \in i..Len(r) + 1 : j = Len(r) + 1 \/ ~IsSpace(r[j].value)} = Stops(r, i, Spaces)
  BY <1>1, <1>2 DEF Stops, Spaces
<1>7. /\ EndOf(r, i, IsLetter) = Min(Stops(r, i, Letters))
      /\ EndOf(r, i, IsPunctuation) = Min(Stops(r, i, Punctuation))
      /\ EndOf(r, i, IsNewline) = Min(Stops(r, i, Newlines))
      /\ EndOf(r, i, IsSpace) = Min(Stops(r, i, Spaces))
  BY <1>3, <1>4, <1>5, <1>6, Zenon DEF EndOf
<1> QED  BY <1>7, FirstStop

\* How the classes are related, for the order of the alternatives.
LEMMA Classes ==
    ASSUME NEW v \in Nat
    PROVE  /\ IsLetter(v) => ~IsNewline(v) /\ ~IsNumber(v)
           /\ IsNumber(v) => ~IsNewline(v)
           /\ IsPunctuation(v) => v # 32
           /\ IsSpace(v) \/ IsLetter(v) \/ IsNumber(v) \/ IsPunctuation(v)
<1>1. IsNumber(v) => v >= 48 /\ v <= 57
  BY DEF IsNumber
<1>2. IsNewline(v) => v = 10 \/ v = 13
  BY DEF IsNewline
<1>3. IsLetter(v) => v >= 65
  BY DEF IsLetter
<1>4. IsPunctuation(v) => v # 32
  BY DEF IsPunctuation, IsSpace
<1>5. IsSpace(v) \/ IsLetter(v) \/ IsNumber(v) \/ IsPunctuation(v)
  BY DEF IsPunctuation
<1> QED  BY <1>1, <1>2, <1>3, <1>4, <1>5

\* A part of the runes that is a piece.
LEMMA PartOfRunes ==
    ASSUME NEW r \in Seq(Rune), NEW i \in 1..Len(r), NEW e \in i + 1..Len(r) + 1
    PROVE  /\ SubSeq(r, i, e - 1) \in Seq(Rune)
           /\ Len(SubSeq(r, i, e - 1)) = e - i
           /\ \A k \in 1..e - i : i + k - 1 \in 1..Len(r) /\ SubSeq(r, i, e - 1)[k] = r[i + k - 1]
<1>1. Len(r) \in Nat /\ \A k \in 1..Len(r) : r[k] \in Rune
  BY LenProperties, ElementOfSeq
<1>2. i \in Int /\ e - 1 \in Int /\ i..e - 1 \subseteq 1..Len(r) /\ (e - 1) - i + 1 = e - i /\ i <= e - 1
  BY <1>1
<1>3. \A k \in i..e - 1 : r[k] \in Rune
  BY <1>1, <1>2
<1>4. /\ SubSeq(r, i, e - 1) \in Seq(Rune)
      /\ Len(SubSeq(r, i, e - 1)) = IF i <= e - 1 THEN (e - 1) - i + 1 ELSE 0
      /\ \A k \in 1..(e - 1) - i + 1 : SubSeq(r, i, e - 1)[k] = r[i + k - 1]
  BY <1>2, <1>3, SubSeqProperties
<1>5. \A k \in 1..e - i : i + k - 1 \in 1..Len(r)
  BY <1>1
<1> QED  BY <1>2, <1>4, <1>5

\* The letters behind an apostrophe.
LEMMA ContractionsAreShort ==
    \A s \in Contractions : s \in Seq(Nat) /\ Len(s) \in 1..2
<1> SUFFICES ASSUME NEW s \in Contractions
             PROVE  s \in Seq(Nat) /\ Len(s) \in 1..2
  OBVIOUS
<1> DEFINE Singles == {<<115>>, <<116>>, <<109>>, <<100>>}
           Doubles == {<<114, 101>>, <<118, 101>>, <<108, 108>>}
<1>1. s \in Singles \/ s \in Doubles
  BY DEF Contractions
<1>2. \A a \in Nat : <<a>> \in Seq(Nat) /\ Len(<<a>>) = 1
  OBVIOUS
<1>3. \A a, b \in Nat : <<a, b>> \in Seq(Nat) /\ Len(<<a, b>>) = 2
  OBVIOUS
<1>4. CASE s \in Singles
  <2>1. \E a \in Nat : s = <<a>>
    BY <1>4
  <2> QED  BY <1>2, <2>1
<1>5. CASE s \in Doubles
  <2>1. \E a, b \in Nat : s = <<a, b>>
    BY <1>5
  <2> QED  BY <1>3, <2>1
<1> QED  BY <1>1, <1>4, <1>5

\* PieceEnd(), alternative by alternative.
LEMMA PieceEnds ==
    ASSUME NEW r \in Seq(Rune), NEW i \in 1..Len(r)
    PROVE  /\ PieceEnd(r, i) \in i + 1..Len(r) + 1
           /\ IsPiece(SubSeq(r, i, PieceEnd(r, i) - 1))
<1> DEFINE n == Len(r)
           v == r[i].value
           e == PieceEnd(r, i)
           p(to) == SubSeq(r, i, to - 1)
<1>1. n \in Nat /\ i \in 1..n /\ i \in Nat /\ \A k \in 1..n : r[k].value \in Nat
  BY ValuesOfRunes
<1>2. v \in Nat
  BY <1>1
<1>3. ASSUME NEW to \in i + 1..n + 1
      PROVE  /\ p(to) \in Seq(Rune) /\ Len(p(to)) = to - i
             /\ \A k \in 1..to - i : i + k - 1 \in 1..n /\ p(to)[k] = r[i + k - 1]
  BY PartOfRunes
<1>4. CASE ContractionAt(r, i) # {}
  <2> DEFINE s == CHOOSE s \in ContractionAt(r, i) : TRUE
  <2>1. s \in ContractionAt(r, i)
    BY <1>4
  <2>2. e = i + 1 + Len(s)
    BY <1>4 DEF PieceEnd
  <2> HIDE DEF s, e
  <2>3. /\ s \in Contractions /\ r[i].value = 39 /\ i + Len(s) <= n
        /\ \A k \in 1..Len(s) : Lower(r[i + k].value) = s[k]
    BY <2>1 DEF ContractionAt
  <2>4. s \in Seq(Nat) /\ Len(s) \in 1..2
    BY <2>3, ContractionsAreShort
  <2>5. e \in i + 1..n + 1 /\ e - i = Len(s) + 1
    BY <1>1, <2>2, <2>3, <2>4
  <2> DEFINE q == p(e)
  <2>6. q \in Seq(Rune) /\ Len(q) = e - i /\ \A k \in 1..e - i : q[k] = r[i + k - 1]
    BY <1>3, <2>5
  <2> HIDE DEF q, p
  <2>7. Len(q) > 1 /\ Len(q) - 1 = Len(s)
    BY <1>1, <2>4, <2>5, <2>6
  <2>8. q[1].value = 39
    <3>1. 1 \in 1..e - i /\ i + 1 - 1 = i
      BY <1>1, <2>4, <2>5
    <3> QED  BY <2>3, <2>6, <3>1
  <2>9. \A k \in 1..Len(s) : Lower(q[k + 1].value) = s[k]
    <3> SUFFICES ASSUME NEW k \in 1..Len(s)
                 PROVE  Lower(q[k + 1].value) = s[k]
      OBVIOUS
    <3>1. k + 1 \in 1..e - i /\ i + (k + 1) - 1 = i + k
      BY <1>1, <2>4, <2>5
    <3>2. q[k + 1] = r[i + k]
      BY <2>6, <3>1
    <3> QED  BY <2>3, <3>2
  <2>10. [k \in 1..Len(q) - 1 |-> Lower(q[k + 1].value)] = s
    <3>1. s = [k \in 1..Len(s) |-> s[k]]
      BY <2>4
    <3> QED  BY <2>7, <2>9, <3>1
  <2>11. IsPiece(q)
    BY <2>3, <2>7, <2>8, <2>10 DEF IsPiece
  <2> QED  BY <2>5, <2>11 DEF q, p, e
<1>5. CASE ContractionAt(r, i) = {} /\ IsLetter(v)
  <2>1. e = EndOf(r, i, IsLetter)
    BY <1>5 DEF PieceEnd
  <2> HIDE DEF e
  <2>2. Until(e, r, i, Letters)
    BY <1>1, <2>1, EndOfClass
  <2>3. v \in Letters
    BY <1>2, <1>5 DEF Letters
  <2>4. e \in i + 1..n + 1 /\ \A k \in i..e - 1 : r[k].value \in Letters
    BY <1>1, <2>2, <2>3 DEF Until
  <2> DEFINE q == p(e)
  <2>5. q \in Seq(Rune) /\ Len(q) = e - i /\ \A k \in 1..e - i : q[k] = r[i + k - 1]
    BY <1>3, <2>4
  <2> HIDE DEF q, p, v
  <2>6. \A k \in 1..Len(q) : q[k].value \in Letters
    <3>1. \A k \in 1..e - i : i + k - 1 \in i..e - 1
      BY <1>1, <2>4
    <3> QED  BY <2>4, <2>5, <3>1
  <2>7. q[1].value \in Letters
    <3>1. 1 \in 1..Len(q)
      BY <1>1, <2>4, <2>5
    <3> QED  BY <2>6, <3>1
  <2>8. OnlyFrom(q, 2, IsLetter)
    <3>1. \A k \in 2..Len(q) : k \in 1..Len(q)
      BY <1>1, <2>4, <2>5
    <3>2. \A k \in 2..Len(q) : IsLetter(q[k].value)
      BY <2>6, <3>1 DEF Letters
    <3> QED  BY <3>2 DEF OnlyFrom
  <2>9. ~IsNewline(q[1].value) /\ ~IsNumber(q[1].value)
    BY <2>7, Classes DEF Letters
  <2>10. IsPiece(q)
    BY <2>8, <2>9 DEF IsPiece
  <2> QED  BY <2>4, <2>10 DEF q, p, e
<1>6. CASE /\ ContractionAt(r, i) = {} /\ ~IsLetter(v)
           /\ ~IsNewline(v) /\ ~IsNumber(v) /\ i < n /\ IsLetter(r[i + 1].value)
  <2>1. e = EndOf(r, i + 1, IsLetter)
    BY <1>6 DEF PieceEnd
  <2> HIDE DEF e
  <2>2. i + 1 \in 1..n /\ i + 1 \in 1..n + 1
    BY <1>1, <1>6
  <2>3. Until(e, r, i + 1, Letters)
    BY <2>1, <2>2, EndOfClass
  <2>4. e \in i + 1..n + 1 /\ \A k \in i + 1..e - 1 : r[k].value \in Letters
    BY <2>3 DEF Until
  <2> DEFINE q == p(e)
  <2>5. q \in Seq(Rune) /\ Len(q) = e - i /\ \A k \in 1..e - i : q[k] = r[i + k - 1]
    BY <1>3, <2>4
  <2> HIDE DEF q, p
  <2>6. OnlyFrom(q, 2, IsLetter)
    <3>1. \A k \in 2..Len(q) : k \in 1..e - i /\ i + k - 1 \in i + 1..e - 1
      BY <1>1, <2>4, <2>5
    <3>2. \A k \in 2..Len(q) : IsLetter(q[k].value)
      BY <2>4, <2>5, <3>1 DEF Letters
    <3> QED  BY <3>2 DEF OnlyFrom
  <2>7. q[1].value = v
    <3>1. 1 \in 1..e - i /\ i + 1 - 1 = i
      BY <1>1, <2>4
    <3> QED  BY <2>5, <3>1
  <2>8. IsPiece(q)
    BY <1>6, <2>6, <2>7 DEF IsPiece
  <2> QED  BY <2>4, <2>8 DEF q, p, e
<1>7. CASE /\ ContractionAt(r, i) = {} /\ ~IsLetter(v)
           /\ IsNumber(v)
  <2>1. e = i + 1
    BY <1>7 DEF PieceEnd, NumberEnd
  <2> HIDE DEF e
  <2>2. e \in i + 1..n + 1
    BY <1>1, <2>1
  <2> DEFINE q == p(e)
  <2>3. q \in Seq(Rune) /\ Len(q) = e - i /\ \A k \in 1..e - i : q[k] = r[i + k - 1]
    BY <1>3, <2>2
  <2> HIDE DEF q, p
  <2>4. Len(q) = 1 /\ q[1].value = v
    <3>1. 1 \in 1..e - i /\ i + 1 - 1 = i /\ e - i = 1
      BY <1>1, <2>1
    <3> QED  BY <2>3, <3>1
  <2>5. OnlyFrom(q, 2, IsLetter)
    BY <2>4 DEF OnlyFrom
  <2>6. ~IsNewline(v)
    BY <1>2, <1>7, Classes
  <2> HIDE DEF v
  <2>7. ~IsNewline(q[1].value) /\ ~(Len(q) > 1)
    BY <2>4, <2>6
  <2>8. IsPiece(q)
    BY <2>5, <2>7 DEF IsPiece
  <2> QED  BY <2>2, <2>8 DEF q, p, e
<1> DEFINE Signs == (v = 32 /\ i < n /\ IsPunctuation(r[i + 1].value)) \/ IsPunctuation(v)
           Otherwise == /\ ContractionAt(r, i) = {} /\ ~IsLetter(v) /\ ~IsNumber(v)
                        /\ ~(~IsNewline(v) /\ ~IsNumber(v) /\ i < n /\ IsLetter(r[i + 1].value))
<1>8. CASE Otherwise /\ Signs
  <2> DEFINE from == IF v = 32 THEN 2 ELSE 1
             m == EndOf(r, i + from - 1, IsPunctuation)
  <2>1. from \in 1..2 /\ i + from - 1 \in 1..n
    <3>1. CASE v = 32
      <4>1. ~IsPunctuation(v)
        BY <1>2, <3>1, Classes
      <4>2. i < n
        BY <1>8, <4>1
      <4> QED  BY <1>1, <3>1, <4>2
    <3>2. CASE v # 32
      BY <1>1, <3>2
    <3> QED  BY <3>1, <3>2
  <2>2. e = EndOf(r, m, IsNewline)
    <3>1. IF v = 32 THEN i + 1 = i + from - 1 ELSE i = i + from - 1
      BY <1>1
    <3> HIDE DEF from
    <3> QED  BY <1>8, <3>1 DEF PieceEnd
  <2>3. r[i + from - 1].value \in Punctuation
    <3>1. CASE v = 32
      <4>1. ~IsPunctuation(v)
        BY <1>2, <3>1, Classes
      <4>2. from = 2 /\ i + from - 1 = i + 1 /\ i + 1 \in 1..n
        BY <1>1, <2>1, <3>1
      <4> QED  BY <1>1, <1>8, <4>1, <4>2 DEF Punctuation
    <3>2. CASE v # 32
      <4>1. i + from - 1 = i
        BY <1>1, <3>2
      <4> QED  BY <1>2, <1>8, <3>2, <4>1 DEF Punctuation
    <3> QED  BY <3>1, <3>2
  <2>4. from = 2 => v = 32
    OBVIOUS
  <2> HIDE DEF from, m, e, v
  <2>5. Until(m, r, i + from - 1, Punctuation)
    <3>1. i + from - 1 \in 1..Len(r) + 1
      BY <1>1, <2>1
    <3> QED  BY <3>1, EndOfClass DEF m
  <2>6. m \in i + from..n + 1 /\ \A k \in i + from - 1..m - 1 : r[k].value \in Punctuation
    BY <1>1, <2>1, <2>3, <2>5 DEF Until
  <2>7. Until(e, r, m, Newlines)
    <3>1. m \in 1..Len(r) + 1
      BY <1>1, <2>1, <2>6
    <3> QED  BY <2>2, <3>1, EndOfClass
  <2>8. e \in m..n + 1 /\ \A k \in m..e - 1 : r[k].value \in Newlines
    BY <2>7 DEF Until
  <2>9. e \in i + 1..n + 1
    BY <1>1, <2>1, <2>6, <2>8
  <2> DEFINE q == p(e)
             to == m - i
  <2>10. q \in Seq(Rune) /\ Len(q) = e - i /\ \A k \in 1..e - i : q[k] = r[i + k - 1]
    BY <1>3, <2>9
  <2> HIDE DEF q, p
  <2>11. to \in from..Len(q) /\ m - 1 = i + to - 1 /\ to \in Nat
    BY <1>1, <2>1, <2>6, <2>8, <2>10
  <2>12. from = 2 => q[1].value = 32
    <3>1. 1 \in 1..e - i /\ i + 1 - 1 = i
      BY <1>1, <2>9
    <3> QED  BY <2>4, <2>10, <3>1 DEF v
  <2>13. OnlyFrom(SubSeq(q, 1, to), from, IsPunctuation)
    <3> DEFINE w == SubSeq(q, 1, to)
    <3>1. Len(w) = to /\ \A k \in 1..to : w[k] = q[k]
      <4>1. 1 \in 1..Len(q) /\ to + 1 \in 1 + 1..Len(q) + 1 /\ (to + 1) - 1 = to
        <5> HIDE DEF to
        <5>1. Len(q) \in Nat /\ 1 <= from /\ from <= to /\ to <= Len(q) /\ from \in Nat
          BY <1>1, <2>1, <2>9, <2>10, <2>11
        <5>2. 1 <= to
          BY <2>11, <5>1
        <5> QED  BY <2>11, <5>1, <5>2
      <4>2. /\ Len(SubSeq(q, 1, (to + 1) - 1)) = (to + 1) - 1
            /\ \A k \in 1..(to + 1) - 1 : SubSeq(q, 1, (to + 1) - 1)[k] = q[1 + k - 1]
        <5> DEFINE z == to + 1
        <5>1. z \in 1 + 1..Len(q) + 1
          BY <4>1
        <5> HIDE DEF z, to
        <5>2. /\ Len(SubSeq(q, 1, z - 1)) = z - 1
              /\ \A k \in 1..z - 1 : SubSeq(q, 1, z - 1)[k] = q[1 + k - 1]
          BY <2>10, <4>1, <5>1, PartOfRunes
        <5> QED  BY <5>2 DEF z
      <4>3. \A k \in 1..to : 1 + k - 1 = k
        BY <2>11
      <4> HIDE DEF to
      <4> QED  BY <4>1, <4>2, <4>3
    <3>2. \A k \in from..to : k \in 1..e - i /\ k \in 1..to /\ i + k - 1 \in i + from - 1..m - 1
      BY <1>1, <2>1, <2>6, <2>8, <2>10, <2>11
    <3> HIDE DEF w, to
    <3>3. \A k \in from..to : IsPunctuation(w[k].value)
      BY <2>6, <2>10, <3>1, <3>2 DEF Punctuation
    <3> QED  BY <3>1, <3>3 DEF OnlyFrom, w
  <2>14. OnlyFrom(q, to + 1, IsNewline)
    <3>1. \A k \in to + 1..Len(q) : k \in 1..e - i /\ i + k - 1 \in m..e - 1
      BY <1>1, <2>1, <2>6, <2>8, <2>10, <2>11
    <3> HIDE DEF to
    <3>2. \A k \in to + 1..Len(q) : IsNewline(q[k].value)
      BY <2>8, <2>10, <3>1 DEF Newlines
    <3> QED  BY <3>2 DEF OnlyFrom
  <2> HIDE DEF to
  <2>15. IsPiece(q)
    <3>1. \E a \in 1..2 : \E b \in a..Len(q) :
            /\ a = 2 => q[1].value = 32
            /\ OnlyFrom(SubSeq(q, 1, b), a, IsPunctuation)
            /\ OnlyFrom(q, b + 1, IsNewline)
      BY <2>1, <2>11, <2>12, <2>13, <2>14
    <3> QED  BY <3>1 DEF IsPiece
  <2> QED  BY <2>9, <2>15 DEF q, p, e
<1>9. CASE Otherwise /\ ~Signs
  <2>1. e = EndOf(r, i, IsSpace)
    BY <1>9 DEF PieceEnd, SpaceEnd
  <2>2. v \in Spaces
    <3>1. IsSpace(v)
      BY <1>2, <1>9, Classes
    <3> QED  BY <1>2, <3>1 DEF Spaces
  <2> HIDE DEF e
  <2>3. Until(e, r, i, Spaces)
    BY <1>1, <2>1, EndOfClass
  <2>4. e \in i + 1..n + 1 /\ \A k \in i..e - 1 : r[k].value \in Spaces
    BY <1>1, <2>2, <2>3 DEF Until
  <2> DEFINE q == p(e)
  <2>5. q \in Seq(Rune) /\ Len(q) = e - i /\ \A k \in 1..e - i : q[k] = r[i + k - 1]
    BY <1>3, <2>4
  <2> HIDE DEF q, p, v
  <2>6. OnlyFrom(q, 1, IsSpace)
    <3>1. \A k \in 1..Len(q) : k \in 1..e - i /\ i + k - 1 \in i..e - 1
      BY <1>1, <2>4, <2>5
    <3>2. \A k \in 1..Len(q) : IsSpace(q[k].value)
      BY <2>4, <2>5, <3>1 DEF Spaces
    <3> QED  BY <3>2 DEF OnlyFrom
  <2>7. IsPiece(q)
    BY <2>6 DEF IsPiece
  <2> QED  BY <2>4, <2>7 DEF q, p, e
<1> QED  BY <1>4, <1>5, <1>6, <1>7, <1>8, <1>9

-----------------------------------------------------------------------------
(* What of a sequence is left behind a position                              *)

\* What is behind the first k elements.
Rest(s, k) == SubSeq(s, k + 1, Len(s))

\* It is a sequence over the same set.
LEMMA RestType ==
    ASSUME NEW S, NEW s \in Seq(S), NEW k \in 0..Len(s)
    PROVE  Rest(s, k) \in Seq(S)
<1>1. Len(s) \in Nat /\ \A i \in 1..Len(s) : s[i] \in S
  BY LenProperties, ElementOfSeq
<1>2. k + 1 \in Int /\ Len(s) \in Int /\ \A i \in k + 1..Len(s) : s[i] \in S
  BY <1>1
<1> QED  BY <1>2, SubSeqProperties DEF Rest

\* Behind nothing is everything.
LEMMA RestOfAll ==
    ASSUME NEW S, NEW s \in Seq(S)
    PROVE  Rest(s, 0) = s
<1>1. 0 + 1 = 1
  OBVIOUS
<1> QED  BY <1>1, SubSeqFull DEF Rest

\* Behind everything is nothing.
LEMMA RestOfNone ==
    ASSUME NEW S, NEW s \in Seq(S)
    PROVE  Rest(s, Len(s)) = <<>>
<1>1. Len(s) \in Int /\ Len(s) + 1 \in Int /\ Len(s) < Len(s) + 1
  BY LenProperties
<1> QED  BY <1>1, SubSeqEmpty DEF Rest

\* And behind nothing of nothing.
LEMMA RestOfEmpty == Rest(<<>>, 0) = <<>>
  BY EmptySeq, RestOfAll

\* It splits at any later position.
LEMMA RestSplits ==
    ASSUME NEW S, NEW s \in Seq(S), NEW k \in 0..Len(s), NEW m \in k..Len(s)
    PROVE  /\ SubSeq(s, k + 1, m) \in Seq(S)
           /\ Rest(s, k) = SubSeq(s, k + 1, m) \o Rest(s, m)
<1>1. Len(s) \in Nat /\ \A i \in 1..Len(s) : s[i] \in S
  BY LenProperties, ElementOfSeq
<1>2. k + 1 \in Int /\ m \in Int /\ \A i \in k + 1..m : s[i] \in S
  BY <1>1
<1>3. SubSeq(s, k + 1, m) \in Seq(S)
  BY <1>2, SubSeqProperties
<1>4. /\ k + 1 \in 1..Len(s) + 1 /\ m \in (k + 1) - 1..Len(s) /\ Len(s) \in m..Len(s)
  BY <1>1
<1>5. SubSeq(s, k + 1, m) \o SubSeq(s, m + 1, Len(s)) = SubSeq(s, k + 1, Len(s))
  BY <1>4, ConcatAdjacentSubSeq
<1> QED  BY <1>3, <1>5 DEF Rest

\* It starts with the next element.
LEMMA RestStarts ==
    ASSUME NEW S, NEW s \in Seq(S), NEW k \in 0..Len(s), k < Len(s)
    PROVE  s[k + 1] \in S /\ k + 1 \in 1..Len(s) /\ Rest(s, k) = <<s[k + 1]>> \o Rest(s, k + 1)
<1>1. Len(s) \in Nat
  BY LenProperties
<1>2. k + 1 \in 1..Len(s) /\ Len(s) \in k + 1..Len(s)
  BY <1>1
<1>3. s[k + 1] \in S
  BY <1>2, ElementOfSeq
<1>4. SubSeq(s, k + 1, Len(s)) = <<s[k + 1]>> \o SubSeq(s, (k + 1) + 1, Len(s))
  BY <1>2, SubSeqRecursiveFirst
<1> QED  BY <1>2, <1>3, <1>4 DEF Rest

\* Three sequences of bytes, however grouped.
Rejoins(a, b, c) == (a \o b) \o c = a \o (b \o c)

LEMMA Rejoin ==
    ASSUME NEW a \in Seq(Byte), NEW b \in Seq(Byte), NEW c \in Seq(Byte)
    PROVE  Rejoins(a, b, c)
BY ConcatAssociative DEF Rejoins

\* Bytes can be taken from the front of what is left to what is done.
Regroups(a, b, c, d) ==
    /\ a \o ((b \o c) \o d) = a \o (b \o (c \o d))
    /\ (a \o b) \o (c \o d) = a \o (b \o (c \o d))
    /\ (a \o b) \o (c \o d) = (a \o (b \o c)) \o d

\* Concatenation of four sequences, however grouped.
LEMMA Regroup ==
    ASSUME NEW a \in Seq(Byte), NEW b \in Seq(Byte), NEW c \in Seq(Byte), NEW d \in Seq(Byte)
    PROVE  Regroups(a, b, c, d)
<1>1. b \o c \in Seq(Byte) /\ c \o d \in Seq(Byte) /\ a \o b \in Seq(Byte)
  BY ConcatProperties
<1>2. Rejoins(b, c, d) /\ Rejoins(a, b, c)
  BY Rejoin
<1>3. Rejoins(a, b, c \o d) /\ Rejoins(a \o b, c, d)
  BY <1>1, Rejoin
<1>4. (b \o c) \o d = b \o (c \o d) /\ (a \o b) \o c = a \o (b \o c)
  BY <1>2 DEF Rejoins
<1>5. /\ (a \o b) \o (c \o d) = a \o (b \o (c \o d))
      /\ ((a \o b) \o c) \o d = (a \o b) \o (c \o d)
  BY <1>3 DEF Rejoins
<1> QED  BY <1>4, <1>5 DEF Regroups

-----------------------------------------------------------------------------
(* The inductive invariant                                                   *)

\* Every variable has its type; ids are ids encode() can give.
Types ==
    /\ text \in Seq(Byte) /\ offset \in 0..Len(text)
    /\ skip \in BOOLEAN
    /\ special \in Specials \cup {NoSpecial}
    /\ runes \in Seq(Rune) /\ index \in 0..Len(runes)
    /\ symbols \in Seq(Seq(Symbol)) /\ piece \in Seq(Rune)
    /\ ids \in Seq(Known) /\ position \in 0..Len(ids)
    /\ encoded \in Seq(Symbol) /\ output \in Seq(Byte)
    /\ phase \in {"segment", "piece", "merge", "decode", "done", "threw"}

\* What a phase has left behind, and what it has not begun.
Staged ==
    /\ phase \in {"segment", "decode", "done"} => special = NoSpecial /\ runes = <<>>
    /\ phase # "merge" => symbols = <<>>
    /\ phase \in {"piece", "merge"} /\ special # NoSpecial => OccursAt(special, offset)
    /\ phase \in {"decode", "done"} => offset = Len(text)
    /\ phase \notin {"decode", "done"} => position = 0 /\ encoded = <<>> /\ output = <<>>

\* The text, from what is encoded to what is not.
Encoding ==
    phase # "threw" =>
        Shown(ids, FALSE) \o (Text(FlattenSeq(symbols))
            \o (Bytes(Rest(runes, index)) \o Rest(text, offset))) = text

\* What decode() has put out, what it holds back and what it has yet to read.
Decoding ==
    /\ phase = "decode" =>
        (output \o Text(encoded)) \o Shown(Rest(ids, position), skip) = Shown(ids, skip)
    /\ phase = "done" => output = Shown(ids, skip)

\* Inductive: no step can lose, repeat or reorder a byte.
IInv == Types /\ Staged /\ Encoding /\ Decoding

\* Nothing adds nothing.
LEMMA Nothing ==
    /\ Text(<<>>) = <<>>
    /\ Text(FlattenSeq(<<>>)) = <<>>
    /\ Bytes(Rest(<<>>, 0)) = <<>>
    /\ \A q \in Seq(Byte) : <<>> \o q = q /\ q \o <<>> = q
<1>1. Text(<<>>) = <<>>
  BY DEF Text
<1>2. \A q \in Seq(Byte) : <<>> \o q = q /\ q \o <<>> = q
  BY ConcatEmptySeq
<1> QED  BY <1>1, <1>2, FlattenEmpty, RestOfEmpty, BytesOfNone

\* The parts of the equations of the invariant are sequences of bytes.
LEMMA PartsAreBytes ==
    ASSUME Types
    PROVE  /\ Shown(ids, FALSE) \in Seq(Byte)
           /\ FlattenSeq(symbols) \in Seq(Symbol)
           /\ Text(FlattenSeq(symbols)) \in Seq(Byte)
           /\ Rest(runes, index) \in Seq(Rune)
           /\ Bytes(Rest(runes, index)) \in Seq(Byte)
           /\ Rest(text, offset) \in Seq(Byte)
           /\ Text(encoded) \in Seq(Byte)
           /\ Rest(ids, position) \in Seq(Known)
           /\ Shown(Rest(ids, position), skip) \in Seq(Byte)
<1>1. FlattenSeq(symbols) \in Seq(Symbol)
  BY FlattenType DEF Types
<1>2. Rest(runes, index) \in Seq(Rune) /\ Rest(text, offset) \in Seq(Byte)
  BY RestType DEF Types
<1>3. Rest(ids, position) \in Seq(Known)
  BY RestType DEF Types
<1>4. Shown(ids, FALSE) \in Seq(Byte) /\ Shown(Rest(ids, position), skip) \in Seq(Byte)
  BY <1>3, ShownType DEF Types
<1>5. Text(FlattenSeq(symbols)) \in Seq(Byte) /\ Text(encoded) \in Seq(Byte)
  BY <1>1, TextType DEF Types
<1>6. Bytes(Rest(runes, index)) \in Seq(Byte)
  BY <1>2, BytesType
<1> QED  BY <1>1, <1>2, <1>3, <1>4, <1>5, <1>6

\* An input is bytes, and all of it is left to encode.
LEMMA InitEstablishes == Init => IInv
<1> SUFFICES ASSUME Init PROVE IInv
  OBVIOUS
<1>1. text \in Seq(Byte)
  <2>1. CASE text \in Texts
    BY <2>1, BytesAssumption
  <2>2. CASE text \in {ChatPrompt(p) : p \in Prompts}
    <3>1. PICK p \in Prompts : text = Before \o p \o After
      BY <2>2 DEF ChatPrompt
    <3>2. Before \in Seq(Byte) /\ p \in Seq(Byte) /\ After \in Seq(Byte)
      BY BytesAssumption
    <3>3. Before \o p \in Seq(Byte)
      BY <3>2, ConcatProperties
    <3>4. (Before \o p) \o After \in Seq(Byte)
      BY <3>2, <3>3, ConcatProperties
    <3> QED  BY <3>1, <3>4
  <2> QED  BY <2>1, <2>2 DEF Init
<1>2. Types
  <2>1. Len(text) \in Nat
    BY <1>1, LenProperties
  <2> QED  BY <1>1, <2>1 DEF Init, Types, NoSpecial
<1>3. Staged
  BY DEF Init, Staged, NoSpecial
<1>4. Encoding
  BY <1>1, Nothing, ShownOfNone, RestOfAll DEF Init, Encoding
<1>5. Decoding
  BY DEF Init, Decoding
<1> QED  BY <1>2, <1>3, <1>4, <1>5 DEF IInv

-----------------------------------------------------------------------------
(* Every step preserves it                                                   *)

\* The next special token, or the end, is behind what is encoded.
LEMMA SegmentEnds ==
    ASSUME Types
    PROVE  /\ Min(Occurrences \cup {Len(text)}) \in offset..Len(text)
           /\ Min(Occurrences \cup {Len(text)}) = Len(text)
                \/ \E s \in Specials : OccursAt(s, Min(Occurrences \cup {Len(text)}))
<1> DEFINE T == Occurrences \cup {Len(text)}
<1>1. Len(text) \in Nat /\ offset \in 0..Len(text)
  BY LenProperties DEF Types
<1>2. T \subseteq offset..Len(text) /\ T # {}
  BY <1>1 DEF Occurrences
<1> HIDE DEF T
<1>3. T \subseteq Nat
  BY <1>1, <1>2
<1>4. \E x \in T : \A y \in T : x <= y
  BY <1>2, <1>3, LeastNatural
<1>5. Min(T) \in T
  BY <1>4 DEF Min
<1>6. Min(T) \in offset..Len(text)
  BY <1>2, <1>5
<1>7. Min(T) = Len(text) \/ \E s \in Specials : OccursAt(s, Min(T))
  <2>1. CASE Min(T) \in Occurrences
    BY <2>1 DEF Occurrences
  <2>2. CASE Min(T) \notin Occurrences
    BY <1>5, <2>2 DEF T
  <2> QED  BY <2>1, <2>2
<1> QED  BY <1>6, <1>7 DEF T

\* A plain part has the bytes of its runes.
LEMMA SegmentPreserves == IInv /\ Segment => IInv'
<1> SUFFICES ASSUME IInv, Segment PROVE IInv'
  OBVIOUS
<1> DEFINE end == Min(Occurrences \cup {Len(text)})
           plain == SubSeq(text, offset + 1, end)
<1>1. /\ Types /\ text \in Seq(Byte) /\ offset \in 0..Len(text) /\ Len(text) \in Nat
      /\ runes = <<>> /\ index = 0 /\ symbols = <<>>
      /\ position = 0 /\ encoded = <<>> /\ output = <<>>
  BY LenProperties DEF IInv, Types, Staged, Segment
<1>2. end \in offset..Len(text) /\ (end = Len(text) \/ \E s \in Specials : OccursAt(s, end))
  BY <1>1, SegmentEnds
<1>3. plain \in Seq(Byte) /\ Rest(text, offset) = plain \o Rest(text, end)
  BY <1>1, <1>2, RestSplits
<1>4. Decoded(plain).runes \in Seq(Rune) /\ Bytes(Decoded(plain).runes) = plain
  BY <1>3, DecodedBytes
<1>5. UNCHANGED <<text, symbols, piece, ids, decoding, skip>> /\ index' = 0
  BY DEF Segment
<1>6. CASE IsUtf8(plain)
  <2>1. /\ runes' = Decoded(plain).runes /\ offset' = end /\ phase' = "piece"
        /\ special' = IF end = Len(text) THEN NoSpecial ELSE CHOOSE s \in Specials : OccursAt(s, end)
    BY <1>6 DEF Segment
  <2> HIDE DEF end, plain
  <2>2. special' = NoSpecial \/ (special' \in Specials /\ OccursAt(special', end))
    BY <1>2, <2>1
  <2>3. Types'
    <3>1. Len(runes') \in Nat /\ runes' \in Seq(Rune) /\ offset' \in 0..Len(text)
      BY <1>1, <1>2, <1>4, <2>1, LenProperties
    <3> QED  BY <1>1, <1>5, <2>1, <2>2, <3>1 DEF Types, decoding
  <2>4. Staged'
    <3>1. special' # NoSpecial => OccursAt(special, offset)'
      BY <1>5, <2>1, <2>2 DEF OccursAt
    <3> QED  BY <1>1, <1>5, <2>1, <3>1 DEF Staged, decoding
  <2>5. Encoding'
    <3>1. Rest(runes', 0) = runes'
      BY <1>4, <2>1, RestOfAll
    <3>2. Shown(ids, FALSE) \o (<<>> \o (<<>> \o Rest(text, offset))) = text
      BY <1>1, Nothing DEF IInv, Encoding, Segment
    <3>3. Rest(text, offset) \in Seq(Byte) /\ <<>> \o Rest(text, offset) = Rest(text, offset)
      BY <1>1, PartsAreBytes, Nothing
    <3>4. Shown(ids, FALSE) \o (<<>> \o (plain \o Rest(text, end))) = text
      BY <1>3, <3>2, <3>3
    <3> QED  BY <1>1, <1>4, <1>5, <2>1, <3>1, <3>4, Nothing DEF Encoding
  <2>6. Decoding'
    BY <2>1 DEF Decoding
  <2> QED  BY <2>3, <2>4, <2>5, <2>6 DEF IInv
<1>7. CASE ~IsUtf8(plain)
  <2>1. phase' = "threw" /\ UNCHANGED <<runes, special, offset>>
    BY <1>7 DEF Segment
  <2>2. Types'
    BY <1>1, <1>5, <2>1 DEF Types, decoding
  <2>3. Staged' /\ Encoding' /\ Decoding'
    BY <1>1, <1>5, <2>1 DEF Staged, Encoding, Decoding, decoding
  <2> QED  BY <2>2, <2>3 DEF IInv
<1> QED  BY <1>6, <1>7

\* A piece is taken from the runes into symbols.
LEMMA PieceIsTaken ==
    ASSUME IInv, NextPiece
    PROVE  /\ index + 1 \in 1..Len(runes) /\ index' \in 0..Len(runes)
           /\ IsPiece(piece') /\ piece' # <<>> /\ piece' \in Seq(Rune) /\ Bytes(piece') \in Seq(Byte)
           /\ symbols' \in Seq(Seq(Symbol)) /\ Text(FlattenSeq(symbols')) = Bytes(piece')
           /\ Rest(runes, index') \in Seq(Rune)
           /\ Bytes(Rest(runes, index)) = Bytes(piece') \o Bytes(Rest(runes, index'))
<1> DEFINE e == PieceEnd(runes, index + 1)
<1>1. /\ Types /\ runes \in Seq(Rune) /\ index \in 0..Len(runes) /\ Len(runes) \in Nat
      /\ index < Len(runes) /\ symbols = <<>>
      /\ position = 0 /\ encoded = <<>> /\ output = <<>>
  BY LenProperties DEF IInv, Types, Staged, NextPiece
<1>2. index + 1 \in 1..Len(runes)
  BY <1>1
<1>3. e \in index + 2..Len(runes) + 1 /\ IsPiece(SubSeq(runes, index + 1, e - 1))
  <2>1. e \in (index + 1) + 1..Len(runes) + 1 /\ IsPiece(SubSeq(runes, index + 1, e - 1))
    BY <1>1, <1>2, PieceEnds
  <2>2. (index + 1) + 1 = index + 2
    BY <1>1
  <2> HIDE DEF e
  <2> QED  BY <2>1, <2>2
<1>4. /\ piece' = SubSeq(runes, index + 1, e - 1) /\ index' = e - 1 /\ phase' = "merge"
      /\ symbols' = [i \in DOMAIN Bytes(piece') |-> <<ByteSymbol(Bytes(piece')[i])>>]
      /\ UNCHANGED <<text, offset, special, runes, ids, decoding, skip>>
  BY DEF NextPiece
<1> HIDE DEF e
<1>5. e - 1 \in index + 1..Len(runes)
  BY <1>1, <1>3
<1>6. piece' \in Seq(Rune) /\ Rest(runes, index) = piece' \o Rest(runes, index')
  <2>1. e - 1 \in index..Len(runes)
    BY <1>1, <1>5
  <2> QED  BY <1>1, <1>4, <2>1, RestSplits
<1>7. piece' # <<>>
  <2> DEFINE z == e - 1
  <2>1. z \in index + 1..Len(runes) /\ index + 1 \in 1..Len(runes)
    BY <1>2, <1>5
  <2> HIDE DEF z
  <2>2. \A k \in index + 1..z : runes[k] \in Rune
    BY <1>1, <2>1, ElementOfSeq
  <2>3. index + 1 \in Int /\ z \in Int /\ index + 1 <= z
    BY <1>1, <2>1
  <2>4. Len(SubSeq(runes, index + 1, z)) = z - (index + 1) + 1
    BY <2>2, <2>3, SubSeqProperties
  <2>5. z - (index + 1) + 1 # 0
    BY <2>3
  <2> QED  BY <1>4, <2>4, <2>5, EmptySeq DEF z
<1>8. Bytes(piece') \in Seq(Byte)
  BY <1>6, BytesType
<1>9. symbols' \in Seq(Seq(Symbol)) /\ Text(FlattenSeq(symbols')) = Bytes(piece')
  BY <1>4, <1>8, SymbolsOfBytes
<1> DEFINE i == index'
<1>10. i \in 0..Len(runes)
  BY <1>1, <1>4, <1>5
<1>11. Rest(runes, i) \in Seq(Rune)
  <2> HIDE DEF i
  <2> QED  BY <1>1, <1>10, RestType
<1>12. Bytes(Rest(runes, index)) = Bytes(piece') \o Bytes(Rest(runes, i))
  <2> HIDE DEF i
  <2>1. Rest(runes, index) = piece' \o Rest(runes, i)
    BY <1>6 DEF i
  <2> QED  BY <1>6, <1>11, <2>1, BytesConcat
<1>13. IsPiece(piece')
  BY <1>3, <1>4
<1> QED  BY <1>2, <1>6, <1>7, <1>8, <1>9, <1>10, <1>11, <1>12, <1>13

\* Nothing is lost between the runes and the symbols.
LEMMA NextPiecePreserves == IInv /\ NextPiece => IInv' /\ PiecesAreWellFormed'
<1> SUFFICES ASSUME IInv, NextPiece PROVE IInv' /\ PiecesAreWellFormed'
  OBVIOUS
<1>1. /\ Types /\ runes \in Seq(Rune) /\ index \in 0..Len(runes) /\ Len(runes) \in Nat
      /\ index < Len(runes) /\ symbols = <<>>
      /\ position = 0 /\ encoded = <<>> /\ output = <<>>
  BY LenProperties DEF IInv, Types, Staged, NextPiece
<1>2. phase' = "merge" /\ UNCHANGED <<text, offset, special, runes, ids, decoding, skip>>
  BY DEF NextPiece
<1>3. /\ index' \in 0..Len(runes)
      /\ IsPiece(piece') /\ piece' # <<>> /\ piece' \in Seq(Rune) /\ Bytes(piece') \in Seq(Byte)
      /\ symbols' \in Seq(Seq(Symbol)) /\ Text(FlattenSeq(symbols')) = Bytes(piece')
      /\ Rest(runes, index') \in Seq(Rune)
      /\ Bytes(Rest(runes, index)) = Bytes(piece') \o Bytes(Rest(runes, index'))
  BY PieceIsTaken
<1>4. Types'
  <2>1. index' \in 0..Len(runes')
    BY <1>2, <1>3
  <2> QED  BY <1>1, <1>2, <1>3, <2>1 DEF Types, decoding
<1>5. Staged'
  <2>1. special # NoSpecial => OccursAt(special, offset)
    BY DEF IInv, Staged, NextPiece
  <2>2. special' # NoSpecial => OccursAt(special, offset)'
    BY <1>2, <2>1 DEF OccursAt
  <2> QED  BY <1>1, <1>2, <2>2 DEF Staged, decoding
<1>6. Encoding'
  <2> DEFINE a == Shown(ids, FALSE)
             b == Bytes(piece')
             c == Bytes(Rest(runes, index'))
             d == Rest(text, offset)
  <2>1. a \in Seq(Byte) /\ b \in Seq(Byte) /\ c \in Seq(Byte) /\ d \in Seq(Byte)
    BY <1>1, <1>3, BytesType, PartsAreBytes
  <2>2. a \o (<<>> \o ((b \o c) \o d)) = text
    BY <1>1, <1>3, Nothing DEF IInv, Encoding, NextPiece
  <2>3. b \o c \in Seq(Byte)
    BY <2>1, ConcatProperties
  <2> HIDE DEF a, b, c, d
  <2>4. (b \o c) \o d \in Seq(Byte)
    BY <2>1, <2>3, ConcatProperties
  <2>5. a \o ((b \o c) \o d) = text
    BY <2>2, <2>4, Nothing
  <2>6. a \o ((b \o c) \o d) = a \o (b \o (c \o d))
    <3>1. Regroups(a, b, c, d)
      BY <2>1, Regroup
    <3> QED  BY <3>1 DEF Regroups
  <2> QED  BY <1>2, <1>3, <2>5, <2>6 DEF Encoding, a, b, c, d
<1>7. Decoding'
  BY <1>2 DEF Decoding
<1>8. PiecesAreWellFormed'
  BY <1>3 DEF PiecesAreWellFormed
<1> QED  BY <1>4, <1>5, <1>6, <1>7, <1>8 DEF IInv

\* A merge joins symbols that spell the same.
LEMMA MergeBestPreserves == IInv /\ MergeBest => IInv'
<1> SUFFICES ASSUME IInv, MergeBest PROVE IInv'
  OBVIOUS
<1>1. Types /\ Staged /\ Encoding /\ Decoding /\ phase = "merge"
  BY DEF IInv, MergeBest
<1>2. /\ symbols' = Applied(symbols, BestRule(symbols))
      /\ UNCHANGED <<text, offset, special, runes, index, piece, ids, decoding, skip, phase>>
  BY DEF MergeBest
<1>3. symbols' \in Seq(Seq(Symbol)) /\ FlattenSeq(symbols') = FlattenSeq(symbols)
  BY <1>1, <1>2, AppliedSpells DEF Types
<1>4. Types'
  BY <1>1, <1>2, <1>3 DEF Types, decoding
<1>5. Staged'
  BY <1>1, <1>2 DEF Staged, OccursAt, decoding
<1>6. Encoding'
  BY <1>1, <1>2, <1>3 DEF Encoding
<1>7. Decoding'
  BY <1>1, <1>2 DEF Decoding
<1> QED  BY <1>4, <1>5, <1>6, <1>7 DEF IInv

\* The ids spell what the symbols did.
LEMMA LookUpPreserves == IInv /\ LookUp => IInv'
<1> SUFFICES ASSUME IInv, LookUp PROVE IInv'
  OBVIOUS
<1>1. Types /\ Staged /\ Encoding /\ Decoding /\ phase = "merge"
  BY DEF IInv, LookUp
<1>2. /\ symbols' = <<>> /\ piece' = <<>>
      /\ UNCHANGED <<text, offset, special, runes, index, decoding, skip>>
  BY DEF LookUp
<1>3. position = 0 /\ encoded = <<>> /\ output = <<>>
  BY <1>1 DEF Staged
<1>4. <<>> \in Seq(Seq(Symbol)) /\ <<>> \in Seq(Rune)
  OBVIOUS
<1>5. CASE Range(symbols) \subseteq Range(Tokens)
  <2> DEFINE is == [i \in DOMAIN symbols |-> Id(symbols[i])]
  <2>1. ids' = ids \o is /\ phase' = "piece"
    BY <1>5 DEF LookUp
  <2>2. is \in Seq(Known) /\ Shown(is, FALSE) = Text(FlattenSeq(symbols))
    BY <1>1, <1>5, SymbolsAreShown DEF Types
  <2> HIDE DEF is
  <2>3. ids \in Seq(Known)
    BY <1>1 DEF Types
  <2>4. ids' \in Seq(Known) /\ Shown(ids', FALSE) = Shown(ids, FALSE) \o Shown(is, FALSE)
    BY <2>1, <2>2, <2>3, ConcatProperties, ShownConcat
  <2>5. Types'
    <3>1. Len(ids') \in Nat
      BY <2>4, LenProperties
    <3> QED  BY <1>1, <1>2, <1>3, <1>4, <2>1, <2>4, <3>1 DEF Types, decoding
  <2>6. Staged'
    BY <1>1, <1>2, <1>3, <2>1 DEF Staged, OccursAt, decoding
  <2>7. Encoding'
    <3> DEFINE a == Shown(ids, FALSE)
               b == Shown(is, FALSE)
               c == Bytes(Rest(runes, index))
               d == Rest(text, offset)
    <3>1. a \in Seq(Byte) /\ b \in Seq(Byte) /\ c \in Seq(Byte) /\ d \in Seq(Byte)
      BY <1>1, <2>2, PartsAreBytes
    <3>2. a \o (b \o (c \o d)) = text
      BY <1>1, <2>2 DEF Encoding
    <3> HIDE DEF a, b, c, d
    <3>3. (a \o b) \o (c \o d) = a \o (b \o (c \o d))
      <4>1. Regroups(a, b, c, d)
        BY <3>1, Regroup
      <4> QED  BY <4>1 DEF Regroups
    <3>4. c \o d \in Seq(Byte)
      BY <3>1, ConcatProperties
    <3>5. <<>> \o (c \o d) = c \o d
      BY <3>4, Nothing
    <3>6. (a \o b) \o (<<>> \o (c \o d)) = text
      BY <3>2, <3>3, <3>5
    <3> QED  BY <1>2, <2>4, <3>6, Nothing DEF Encoding, a, b, c, d
  <2>8. Decoding'
    BY <2>1 DEF Decoding
  <2> QED  BY <2>5, <2>6, <2>7, <2>8 DEF IInv
<1>6. CASE ~(Range(symbols) \subseteq Range(Tokens))
  <2>1. phase' = "threw" /\ UNCHANGED ids
    BY <1>6 DEF LookUp
  <2>2. Types'
    BY <1>1, <1>2, <1>4, <2>1 DEF Types, decoding
  <2>3. Staged' /\ Encoding' /\ Decoding'
    BY <1>1, <1>2, <1>3, <2>1 DEF Staged, Encoding, Decoding, decoding
  <2> QED  BY <2>2, <2>3 DEF IInv
<1> QED  BY <1>5, <1>6

\* The special token stands where the plain part ended.
LEMMA EndSegmentPreserves == IInv /\ EndSegment => IInv'
<1> SUFFICES ASSUME IInv, EndSegment PROVE IInv'
  OBVIOUS
<1>1. /\ Types /\ Staged /\ Encoding /\ Decoding /\ phase = "piece" /\ symbols = <<>>
      /\ index = Len(runes) /\ text \in Seq(Byte) /\ runes \in Seq(Rune) /\ ids \in Seq(Known)
      /\ offset \in 0..Len(text) /\ Len(text) \in Nat
  BY LenProperties DEF IInv, EndSegment, Types, Staged
<1>2. /\ ids' = IF special = NoSpecial THEN ids ELSE Append(ids, SpecialId[special])
      /\ offset' = offset + Len(special)
      /\ special' = NoSpecial /\ runes' = <<>> /\ index' = 0 /\ phase' = "segment"
      /\ UNCHANGED <<text, symbols, piece, decoding, skip>>
  BY DEF EndSegment
<1>3. position = 0 /\ encoded = <<>> /\ output = <<>>
  BY <1>1 DEF Staged
<1>4. Shown(ids, FALSE) \o Rest(text, offset) = text
  <2> DEFINE d == Rest(text, offset)
  <2>1. Bytes(Rest(runes, index)) = <<>>
    BY <1>1, RestOfNone, BytesOfNone
  <2>2. Shown(ids, FALSE) \o (<<>> \o (<<>> \o d)) = text
    BY <1>1, <2>1, Nothing DEF Encoding
  <2>3. d \in Seq(Byte)
    BY <1>1, PartsAreBytes
  <2> HIDE DEF d
  <2>4. <<>> \o d = d
    BY <2>3, Nothing
  <2> QED  BY <2>2, <2>4 DEF d
<1>5. CASE special = NoSpecial
  <2>1. Len(special) = 0 /\ offset' = offset /\ ids' = ids
    BY <1>1, <1>2, <1>5, EmptySeq DEF NoSpecial
  <2>2. Types'
    BY <1>1, <1>2, <2>1 DEF Types, decoding, NoSpecial
  <2>3. Staged'
    BY <1>1, <1>2, <1>3 DEF Staged, decoding, NoSpecial
  <2>4. Encoding'
    <3>1. Rest(text, offset) \in Seq(Byte)
      BY <1>1, PartsAreBytes
    <3>2. <<>> \o Rest(text, offset) = Rest(text, offset)
      BY <3>1, Nothing
    <3> QED  BY <1>1, <1>2, <1>4, <2>1, <3>2, Nothing DEF Encoding
  <2>5. Decoding'
    BY <1>2 DEF Decoding
  <2> QED  BY <2>2, <2>3, <2>4, <2>5 DEF IInv
<1>6. CASE special # NoSpecial
  <2> DEFINE id == SpecialId[special]
             m == offset + Len(special)
  <2>1. special \in Specials /\ OccursAt(special, offset)
    BY <1>1, <1>6 DEF Types, Staged
  <2>2. id \in Known /\ TokenBytes(id) = special /\ special \in Seq(Byte) /\ Len(special) \in Nat
    BY <2>1, SpecialIsKnown, LenProperties
  <2>3. m \in offset..Len(text) /\ SubSeq(text, offset + 1, m) = special
    BY <1>1, <2>1, <2>2 DEF OccursAt
  <2>4. ids' = ids \o <<id>> /\ offset' = m
    BY <1>1, <1>2, <1>6, <2>2, AppendIsConcat
  <2> HIDE DEF id, m
  <2>5. Rest(text, offset) = special \o Rest(text, m)
    BY <1>1, <2>3, RestSplits
  <2>6. <<id>> \in Seq(Known) /\ Shown(<<id>>, FALSE) = special
    BY <2>2, ShownOfOne DEF ShownBytes
  <2>7. ids' \in Seq(Known) /\ Shown(ids', FALSE) = Shown(ids, FALSE) \o special
    BY <1>1, <2>4, <2>6, ConcatProperties, ShownConcat
  <2>8. m \in 0..Len(text)
    BY <1>1, <2>3
  <2>9. Types'
    <3>1. Len(ids') \in Nat
      BY <2>7, LenProperties
    <3> QED  BY <1>1, <1>2, <1>3, <2>4, <2>7, <2>8, <3>1 DEF Types, decoding, NoSpecial
  <2>10. Staged'
    BY <1>1, <1>2, <1>3 DEF Staged, decoding, NoSpecial
  <2>11. Encoding'
    <3> DEFINE a == Shown(ids, FALSE)
               d == Rest(text, m)
    <3>1. a \in Seq(Byte) /\ d \in Seq(Byte)
      BY <1>1, <2>8, RestType, PartsAreBytes
    <3>2. a \o (special \o d) = text
      BY <1>4, <2>5
    <3>3. (a \o special) \o d = a \o (special \o d)
      <4> HIDE DEF a, d
      <4> QED  BY <2>2, <3>1, ConcatAssociative
    <3>4. <<>> \o d = d
      <4> HIDE DEF d
      <4> QED  BY <3>1, Nothing
    <3>5. (a \o special) \o (<<>> \o (<<>> \o d)) = text
      BY <3>2, <3>3, <3>4
    <3> QED  BY <1>1, <1>2, <2>4, <2>7, <3>5, Nothing DEF Encoding
  <2>12. Decoding'
    BY <1>2 DEF Decoding
  <2> QED  BY <2>9, <2>10, <2>11, <2>12 DEF IInv
<1> QED  BY <1>5, <1>6

\* decode() starts with all ids to read.
LEMMA EncodeReturnsPreserves == IInv /\ EncodeReturns => IInv'
<1> SUFFICES ASSUME IInv, EncodeReturns PROVE IInv'
  OBVIOUS
<1>1. /\ Types /\ Staged /\ Encoding /\ offset = Len(text) /\ ids \in Seq(Known)
      /\ position = 0 /\ encoded = <<>> /\ output = <<>>
      /\ special = NoSpecial /\ runes = <<>> /\ symbols = <<>>
  BY DEF IInv, EncodeReturns, Types, Staged
<1>2. phase' = "decode" /\ UNCHANGED <<text, encoding, decoding, skip>>
  BY DEF EncodeReturns
<1>3. Types'
  BY <1>1, <1>2 DEF Types, encoding, decoding
<1>4. Staged'
  BY <1>1, <1>2 DEF Staged, encoding, decoding
<1>5. Encoding'
  BY <1>1, <1>2 DEF Encoding, EncodeReturns, encoding
<1>6. Decoding'
  <2>1. Rest(ids, 0) = ids /\ Shown(ids, skip) \in Seq(Byte) /\ <<>> \in Seq(Byte)
    BY <1>1, RestOfAll, ShownType
  <2>2. (<<>> \o <<>>) \o Shown(ids, skip) = Shown(ids, skip)
    <3> DEFINE d == Shown(ids, skip)
    <3>1. d \in Seq(Byte) /\ <<>> \in Seq(Byte)
      BY <2>1
    <3> HIDE DEF d
    <3>2. <<>> \o <<>> = <<>> /\ <<>> \o d = d
      BY <3>1, Nothing
    <3> QED  BY <3>2 DEF d
  <2> QED  BY <1>1, <1>2, <2>1, <2>2, Nothing DEF Decoding, encoding, decoding
<1> QED  BY <1>3, <1>4, <1>5, <1>6 DEF IInv

\* What decode() has before it reads an id.
LEMMA DecodeReads ==
    ASSUME IInv, phase = "decode", position < Len(ids)
    PROVE  LET id == ids[position + 1]
           IN  /\ id \in Known /\ position + 1 \in 0..Len(ids)
               /\ ShownBytes(id, skip) \in Seq(Byte)
               /\ Shown(Rest(ids, position + 1), skip) \in Seq(Byte)
               /\ (output \o Text(encoded))
                    \o (ShownBytes(id, skip) \o Shown(Rest(ids, position + 1), skip)) = Shown(ids, skip)
<1> DEFINE id == ids[position + 1]
           r == Rest(ids, position + 1)
<1>1. ids \in Seq(Known) /\ position \in 0..Len(ids) /\ Len(ids) \in Nat
  BY LenProperties DEF IInv, Types
<1>2. id \in Known /\ position + 1 \in 1..Len(ids) /\ Rest(ids, position) = <<id>> \o r
  BY <1>1, RestStarts
<1>3. position + 1 \in 0..Len(ids)
  BY <1>1
<1>4. r \in Seq(Known)
  <2> DEFINE k == position + 1
  <2>1. k \in 0..Len(ids)
    BY <1>3
  <2> HIDE DEF k
  <2>2. Rest(ids, k) \in Seq(Known)
    BY <1>1, <2>1, RestType
  <2> QED  BY <2>2 DEF k
<1> HIDE DEF id, r
<1>5. <<id>> \in Seq(Known) /\ Shown(<<id>>, skip) = ShownBytes(id, skip)
  BY <1>2, ShownOfOne
<1>6. Shown(Rest(ids, position), skip) = ShownBytes(id, skip) \o Shown(r, skip)
  BY <1>2, <1>4, <1>5, ShownConcat
<1>7. ShownBytes(id, skip) \in Seq(Byte) /\ Shown(r, skip) \in Seq(Byte)
  BY <1>4, <1>5, ShownType
<1>8. (output \o Text(encoded)) \o Shown(Rest(ids, position), skip) = Shown(ids, skip)
  BY DEF IInv, Decoding
<1> QED  BY <1>2, <1>3, <1>6, <1>7, <1>8 DEF id, r

\* The bytes held back come before the special token.
LEMMA DecodeSpecialPreserves == IInv /\ DecodeSpecial => IInv'
<1> SUFFICES ASSUME IInv, DecodeSpecial PROVE IInv'
  OBVIOUS
<1> DEFINE id == ids[position + 1]
           a == output
           b == Text(encoded)
           c == ShownBytes(id, skip)
           d == Shown(Rest(ids, position + 1), skip)
<1>1. Types /\ Staged /\ Encoding /\ phase = "decode" /\ position < Len(ids)
  BY DEF IInv, DecodeSpecial
<1>2. PICK s \in Specials :
        SpecialId[s] = id /\ output' = output \o Flushed \o (IF skip THEN <<>> ELSE s)
  BY DEF DecodeSpecial
<1>3. encoded' = <<>> /\ position' = position + 1 /\ UNCHANGED <<text, encoding, skip, phase>>
  BY DEF DecodeSpecial
<1>4. /\ position + 1 \in 0..Len(ids) /\ c \in Seq(Byte) /\ d \in Seq(Byte)
      /\ (a \o b) \o (c \o d) = Shown(ids, skip)
  BY <1>1, DecodeReads
<1>5. a \in Seq(Byte) /\ b \in Seq(Byte) /\ <<>> \in Seq(Symbol)
  <2>1. a \in Seq(Byte) /\ b \in Seq(Byte)
    BY <1>1, PartsAreBytes DEF Types
  <2>2. <<>> \in Seq(Symbol)
    BY EmptySeq
  <2> QED  BY <2>1, <2>2
<1>6. c = IF skip THEN <<>> ELSE s
  <2>1. id >= Len(Tokens) /\ TokenBytes(id) = s
    BY <1>2, SpecialIsKnown
  <2> QED  BY <2>1 DEF ShownBytes
<1>7. output' = (a \o b) \o c
  BY <1>2, <1>6 DEF Flushed, Text
<1> HIDE DEF a, b, c, d, id
<1>8. a \o b \in Seq(Byte)
  BY <1>5, ConcatProperties
<1>9. (a \o b) \o c \in Seq(Byte)
  BY <1>4, <1>8, ConcatProperties
<1>10. ((a \o b) \o c) \o d = (a \o b) \o (c \o d)
  <2> DEFINE x == a \o b
  <2>1. x \in Seq(Byte) /\ c \in Seq(Byte) /\ d \in Seq(Byte)
    BY <1>4, <1>8
  <2> HIDE DEF x
  <2>2. (x \o c) \o d = x \o (c \o d)
    BY <2>1, ConcatAssociative
  <2> QED  BY <2>2 DEF x
<1>11. Types'
  BY <1>1, <1>3, <1>4, <1>5, <1>7, <1>9 DEF Types, encoding
<1>12. Staged'
  BY <1>1, <1>3 DEF Staged, encoding
<1>13. Encoding'
  BY <1>1, <1>3 DEF Encoding, encoding
<1>14. Decoding'
  <2>1. output' \o <<>> = output'
    BY <1>7, <1>9, Nothing
  <2>2. (output' \o <<>>) \o d = Shown(ids, skip)
    BY <1>4, <1>7, <1>10, <2>1
  <2> QED  BY <1>1, <1>3, <2>2, Nothing DEF Decoding, encoding, d
<1> QED  BY <1>11, <1>12, <1>13, <1>14 DEF IInv

\* The bytes of an entry are held back behind the others.
LEMMA DecodeTokenPreserves == IInv /\ DecodeToken => IInv'
<1> SUFFICES ASSUME IInv, DecodeToken PROVE IInv'
  OBVIOUS
<1> DEFINE id == ids[position + 1]
           t == Tokens[id + 1]
           a == output
           b == Text(encoded)
           c == ShownBytes(id, skip)
           d == Shown(Rest(ids, position + 1), skip)
<1>1. /\ Types /\ Staged /\ Encoding /\ phase = "decode" /\ position < Len(ids)
      /\ encoded \in Seq(Symbol)
  BY DEF IInv, DecodeToken, Types
<1>2. /\ id < Len(Tokens) /\ encoded' = encoded \o t /\ position' = position + 1
      /\ UNCHANGED <<text, encoding, output, skip, phase>>
  BY DEF DecodeToken
<1>3. /\ id \in Known /\ position + 1 \in 0..Len(ids) /\ c \in Seq(Byte) /\ d \in Seq(Byte)
      /\ (a \o b) \o (c \o d) = Shown(ids, skip)
  BY <1>1, DecodeReads
<1>4. a \in Seq(Byte) /\ b \in Seq(Byte)
  BY <1>1, PartsAreBytes DEF Types
<1>5. t \in Seq(Symbol) /\ c = Text(t)
  <2>1. id \in Nat /\ Len(Tokens) \in Nat
    BY <1>3, KnownType, TokensAssumption, LenProperties
  <2> HIDE DEF id
  <2>2. Tokens[id + 1] \in Seq(Symbol) /\ TokenBytes(id) = Text(Tokens[id + 1])
    BY <1>2, <1>3, <2>1, TokenIsKnown
  <2>3. ~(id >= Len(Tokens))
    BY <1>2, <2>1
  <2> QED  BY <2>2, <2>3 DEF ShownBytes
<1> HIDE DEF a, b, c, d, t, id
<1>6. encoded' \in Seq(Symbol) /\ Text(encoded') = b \o c
  BY <1>1, <1>2, <1>5, ConcatProperties, TextConcat DEF b
<1>7. Types'
  BY <1>1, <1>2, <1>3, <1>6 DEF Types, encoding
<1>8. Staged'
  BY <1>1, <1>2 DEF Staged, encoding
<1>9. Encoding'
  BY <1>1, <1>2 DEF Encoding, encoding
<1>10. Decoding'
  <2>1. Regroups(a, b, c, d)
    BY <1>3, <1>4, Regroup
  <2>2. (a \o (b \o c)) \o d = Shown(ids, skip)
    BY <1>3, <2>1 DEF Regroups
  <2> QED  BY <1>1, <1>2, <1>6, <2>2 DEF Decoding, encoding, a, d
<1> QED  BY <1>7, <1>8, <1>9, <1>10 DEF IInv

\* At the end nothing is held back.
LEMMA DecodeReturnsPreserves == IInv /\ DecodeReturns => IInv'
<1> SUFFICES ASSUME IInv, DecodeReturns PROVE IInv'
  OBVIOUS
<1> DEFINE a == output
           b == Text(encoded)
<1>1. /\ Types /\ Staged /\ Encoding /\ phase = "decode" /\ position = Len(ids)
      /\ ids \in Seq(Known)
  BY DEF IInv, DecodeReturns, Types
<1>2. /\ output' = a \o b /\ encoded' = <<>> /\ phase' = "done"
      /\ UNCHANGED <<text, encoding, position, skip>>
  BY DEF DecodeReturns, Flushed, Text
<1>3. a \in Seq(Byte) /\ b \in Seq(Byte) /\ <<>> \in Seq(Symbol)
  <2>1. a \in Seq(Byte) /\ b \in Seq(Byte)
    BY <1>1, PartsAreBytes DEF Types
  <2>2. <<>> \in Seq(Symbol)
    BY EmptySeq
  <2> QED  BY <2>1, <2>2
<1>4. Rest(ids, position) = <<>>
  BY <1>1, RestOfNone
<1>5. (a \o b) \o <<>> = Shown(ids, skip)
  BY <1>1, <1>4, ShownOfNone DEF IInv, Decoding
<1> HIDE DEF a, b
<1>6. a \o b \in Seq(Byte)
  BY <1>3, ConcatProperties
<1>7. a \o b = Shown(ids, skip)
  BY <1>5, <1>6, Nothing
<1>8. Types'
  BY <1>1, <1>2, <1>3, <1>6 DEF Types, encoding
<1>9. Staged'
  BY <1>1, <1>2 DEF Staged, encoding
<1>10. Encoding'
  BY <1>1, <1>2 DEF Encoding, encoding
<1>11. Decoding'
  BY <1>2, <1>7 DEF Decoding, encoding
<1> QED  BY <1>8, <1>9, <1>10, <1>11 DEF IInv

\* Every step preserves the invariant.
LEMMA NextPreserves == IInv /\ [Next]_vars => IInv'
<1> SUFFICES ASSUME IInv, [Next]_vars PROVE IInv'
  OBVIOUS
<1>1. CASE Segment        BY <1>1, SegmentPreserves
<1>2. CASE NextPiece      BY <1>2, NextPiecePreserves
<1>3. CASE MergeBest      BY <1>3, MergeBestPreserves
<1>4. CASE LookUp         BY <1>4, LookUpPreserves
<1>5. CASE EndSegment     BY <1>5, EndSegmentPreserves
<1>6. CASE EncodeReturns  BY <1>6, EncodeReturnsPreserves
<1>7. CASE DecodeSpecial  BY <1>7, DecodeSpecialPreserves
<1>8. CASE DecodeToken    BY <1>8, DecodeTokenPreserves
<1>9. CASE DecodeReturns  BY <1>9, DecodeReturnsPreserves
<1>10. CASE UNCHANGED vars
  BY <1>10 DEF IInv, Types, Staged, Encoding, Decoding, OccursAt, vars, encoding, decoding
<1> QED  BY <1>1, <1>2, <1>3, <1>4, <1>5, <1>6, <1>7, <1>8, <1>9, <1>10 DEF Next

\* It holds in every behaviour.
LEMMA Invariance == Spec => []IInv
<1>1. Init => IInv
  BY InitEstablishes
<1>2. IInv /\ [Next]_vars => IInv'
  BY NextPreserves
<1> QED  BY <1>1, <1>2, PTL DEF Spec

-----------------------------------------------------------------------------
(* What follows from it                                                      *)

\* At every point of encode(), what the ids spell, the symbols that are being
\* merged, the runes that are left of the plain part and the rest of the input
\* are the input: pretokenize(), encode_piece() and the loop over special
\* tokens lose, repeat and reorder no byte, whatever the merges are.
THEOREM TextIsPreserved == Spec => []TextPreserved
<1>1. ASSUME IInv PROVE TextPreserved
  <2> DEFINE a == Shown(ids, FALSE)
             b == Text(FlattenSeq(symbols))
             c == Bytes(Rest(runes, index))
             d == Rest(text, offset)
  <2>1. Types
    BY <1>1 DEF IInv
  <2>2. a \in Seq(Byte) /\ b \in Seq(Byte) /\ c \in Seq(Byte) /\ d \in Seq(Byte)
    BY <2>1, PartsAreBytes
  <2>3. FlattenSeq([i \in DOMAIN ids |-> TokenBytes(ids[i])]) = a
    BY DEF Shown, ShownEach, ShownBytes
  <2>4. SymbolBytes = b
    BY DEF SymbolBytes, Text
  <2>5. Bytes(SubSeq(runes, index + 1, Len(runes))) = c /\ SubSeq(text, offset + 1, Len(text)) = d
    BY DEF Rest
  <2>6. phase # "threw" => a \o (b \o (c \o d)) = text
    BY <1>1 DEF IInv, Encoding
  <2> HIDE DEF a, b, c, d
  <2>7. ((a \o b) \o c) \o d = a \o (b \o (c \o d))
    <3> DEFINE x == a \o b
    <3>1. x \in Seq(Byte) /\ c \in Seq(Byte) /\ d \in Seq(Byte)
      BY <2>2, ConcatProperties
    <3> HIDE DEF x
    <3>2. (x \o c) \o d = x \o (c \o d)
      BY <3>1, ConcatAssociative
    <3>3. Regroups(a, b, c, d)
      BY <2>2, Regroup
    <3> QED  BY <3>2, <3>3 DEF Regroups, x
  <2> QED  BY <2>1, <2>3, <2>4, <2>5, <2>6, <2>7 DEF TextPreserved, Types
<1> QED  BY <1>1, Invariance, PTL

\* Every alternative of pretokenize() takes at least one rune, and takes a
\* contraction, a word, a digit, punctuation or white space and nothing else.
THEOREM PiecesAreRight == Spec => []PiecesAreWellFormed
<1>1. Init => PiecesAreWellFormed
  BY DEF Init, PiecesAreWellFormed
<1>2. IInv /\ PiecesAreWellFormed /\ [Next]_vars => PiecesAreWellFormed'
  <2> SUFFICES ASSUME IInv, PiecesAreWellFormed, [Next]_vars PROVE PiecesAreWellFormed'
    OBVIOUS
  <2>1. CASE NextPiece
    BY <2>1, NextPiecePreserves
  <2>2. CASE MergeBest \/ UNCHANGED vars
    BY <2>2 DEF MergeBest, PiecesAreWellFormed, vars, encoding
  <2>3. CASE \/ Segment \/ LookUp \/ EndSegment \/ EncodeReturns
             \/ DecodeSpecial \/ DecodeToken \/ DecodeReturns
    <3>1. phase' # "merge"
      BY <2>3 DEF Segment, LookUp, EndSegment, EncodeReturns, DecodeSpecial, DecodeToken, DecodeReturns
    <3> QED  BY <3>1 DEF PiecesAreWellFormed
  <2> QED  BY <2>1, <2>2, <2>3 DEF Next
<1> QED  BY <1>1, <1>2, Invariance, PTL DEF Spec

\* decode() returns what the ids stand for one by one, though it holds the
\* bytes of a run of ordinary tokens back until a special token or the end;
\* if it skips no special token, that is the text encode() was given.
Restored == phase = "done" => output = Shown(ids, skip) /\ (~skip => output = text)

\* This is so for every input and list of merges.
THEOREM DecodingRestores == Spec => []Restored
<1>1. ASSUME IInv PROVE Restored
  <2> SUFFICES ASSUME phase = "done"
               PROVE  output = Shown(ids, skip) /\ (~skip => output = text)
    BY DEF Restored
  <2>1. Types /\ symbols = <<>> /\ runes = <<>> /\ index = 0 /\ offset = Len(text)
        /\ text \in Seq(Byte) /\ skip \in BOOLEAN
    BY <1>1 DEF IInv, Types, Staged
  <2>2. output = Shown(ids, skip)
    BY <1>1 DEF IInv, Decoding
  <2>3. Rest(text, offset) = <<>>
    BY <2>1, RestOfNone
  <2> DEFINE a == Shown(ids, FALSE)
  <2>4. a \o (<<>> \o (<<>> \o <<>>)) = text
    BY <1>1, <2>1, <2>3, Nothing DEF IInv, Encoding
  <2>5. a \in Seq(Byte) /\ <<>> \in Seq(Byte)
    BY <2>1, PartsAreBytes, EmptySeq
  <2> HIDE DEF a
  <2>6. a = text
    BY <2>4, <2>5, Nothing
  <2>7. ~skip => skip = FALSE
    BY <2>1
  <2> QED  BY <2>2, <2>6, <2>7 DEF a
<1> QED  BY <1>1, Invariance, PTL

-----------------------------------------------------------------------------
(* The order of merges                                                       *)

\* The symbols are those that the rules up to some rank make of the piece, and
\* no rule of a lower rank fits any more.
Ranked ==
    phase = "merge" =>
        \E f : /\ Orders(f, Bytes(piece)) /\ RulesInOrder(Bytes(piece)) = f[Len(MergeRules)]
              /\ \E r \in 0..Len(MergeRules) :
                    f[r] = symbols /\ \A k \in RanksIn(symbols) : r < k

\* The lowest rank is applied, and those between do not fit.
LEMMA RankedByMerge == IInv /\ Ranked /\ MergeBest => Ranked'
<1> SUFFICES ASSUME IInv, Ranked, MergeBest PROVE Ranked'
  OBVIOUS
<1> DEFINE n == Len(MergeRules)
           R == RanksIn(symbols)
           m == Min(R)
<1>1. /\ phase = "merge" /\ R # {} /\ symbols \in Seq(Seq(Symbol))
      /\ symbols' = Applied(symbols, MergeRules[m]) /\ piece' = piece
  BY DEF MergeBest, BestRule, IInv, Types
<1>2. n \in Nat /\ DOMAIN MergeRules = 1..n
  BY MergesAssumption, LenProperties
<1>3. PICK f : /\ Orders(f, Bytes(piece)) /\ RulesInOrder(Bytes(piece)) = f[n]
               /\ \E r \in 0..n : f[r] = symbols /\ \A k \in R : r < k
  BY <1>1 DEF Ranked
<1>4. PICK r \in 0..n : f[r] = symbols /\ \A k \in R : r < k
  BY <1>3
<1>5. R \subseteq 1..n
  BY <1>2 DEF RanksIn
<1> HIDE DEF R, n
<1>6. m \in R /\ \A k \in R : m <= k
  <2>1. R \subseteq Nat
    BY <1>2, <1>5
  <2>2. \E x \in R : \A y \in R : x <= y
    BY <1>1, <2>1, LeastNatural
  <2> QED  BY <2>2 DEF Min
<1> HIDE DEF m
<1>7. m \in 1..n /\ m - 1 \in r..n /\ m - 1 \in 0..n /\ m \in 0..n
  BY <1>2, <1>4, <1>5, <1>6
<1>8. \A j \in r + 1..m - 1 : j \notin R
  BY <1>2, <1>4, <1>6, <1>7
<1>9. f[m - 1] = symbols
  BY <1>1, <1>3, <1>4, <1>7, <1>8, RanksPassed DEF R, n
<1>10. f[m] = symbols'
  BY <1>1, <1>3, <1>7, <1>9 DEF Orders, n
<1>11. \A k \in RanksIn(symbols') : m < k
  BY <1>1, <1>6, RanksRise DEF R
<1> QED  BY <1>1, <1>3, <1>7, <1>10, <1>11 DEF Ranked, n

\* A new piece starts from the byte symbols, before the first rule.
LEMMA RankedByNextPiece == IInv /\ NextPiece => Ranked'
<1> SUFFICES ASSUME IInv, NextPiece PROVE Ranked'
  OBVIOUS
<1> DEFINE b == Bytes(piece')
           n == Len(MergeRules)
<1>1. b \in Seq(Byte)
  <2>1. IInv'
    BY NextPiecePreserves
  <2>2. piece' \in Seq(Rune)
    BY <2>1 DEF IInv, Types
  <2> QED  BY <2>2, BytesType
<1>2. symbols' = ByteSymbols(b)
  BY DEF NextPiece, ByteSymbols
<1> HIDE DEF b
<1>3. PICK f : Orders(f, b) /\ RulesInOrder(b) = f[n]
  BY <1>1, OrderedSteps
<1>4. f[0] = symbols'
  BY <1>2, <1>3 DEF Orders
<1>5. 0 \in 0..n /\ \A k \in RanksIn(symbols') : 0 < k
  <2>1. n \in Nat /\ DOMAIN MergeRules = 1..n
    BY MergesAssumption, LenProperties
  <2> QED  BY <2>1 DEF RanksIn
<1> QED  BY <1>3, <1>4, <1>5 DEF Ranked, b

\* Taking the lowest rank first, wherever it fits, and starting again, gives
\* what the rules give one after the other: encode_piece() never misses a merge
\* that a rule of a lower rank should have made before.
THEOREM MergesFollowRanks == Spec => []MergesInRankOrder
<1>1. Init => Ranked
  BY DEF Init, Ranked
<1>2. IInv /\ Ranked /\ [Next]_vars => Ranked'
  <2> SUFFICES ASSUME IInv, Ranked, [Next]_vars PROVE Ranked'
    OBVIOUS
  <2>1. CASE NextPiece
    BY <2>1, RankedByNextPiece
  <2>2. CASE MergeBest
    BY <2>2, RankedByMerge
  <2>3. CASE UNCHANGED vars
    BY <2>3 DEF Ranked, vars, encoding
  <2>4. CASE \/ Segment \/ LookUp \/ EndSegment \/ EncodeReturns
             \/ DecodeSpecial \/ DecodeToken \/ DecodeReturns
    <3>1. phase' # "merge"
      BY <2>4 DEF Segment, LookUp, EndSegment, EncodeReturns, DecodeSpecial, DecodeToken, DecodeReturns
    <3> QED  BY <3>1 DEF Ranked
  <2> QED  BY <2>1, <2>2, <2>3, <2>4 DEF Next
<1>3. IInv /\ Ranked => MergesInRankOrder
  <2> SUFFICES ASSUME IInv, Ranked, phase = "merge", RanksIn(symbols) = {}
               PROVE  symbols = RulesInOrder(Bytes(piece))
    BY DEF MergesInRankOrder
  <2> DEFINE n == Len(MergeRules)
             b == Bytes(piece)
  <2>1. PICK f : /\ Orders(f, b) /\ RulesInOrder(b) = f[n]
                 /\ \E r \in 0..n : f[r] = symbols /\ \A k \in RanksIn(symbols) : r < k
    BY DEF Ranked
  <2>2. PICK r \in 0..n : f[r] = symbols
    BY <2>1
  <2>3. symbols \in Seq(Seq(Symbol)) /\ n \in r..n
    BY <2>2, MergesAssumption, LenProperties DEF IInv, Types
  <2> HIDE DEF b
  <2>4. f[n] = symbols
    BY <2>1, <2>2, <2>3, RanksPassed
  <2> QED  BY <2>1, <2>4 DEF b
<1> QED  BY <1>1, <1>2, <1>3, Invariance, PTL DEF Spec

-----------------------------------------------------------------------------
(* Whole characters                                                          *)

\* g[i] is how many bytes the character at hand still needs after i bytes of
\* s, if bytes are counted and not looked at.
Needs(g, s) ==
    /\ g \in [0..Len(s) -> 0..3] /\ g[0] = 0
    /\ \A i \in 1..Len(s) : g[i] = IF g[i - 1] > 0 THEN g[i - 1] - 1 ELSE Remaining(s[i])

\* The i-th byte of s is one that may stand there.
Fits(g, s, i) == IF g[i - 1] > 0 THEN IsContinuation(s[i]) ELSE s[i] < 128 \/ Remaining(s[i]) > 0

\* Between a and b there are whole characters, if one ends at a.
Whole(g, s, a, b) == g[b] = 0 /\ \A i \in a + 1..b : Fits(g, s, i)

\* A continuation byte is no other byte.
LEMMA ContinuationsAreNoOther ==
    ASSUME NEW b \in Byte
    PROVE  /\ Remaining(b) \in 0..3
           /\ IsContinuation(b) => b >= 128 /\ Remaining(b) = 0
<1>1. Remaining(b) \in 0..3
  BY DEF Remaining
<1>2. ASSUME b \div 64 = 2 PROVE b >= 128 /\ b \div 32 # 6 /\ b \div 16 # 14 /\ b \div 8 # 30
  <2>1. b \in 128..191
    BY <1>2 DEF Byte
  <2> QED  BY <2>1
<1> QED  BY <1>1, <1>2 DEF IsContinuation, Remaining

\* What ReadByte() counts, and when it finds a sequence invalid.
LEMMA ByteIsCounted ==
    ASSUME NEW state \in Reading, NEW b \in Byte
    PROVE  /\ ReadByte(state, b).need = IF state.need > 0 THEN state.need - 1 ELSE Remaining(b)
           /\ ReadByte(state, b).bad <=>
                \/ state.bad
                \/ ~ IF state.need > 0 THEN IsContinuation(b) ELSE b < 128 \/ Remaining(b) > 0
<1>1. state.need \in 0..3 /\ state.bad \in BOOLEAN /\ b \in 0..255 /\ Remaining(b) \in 0..3
  BY ContinuationsAreNoOther DEF Reading, Byte
<1>2. CASE state.need > 0
  <2> DEFINE last == state.runes[Len(state.runes)]
             new == [value |-> (last.value * 64) + (b % 64), bytes |-> Append(last.bytes, b)]
             grown == [state.runes EXCEPT ![Len(state.runes)] = new]
             m == state.need - 1
             d == state.bad \/ ~IsContinuation(b)
  <2>1. ReadByte(state, b) = [runes |-> grown, need |-> m, bad |-> d]
    BY <1>2 DEF ReadByte
  <2> HIDE DEF grown, m, d
  <2>2. ReadByte(state, b).need = m /\ ReadByte(state, b).bad = d
    BY <2>1
  <2> QED  BY <1>2, <2>2 DEF m, d
<1>3. CASE ~(state.need > 0)
  <2> DEFINE grown == Append(state.runes, [value |-> Leading(b), bytes |-> <<b>>])
             m == Remaining(b)
             d == state.bad \/ (b >= 128 /\ Remaining(b) = 0)
  <2>1. ReadByte(state, b) = [runes |-> grown, need |-> m, bad |-> d]
    BY <1>3 DEF ReadByte
  <2>2. d <=> (state.bad \/ ~(b < 128 \/ Remaining(b) > 0))
    BY <1>1
  <2> HIDE DEF grown, m, d
  <2>3. ReadByte(state, b).need = m /\ ReadByte(state, b).bad = d
    BY <2>1
  <2> QED  BY <1>3, <2>2, <2>3 DEF m
<1> QED  BY <1>2, <1>3

\* Bytes are UTF-8 if they are whole characters.
LEMMA Utf8IsWhole ==
    ASSUME NEW s \in Seq(Byte)
    PROVE  \E g : Needs(g, s) /\ (IsUtf8(s) <=> Whole(g, s, 0, Len(s)))
<1> DEFINE n == Len(s)
<1>1. n \in Nat /\ \A i \in 1..n : s[i] \in Byte
  BY LenProperties, ElementOfSeq
<1>2. PICK f : Reads(f, s) /\ Decoded(s) = f[n]
  BY DecodedSteps
<1>3. f[0] = Initially /\ \A i \in 1..n : f[i] = ReadByte(f[i - 1], s[i])
  BY <1>2 DEF Reads
<1> HIDE DEF n
<1>4. \A i \in 0..n : f[i] \in Reading
  <2> DEFINE P == {i \in 0..n : f[i] \in Reading}
  <2>1. 0 \in P
    <3>1. Initially \in Reading
      BY DEF Reading, Initially
    <3>2. 0 \in 0..n
      BY <1>1
    <3> QED  BY <1>3, <3>1, <3>2
  <2>2. ASSUME NEW i \in 1..n, i - 1 \in P PROVE i \in P
    <3>1. f[i] \in Reading
      BY <1>1, <1>3, <2>2, ByteIsRead
    <3> QED  BY <3>1
  <2>3. 0..n \subseteq P
    <3> HIDE DEF P
    <3> QED  BY <1>1, <2>1, <2>2, UpTo
  <2> QED  BY <2>3
<1> DEFINE g == [i \in 0..n |-> f[i].need]
<1>5. \A i \in 0..n : f[i].need \in 0..3 /\ f[i].bad \in BOOLEAN /\ g[i] = f[i].need
  BY <1>4 DEF Reading
<1>6. g \in [0..n -> 0..3] /\ g[0] = 0
  BY <1>1, <1>3, <1>5 DEF Initially
<1> HIDE DEF g
<1>7. ASSUME NEW i \in 1..n
      PROVE  /\ g[i] = IF g[i - 1] > 0 THEN g[i - 1] - 1 ELSE Remaining(s[i])
             /\ f[i].bad <=> f[i - 1].bad \/ ~Fits(g, s, i)
  <2>1. i \in 0..n /\ i - 1 \in 0..n /\ s[i] \in Byte
    BY <1>1
  <2>2. f[i] = ReadByte(f[i - 1], s[i]) /\ f[i - 1] \in Reading
    BY <1>3, <1>4, <2>1
  <2>3. g[i] = f[i].need /\ g[i - 1] = f[i - 1].need
    BY <1>5, <2>1
  <2> DEFINE state == f[i - 1]
             b == s[i]
             next == ReadByte(state, b)
  <2>4. state \in Reading /\ b \in Byte
    BY <2>1, <2>2
  <2> HIDE DEF state, b
  <2>5. /\ next.need = IF state.need > 0 THEN state.need - 1 ELSE Remaining(b)
        /\ next.bad <=> \/ state.bad
                        \/ ~ IF state.need > 0 THEN IsContinuation(b) ELSE b < 128 \/ Remaining(b) > 0
    BY <2>4, ByteIsCounted
  <2> HIDE DEF next
  <2>6. f[i] = next
    BY <2>2 DEF next, state, b
  <2> QED  BY <2>3, <2>5, <2>6 DEF Fits, state, b
<1>8. Needs(g, s)
  BY <1>6, <1>7 DEF Needs, n
<1>9. \A i \in 0..n : ~f[i].bad <=> \A j \in 1..i : Fits(g, s, j)
  <2> DEFINE P == {i \in 0..n : ~f[i].bad <=> \A j \in 1..i : Fits(g, s, j)}
  <2>1. 0 \in P
    BY <1>1, <1>3 DEF Initially
  <2>2. ASSUME NEW i \in 1..n, i - 1 \in P PROVE i \in P
    <3>1. i \in 0..n /\ i - 1 \in 0..n /\ 1..i = 1..(i - 1) \cup {i}
      BY <1>1
    <3>2. ~f[i - 1].bad <=> \A j \in 1..(i - 1) : Fits(g, s, j)
      BY <2>2
    <3>3. f[i].bad <=> f[i - 1].bad \/ ~Fits(g, s, i)
      BY <1>7
    <3>4. (\A j \in 1..i : Fits(g, s, j)) <=> (\A j \in 1..(i - 1) : Fits(g, s, j)) /\ Fits(g, s, i)
      BY <3>1
    <3> QED  BY <3>1, <3>2, <3>3, <3>4
  <2>3. 0..n \subseteq P
    <3> HIDE DEF P
    <3> QED  BY <1>1, <2>1, <2>2, UpTo
  <2> QED  BY <2>3
<1>10. IsUtf8(s) <=> Whole(g, s, 0, n)
  <2>1. n \in 0..n /\ 0 + 1 = 1
    BY <1>1
  <2>2. IsUtf8(s) <=> (f[n].need = 0 /\ ~f[n].bad)
    BY <1>2 DEF IsUtf8
  <2> QED  BY <1>5, <1>9, <2>1, <2>2 DEF Whole
<1> QED  BY <1>8, <1>10 DEF n

\* A part of a text that starts at a character is UTF-8 if it is whole.
LEMMA PartIsWhole ==
    ASSUME NEW s \in Seq(Byte), NEW g, Needs(g, s),
           NEW a \in 0..Len(s), NEW b \in a..Len(s), g[a] = 0
    PROVE  IsUtf8(SubSeq(s, a + 1, b)) <=> Whole(g, s, a, b)
<1> DEFINE n == Len(s)
           t == SubSeq(s, a + 1, b)
           m == b - a
           k == [i \in 0..m |-> g[a + i]]
<1>1. n \in Nat /\ (\A i \in 1..n : s[i] \in Byte) /\ a \in 0..n /\ b \in a..n
  BY LenProperties, ElementOfSeq
<1>2. t \in Seq(Byte) /\ Len(t) = m /\ \A i \in 1..m : t[i] = s[a + i]
  <2>1. a + 1 \in Int /\ b \in Int /\ \A i \in a + 1..b : s[i] \in Byte
    BY <1>1
  <2>2. /\ t \in Seq(Byte) /\ Len(t) = (IF a + 1 <= b THEN b - (a + 1) + 1 ELSE 0)
        /\ \A i \in 1..b - (a + 1) + 1 : t[i] = s[(a + 1) + i - 1]
    BY <2>1, SubSeqProperties
  <2> HIDE DEF t
  <2> QED  BY <1>1, <2>2
<1>3. PICK h : Needs(h, t) /\ (IsUtf8(t) <=> Whole(h, t, 0, Len(t)))
  <2> HIDE DEF t
  <2> QED  BY <1>2, Utf8IsWhole
<1> HIDE DEF n, t
<1>4. /\ h[0] = 0
      /\ \A i \in 1..m : h[i] = IF h[i - 1] > 0 THEN h[i - 1] - 1 ELSE Remaining(t[i])
  BY <1>2, <1>3 DEF Needs
<1>5. \A i \in 1..n : g[i] = IF g[i - 1] > 0 THEN g[i - 1] - 1 ELSE Remaining(s[i])
  BY DEF Needs, n
<1>6. m \in Nat /\ \A i \in 0..m : k[i] = g[a + i]
  BY <1>1
<1>7. ASSUME NEW i \in 1..m
      PROVE  /\ a + i \in 1..n /\ i - 1 \in 0..m /\ i \in 0..m
             /\ a + (i - 1) = (a + i) - 1
  BY <1>1
<1> HIDE DEF m, k
<1>8. InStep(h, k, m)
  <2>1. h[0] = k[0]
    <3>1. a + 0 = a /\ 0 \in 0..m
      BY <1>1, <1>6
    <3> QED  BY <1>4, <1>6, <3>1
  <2>2. ASSUME NEW i \in 1..m, h[i - 1] = k[i - 1] PROVE h[i] = k[i]
    <3>1. /\ a + i \in 1..n /\ k[i] = g[a + i] /\ k[i - 1] = g[(a + i) - 1]
          /\ t[i] = s[a + i]
      BY <1>2, <1>6, <1>7
    <3> DEFINE j == a + i
    <3> HIDE DEF j
    <3>2. g[j] = IF g[j - 1] > 0 THEN g[j - 1] - 1 ELSE Remaining(s[j])
      BY <1>5, <3>1 DEF j
    <3>3. h[i] = IF h[i - 1] > 0 THEN h[i - 1] - 1 ELSE Remaining(t[i])
      BY <1>4
    <3> QED  BY <2>2, <3>1, <3>2, <3>3 DEF j
  <2> QED  BY <2>1, <2>2 DEF InStep
<1>9. \A i \in 0..m : h[i] = k[i]
  BY <1>6, <1>8, InStepAgree
<1>10. h[m] = g[b]
  <2>1. a + m = b /\ m \in 0..m
    BY <1>1 DEF m
  <2> QED  BY <1>6, <1>9, <2>1
<1>11. ASSUME NEW i \in 1..m PROVE Fits(h, t, i) <=> Fits(g, s, a + i)
  <2>1. h[i - 1] = g[(a + i) - 1] /\ t[i] = s[a + i]
    BY <1>2, <1>6, <1>7, <1>9
  <2> QED  BY <2>1, Zenon DEF Fits
<1>12. (\A i \in 0 + 1..m : Fits(h, t, i)) <=> \A i \in a + 1..b : Fits(g, s, i)
  <2>1. ASSUME NEW i \in a + 1..b PROVE i - a \in 1..m /\ a + (i - a) = i
    BY <1>1 DEF m
  <2>2. ASSUME NEW i \in 1..m PROVE a + i \in a + 1..b
    BY <1>1 DEF m
  <2>3. 0 + 1 = 1
    OBVIOUS
  <2> QED  BY <1>11, <2>1, <2>2, <2>3
<1> QED  BY <1>2, <1>3, <1>10, <1>12 DEF Whole, t

-----------------------------------------------------------------------------
(* Well-formed texts                                                         *)

\* A byte that is not the last of its character has a leading byte before it.
LEMMA HasLeader ==
    ASSUME NEW s \in Seq(Byte), NEW g, Needs(g, s), NEW i \in 0..Len(s), g[i] > 0
    PROVE  \E j \in 1..i : Remaining(s[j]) = g[i] + (i - j)
<1> DEFINE n == Len(s)
           P == {k \in 0..n : g[k] > 0 => \E j \in 1..k : Remaining(s[j]) = g[k] + (k - j)}
<1>1. n \in Nat /\ \A k \in 1..n : s[k] \in Byte
  BY LenProperties, ElementOfSeq
<1>2. /\ \A k \in 0..n : g[k] \in 0..3
      /\ g[0] = 0 /\ \A k \in 1..n : g[k] = IF g[k - 1] > 0 THEN g[k - 1] - 1 ELSE Remaining(s[k])
  BY DEF Needs
<1> HIDE DEF n
<1>3. 0 \in P
  BY <1>1, <1>2
<1>4. ASSUME NEW k \in 1..n, k - 1 \in P PROVE k \in P
  <2>1. k \in 0..n /\ k - 1 \in 0..n /\ g[k] \in 0..3 /\ g[k - 1] \in 0..3 /\ k \in 1..k
    BY <1>1, <1>2
  <2>2. ASSUME g[k] > 0 PROVE \E j \in 1..k : Remaining(s[j]) = g[k] + (k - j)
    <3>1. CASE g[k - 1] > 0
      <4>1. PICK j \in 1..k - 1 : Remaining(s[j]) = g[k - 1] + ((k - 1) - j)
        BY <1>4, <3>1
      <4>2. g[k] = g[k - 1] - 1
        BY <1>2, <3>1
      <4>3. j \in 1..k /\ Remaining(s[j]) = g[k] + (k - j)
        BY <2>1, <4>1, <4>2
      <4> QED  BY <4>3
    <3>2. CASE ~(g[k - 1] > 0)
      <4>1. Remaining(s[k]) = g[k]
        BY <1>2, <3>2
      <4>2. Remaining(s[k]) = g[k] + (k - k)
        BY <2>1, <4>1
      <4> QED  BY <2>1, <4>2
    <3> QED  BY <3>1, <3>2
  <2> QED  BY <2>1, <2>2
<1>5. 0..n \subseteq P
  <2> HIDE DEF P
  <2> QED  BY <1>1, <1>3, <1>4, UpTo
<1> QED  BY <1>5 DEF n

\* Behind a leading byte the bytes are counted down.
LEMMA CountedDown ==
    ASSUME NEW s \in Seq(Byte), NEW g, Needs(g, s), NEW j \in 1..Len(s), g[j - 1] = 0,
           NEW k \in 0..Remaining(s[j]), j + k <= Len(s)
    PROVE  g[j + k] = Remaining(s[j]) - k
<1> DEFINE n == Len(s)
           r == Remaining(s[j])
           P == {i \in 0..r : j + i <= n => g[j + i] = r - i}
<1>1. n \in Nat /\ (\A i \in 1..n : s[i] \in Byte) /\ j \in 1..n
  BY LenProperties, ElementOfSeq
<1>2. r \in 0..3
  BY <1>1, ContinuationsAreNoOther
<1>3. \A i \in 1..n : g[i] = IF g[i - 1] > 0 THEN g[i - 1] - 1 ELSE Remaining(s[i])
  BY DEF Needs
<1>4. g[j] = r
  BY <1>1, <1>3
<1> HIDE DEF n, r
<1>5. 0 \in P
  <2>1. j + 0 = j /\ r - 0 = r /\ 0 \in 0..r
    BY <1>1, <1>2
  <2> QED  BY <1>4, <2>1
<1>6. ASSUME NEW i \in 1..r, i - 1 \in P PROVE i \in P
  <2>1. i \in 0..r /\ i - 1 \in 0..r
    BY <1>2
  <2>2. ASSUME j + i <= n PROVE g[j + i] = r - i
    <3> DEFINE x == j + i
    <3>1. x \in 1..n /\ j + (i - 1) = x - 1 /\ j + (i - 1) <= n
      BY <1>1, <1>2, <2>2
    <3>2. g[x - 1] = r - (i - 1)
      BY <1>6, <3>1
    <3> HIDE DEF x
    <3>3. g[x] = g[x - 1] - 1
      <4>1. r - (i - 1) > 0
        BY <1>2
      <4> QED  BY <1>3, <3>1, <3>2, <4>1
    <3>4. g[x] = r - i
      BY <1>2, <3>2, <3>3
    <3> QED  BY <3>4 DEF x
  <2> QED  BY <2>1, <2>2
<1>7. 0..r \subseteq P
  <2>1. r \in Nat
    BY <1>2
  <2> HIDE DEF P
  <2> QED  BY <1>5, <1>6, <2>1, UpTo
<1> QED  BY <1>7 DEF n, r

\* A byte is one of two kinds.
LEMMA ByteOrder ==
    ASSUME NEW b \in Byte
    PROVE  b < 128 <=> ~(b >= 128)
BY DEF Byte

\* What the property asks of each byte, by its position.
Leads(s, i) == i + Remaining(s[i]) <= Len(s) /\ \A k \in 1..Remaining(s[i]) : IsContinuation(s[i + k])
Belongs(s, i) ==
    s[i] >= 128 /\ Remaining(s[i]) = 0 =>
        \E j \in 1..i - 1 : IsContinuation(s[i]) /\ i - j <= Remaining(s[j])
Formed(s) == \A i \in 1..Len(s) : Leads(s, i) /\ Belongs(s, i)

\* Whole characters are well-formed.
LEMMA WholeIsFormed ==
    ASSUME NEW s \in Seq(Byte), NEW g, Needs(g, s), Whole(g, s, 0, Len(s))
    PROVE  Formed(s)
<1> DEFINE n == Len(s)
<1>1. n \in Nat /\ \A i \in 1..n : s[i] \in Byte
  BY LenProperties, ElementOfSeq
<1>2. /\ \A i \in 0..n : g[i] \in 0..3
      /\ g[0] = 0 /\ \A i \in 1..n : g[i] = IF g[i - 1] > 0 THEN g[i - 1] - 1 ELSE Remaining(s[i])
  BY DEF Needs
<1>3. g[n] = 0 /\ \A i \in 1..n : Fits(g, s, i)
  <2>1. 0 + 1 = 1
    OBVIOUS
  <2> QED  BY <2>1 DEF Whole
<1> HIDE DEF n
<1> SUFFICES ASSUME NEW i \in 1..n
             PROVE  Leads(s, i) /\ Belongs(s, i)
  BY DEF Formed, n
<1> DEFINE r == Remaining(s[i])
<1>4. r \in 0..3 /\ s[i] \in Byte /\ i - 1 \in 0..n /\ i \in 1..n /\ g[i - 1] \in 0..3
  BY <1>1, <1>2, ContinuationsAreNoOther
<1>5. CASE r = 0
  <2>1. Leads(s, i)
    <3>1. i + r <= n /\ \A k \in 1..r : FALSE
      <4> HIDE DEF r
      <4> QED  BY <1>1, <1>4, <1>5
    <3> QED  BY <3>1, Zenon DEF Leads, r, n
  <2>2. ASSUME s[i] >= 128
        PROVE  \E j \in 1..i - 1 : IsContinuation(s[i]) /\ i - j <= Remaining(s[j])
    <3>1. g[i - 1] > 0 /\ IsContinuation(s[i])
      <4>1. Fits(g, s, i)
        BY <1>3
      <4>2. ~(s[i] < 128)
        BY <1>4, <2>2, ByteOrder
      <4>3. ~(Remaining(s[i]) > 0)
        BY <1>5
      <4> QED  BY <4>1, <4>2, <4>3, Zenon DEF Fits
    <3>2. PICK j \in 1..i - 1 : Remaining(s[j]) = g[i - 1] + ((i - 1) - j)
      <4> DEFINE h == i - 1
      <4>1. h \in 0..Len(s) /\ g[h] > 0
        BY <1>4, <3>1 DEF n
      <4> HIDE DEF h
      <4>2. \E j \in 1..h : Remaining(s[j]) = g[h] + (h - j)
        BY <4>1, HasLeader
      <4> QED  BY <4>2 DEF h
    <3>3. i - j <= Remaining(s[j])
      BY <1>4, <3>1, <3>2
    <3> QED  BY <3>1, <3>3
  <2> QED  BY <2>1, <2>2 DEF Belongs
<1>6. CASE r # 0
  <2>1. Belongs(s, i)
    BY <1>6 DEF Belongs
  <2>2. g[i - 1] = 0
    <3>1. ~IsContinuation(s[i])
      BY <1>4, <1>6, ContinuationsAreNoOther
    <3>2. ~(g[i - 1] > 0)
      BY <1>3, <3>1, Zenon DEF Fits
    <3> QED  BY <1>4, <3>2
  <2>3. ASSUME NEW k \in 0..r, i + k <= n PROVE g[i + k] = r - k
    BY <2>2, <2>3, CountedDown DEF n
  <2> HIDE DEF r
  <2>4. i + r <= n
    <3> SUFFICES ASSUME ~(i + r <= n) PROVE FALSE
      OBVIOUS
    <3> DEFINE k == n - i
    <3>1. k \in 0..r /\ k < r /\ i + k = n
      BY <1>1, <1>4
    <3>2. g[i + k] = r - k
      <4> HIDE DEF k
      <4>1. i + k <= n
        BY <1>1, <3>1
      <4> QED  BY <2>3, <3>1, <4>1
    <3>3. r - k > 0
      BY <1>4, <3>1
    <3> HIDE DEF k
    <3>4. g[n] = r - k
      BY <3>1, <3>2
    <3> QED  BY <1>3, <3>3, <3>4
  <2>5. ASSUME NEW k \in 1..r PROVE IsContinuation(s[i + k])
    <3> DEFINE x == i + k
    <3>1. x \in 1..n /\ k - 1 \in 0..r /\ i + (k - 1) = x - 1 /\ i + (k - 1) <= n
      BY <1>1, <1>4, <2>4
    <3>2. g[x - 1] = r - (k - 1)
      BY <2>3, <3>1
    <3>3. r - (k - 1) > 0
      BY <1>4
    <3> HIDE DEF x
    <3>4. g[x - 1] > 0
      BY <3>2, <3>3
    <3>5. IsContinuation(s[x])
      BY <1>3, <3>1, <3>4, Zenon DEF Fits
    <3> QED  BY <3>5 DEF x
  <2>6. Leads(s, i)
    BY <2>4, <2>5 DEF Leads, r, n
  <2> QED  BY <2>1, <2>6
<1> QED  BY <1>5, <1>6

\* In a well-formed text, bytes that are still needed follow.
LEMMA NeededFollows ==
    ASSUME NEW s \in Seq(Byte), NEW g, Needs(g, s), Formed(s), NEW i \in 0..Len(s), g[i] > 0
    PROVE  i + 1 \in 1..Len(s) /\ IsContinuation(s[i + 1])
<1> DEFINE n == Len(s)
<1>1. n \in Nat /\ \A k \in 1..n : s[k] \in Byte
  BY LenProperties, ElementOfSeq
<1>2. g[i] \in 0..3
  BY DEF Needs
<1>3. PICK j \in 1..i : Remaining(s[j]) = g[i] + (i - j)
  BY HasLeader
<1> DEFINE r == Remaining(s[j])
           k == (i + 1) - j
<1>4. j \in 1..n /\ i \in 0..n
  BY <1>1
<1>5. j + r <= n /\ \A c \in 1..r : IsContinuation(s[j + c])
  BY <1>4 DEF Formed, Leads, n
<1>6. k \in 1..r /\ j + k = i + 1
  BY <1>1, <1>2, <1>3, <1>4
<1>7. i + 1 \in 1..n
  <2> HIDE DEF k, n
  <2>1. r \in Int
    BY <1>1, <1>4, ContinuationsAreNoOther
  <2> HIDE DEF r
  <2> QED  BY <1>1, <1>4, <1>5, <1>6, <2>1
<1>8. IsContinuation(s[i + 1])
  <2> HIDE DEF k, r
  <2>1. IsContinuation(s[j + k])
    BY <1>5, <1>6
  <2> QED  BY <1>6, <2>1
<1> QED  BY <1>7, <1>8

\* Well-formed texts are whole characters.
LEMMA FormedIsWhole ==
    ASSUME NEW s \in Seq(Byte), NEW g, Needs(g, s), Formed(s)
    PROVE  Whole(g, s, 0, Len(s))
<1> DEFINE n == Len(s)
<1>1. n \in Nat /\ \A k \in 1..n : s[k] \in Byte
  BY LenProperties, ElementOfSeq
<1>2. \A i \in 0..n : g[i] \in 0..3
  BY DEF Needs
<1>3. ASSUME NEW i \in 0..n, g[i] > 0
      PROVE  i + 1 \in 1..n /\ IsContinuation(s[i + 1])
  BY <1>3, NeededFollows
<1> HIDE DEF n
<1>4. g[n] = 0
  <2>1. n \in 0..n /\ ~(n + 1 \in 1..n)
    BY <1>1
  <2>2. ~(g[n] > 0)
    BY <1>3, <2>1
  <2> QED  BY <1>2, <2>1, <2>2
<1>5. ASSUME NEW i \in 1..n PROVE Fits(g, s, i)
  <2>1. i - 1 \in 0..n /\ (i - 1) + 1 = i /\ s[i] \in Byte /\ g[i - 1] \in 0..3
    BY <1>1, <1>2
  <2>2. CASE g[i - 1] > 0
    <3>1. IsContinuation(s[(i - 1) + 1])
      BY <1>3, <2>1, <2>2
    <3>2. IsContinuation(s[i])
      BY <2>1, <3>1
    <3> QED  BY <2>2, <3>2 DEF Fits
  <2>3. CASE ~(g[i - 1] > 0)
    <3> SUFFICES ASSUME ~(s[i] < 128), ~(Remaining(s[i]) > 0) PROVE FALSE
      BY <2>3, Zenon DEF Fits
    <3>1. s[i] >= 128 /\ Remaining(s[i]) = 0
      <4>1. Remaining(s[i]) \in 0..3
        BY <2>1, ContinuationsAreNoOther
      <4>2. s[i] >= 128
        BY <2>1, ByteOrder
      <4> QED  BY <4>1, <4>2
    <3>2. PICK j \in 1..i - 1 : IsContinuation(s[i]) /\ i - j <= Remaining(s[j])
      BY <3>1 DEF Formed, Belongs, n
    <3> DEFINE r == Remaining(s[j])
               k == (i - 1) - j
    <3>3. j \in 1..n /\ r \in 0..3 /\ (IsContinuation(s[j]) => r = 0)
      BY <1>1, ContinuationsAreNoOther
    <3>4. g[j - 1] = 0
      <4>1. j - 1 \in 0..n /\ (j - 1) + 1 = j
        BY <1>1, <3>3
      <4>2. ~IsContinuation(s[j])
        <5>1. i - j > 0 /\ i - j <= r
          BY <3>2, <1>1
        <5> QED  BY <3>3, <5>1
      <4>3. ~(g[j - 1] > 0)
        BY <1>3, <4>1, <4>2
      <4> QED  BY <1>2, <4>1, <4>3
    <3>5. k \in 0..r /\ j + k = i - 1 /\ j + k <= n /\ k < r
      BY <1>1, <3>2, <3>3
    <3>6. g[j + k] = r - k
      <4> HIDE DEF k
      <4> QED  BY <3>3, <3>4, <3>5, CountedDown DEF n
    <3>7. r - k > 0
      BY <3>3, <3>5
    <3> HIDE DEF k, r
    <3> QED  BY <2>3, <3>5, <3>6, <3>7
  <2> QED  BY <2>2, <2>3
<1> QED  BY <1>4, <1>5 DEF Whole, n

\* What the property calls well-formed.
LEMMA WellFormedIsFormed == WellFormed <=> Formed(text)
BY Zenon DEF WellFormed, Formed, Leads, Belongs

\* Whole characters up to b, and from there to c.
LEMMA WholeGoesOn ==
    ASSUME NEW g, NEW s, NEW b \in Nat, NEW c \in Nat, b <= c,
           Whole(g, s, 0, b), Whole(g, s, b, c)
    PROVE  Whole(g, s, 0, c)
<1>1. ASSUME NEW i \in 0 + 1..c PROVE i \in 0 + 1..b \/ i \in b + 1..c
  OBVIOUS
<1> QED  BY <1>1 DEF Whole

\* Whole characters up to the end are whole where one ends.
LEMMA WholeBetween ==
    ASSUME NEW g, NEW s, NEW a \in Nat, NEW b \in Nat, NEW n \in Nat, a <= b, b <= n,
           Whole(g, s, 0, n), g[b] = 0
    PROVE  Whole(g, s, a, b)
<1>1. ASSUME NEW i \in a + 1..b PROVE i \in 0 + 1..n
  OBVIOUS
<1> QED  BY <1>1 DEF Whole

-----------------------------------------------------------------------------
(* Special tokens in the text                                                *)

\* s stands in t behind the first at bytes.
Stands(s, at, t) == at + Len(s) <= Len(t) /\ SubSeq(t, at + 1, at + Len(s)) = s

\* No special token in t goes across o.
Clear(t, o) ==
    \A s \in Specials, at \in 0..Len(t) : Stands(s, at, t) => at + Len(s) <= o \/ at >= o

\* The n-th byte of t is one of a special token.
Hidden(t, n) == \E s \in Specials, at \in 0..Len(t) : Stands(s, at, t) /\ n \in at + 1..at + Len(s)

\* The bytes of a token where it stands.
LEMMA StandingBytes ==
    ASSUME NEW t \in Seq(Byte), NEW s \in Specials, NEW at \in 0..Len(t), Stands(s, at, t)
    PROVE  /\ Len(s) \in Nat \ {0} /\ at + Len(s) \in 0..Len(t)
           /\ \A i \in 1..Len(s) : at + i \in 1..Len(t) /\ t[at + i] = s[i]
<1> DEFINE m == Len(s)
           n == Len(t)
<1>1. s \in Seq(Byte) /\ m \in Nat \ {0}
  BY SpecialIsKnown, EmptySeq
<1>2. n \in Nat /\ (\A i \in 1..n : t[i] \in Byte) /\ at + m <= n /\ SubSeq(t, at + 1, at + m) = s
  BY LenProperties, ElementOfSeq DEF Stands
<1> HIDE DEF m, n
<1>3. at + 1 \in Int /\ at + m \in Int /\ at \in 0..n
  BY <1>1, <1>2 DEF n
<1>4. \A i \in at + 1..at + m : t[i] \in Byte
  BY <1>1, <1>2, <1>3
<1>5. \A i \in 1..(at + m) - (at + 1) + 1 : s[i] = t[(at + 1) + i - 1]
  BY <1>2, <1>3, <1>4, SubSeqProperties
<1>6. ASSUME NEW i \in 1..m PROVE at + i \in 1..n /\ t[at + i] = s[i]
  <2>1. i \in 1..(at + m) - (at + 1) + 1 /\ (at + 1) + i - 1 = at + i /\ at + i \in 1..n
    BY <1>1, <1>2, <1>3
  <2> QED  BY <1>5, <2>1
<1>7. at + m \in 0..n
  BY <1>1, <1>2, <1>3
<1> QED  BY <1>1, <1>6, <1>7 DEF m, n

\* Two tokens do not stand at one place.
LEMMA OneStands ==
    ASSUME NEW t \in Seq(Byte), NEW r \in Specials, NEW s \in Specials, NEW at \in 0..Len(t),
           Stands(r, at, t), Stands(s, at, t)
    PROVE  r = s
<1>1. ASSUME NEW x \in Specials, NEW y \in Specials, Stands(x, at, t), Stands(y, at, t), Len(x) <= Len(y)
      PROVE  x = y
  <2> DEFINE m == Len(x)
             p == SubSeq(x, 1, m)
             q == SubSeq(y, 1, m)
  <2>1. x \in Seq(Byte) /\ y \in Seq(Byte) /\ m \in Nat /\ Len(y) \in Nat
    BY SpecialIsKnown, LenProperties
  <2>2. \A i \in 1..m : x[i] = t[at + i] /\ x[i] \in Byte
    BY <1>1, <2>1, StandingBytes, ElementOfSeq
  <2>3. \A i \in 1..m : y[i] = t[at + i]
    <3>1. \A i \in 1..Len(y) : y[i] = t[at + i]
      BY <1>1, StandingBytes
    <3> QED  BY <1>1, <2>1, <3>1
  <2>4. \A i \in 1..m : y[i] = x[i]
    BY <2>2, <2>3
  <2>5. p = x
    BY <2>1, SubSeqFull
  <2>6. q \in Seq(Byte) /\ Len(q) = m /\ \A i \in 1..m : q[i] = y[i]
    <3> HIDE DEF m
    <3>1. 1 \in Int /\ m \in Int /\ \A i \in 1..m : y[i] \in Byte
      BY <2>1, <2>2, <2>4
    <3>2. /\ q \in Seq(Byte) /\ Len(q) = (IF 1 <= m THEN m - 1 + 1 ELSE 0)
          /\ \A i \in 1..m - 1 + 1 : q[i] = y[1 + i - 1]
      BY <3>1, SubSeqProperties
    <3> HIDE DEF q
    <3> QED  BY <2>1, <3>2
  <2> HIDE DEF q
  <2>7. q = x
    BY <2>1, <2>4, <2>6, SeqEqual
  <2>8. IsPrefix(x, y)
    BY <1>1, <2>5, <2>7 DEF IsPrefix, q
  <2> QED  BY <2>8, VocabularyAssumption
<1>2. Len(r) \in Nat /\ Len(s) \in Nat
  BY SpecialIsKnown, LenProperties
<1>3. Len(r) <= Len(s) \/ Len(s) <= Len(r)
  BY <1>2
<1> QED  BY <1>1, <1>3

\* No token begins inside another.
LEMMA ClearBehind ==
    ASSUME NEW t \in Seq(Byte), NEW o \in 0..Len(t), NEW s \in Specials, Stands(s, o, t), Clear(t, o)
    PROVE  Clear(t, o + Len(s))
<1> SUFFICES ASSUME NEW r \in Specials, NEW at \in 0..Len(t), Stands(r, at, t)
             PROVE  at + Len(r) <= o + Len(s) \/ at >= o + Len(s)
  BY DEF Clear
<1>1. /\ Len(s) \in Nat \ {0} /\ \A i \in 1..Len(s) : t[o + i] = s[i]
      /\ Len(r) \in Nat \ {0} /\ \A i \in 1..Len(r) : t[at + i] = r[i]
  BY StandingBytes
<1>2. at + Len(r) <= o \/ at >= o
  BY DEF Clear
<1>3. o \in Nat /\ at \in Nat
  <2>1. Len(t) \in Nat
    BY LenProperties
  <2> QED  BY <2>1
<1>4. CASE at + Len(r) <= o
  BY <1>1, <1>3, <1>4
<1>5. CASE at = o
  <2>1. r = s
    BY <1>5, OneStands
  <2> QED  BY <1>1, <1>3, <1>5, <2>1
<1>6. CASE at > o
  <2> SUFFICES ASSUME at < o + Len(s) PROVE FALSE
    BY <1>1, <1>3
  <2> DEFINE k == at - o
             m == Len(s)
  <2>1. k \in 1..m - 1 /\ o + k = at
    BY <1>1, <1>3, <1>6
  <2>2. \A j \in 1..m - 1 : \E i \in 1..Len(r) : j + i <= m /\ s[j + i] # r[i]
    BY SpecialsAssumption
  <2> HIDE DEF k, m
  <2>3. PICK i \in 1..Len(r) : k + i <= m /\ s[k + i] # r[i]
    BY <2>1, <2>2
  <2>4. m \in Nat /\ k + i \in 1..m /\ o + (k + i) = at + i
    <3>1. m \in Nat /\ Len(r) \in Nat /\ i \in 1..Len(r)
      BY <1>1 DEF m
    <3> QED  BY <1>3, <2>1, <2>3, <3>1
  <2> DEFINE x == k + i
  <2>5. t[o + x] = s[x]
    <3>1. x \in 1..m
      BY <2>4
    <3> HIDE DEF x
    <3> QED  BY <1>1, <3>1 DEF m
  <2>6. t[at + i] = s[k + i]
    BY <2>4, <2>5
  <2> QED  BY <1>1, <2>3, <2>6
<1> QED  BY <1>1, <1>2, <1>3, <1>4, <1>5, <1>6

\* All its bytes are hidden.
LEMMA TokenIsHidden ==
    ASSUME NEW t \in Seq(Byte), NEW o \in 0..Len(t), NEW s \in Specials, Stands(s, o, t)
    PROVE  \A n \in o + 1..o + Len(s) : Hidden(t, n)
BY DEF Hidden

\* Where no token is found, none begins and none is crossed.
FirstAt(t, o, e) ==
    /\ e \in o..Len(t)
    /\ \A s \in Specials, at \in 0..Len(t) : Stands(s, at, t) /\ at >= o => at >= e

LEMMA ClearBefore ==
    ASSUME NEW t \in Seq(Byte), NEW o \in 0..Len(t), Clear(t, o), NEW e, FirstAt(t, o, e)
    PROVE  Clear(t, e) /\ \A n \in o + 1..e : ~Hidden(t, n)
<1>1. Len(t) \in Nat /\ o \in Nat /\ e \in Nat /\ o <= e
  <2>1. Len(t) \in Nat
    BY LenProperties
  <2> QED  BY <2>1 DEF FirstAt
<1>2. ASSUME NEW s \in Specials, NEW at \in 0..Len(t), Stands(s, at, t)
      PROVE  at + Len(s) <= o \/ at >= e
  <2>1. at + Len(s) <= o \/ at >= o
    BY <1>2 DEF Clear
  <2>2. at >= o => at >= e
    BY <1>2 DEF FirstAt
  <2> QED  BY <2>1, <2>2
<1>3. ASSUME NEW s \in Specials, NEW at \in 0..Len(t), Stands(s, at, t)
      PROVE  at \in Nat /\ Len(s) \in Nat
  BY <1>1, <1>3, StandingBytes
<1>4. Clear(t, e)
  <2> SUFFICES ASSUME NEW s \in Specials, NEW at \in 0..Len(t), Stands(s, at, t)
               PROVE  at + Len(s) <= e \/ at >= e
    BY DEF Clear
  <2>1. at \in Nat /\ Len(s) \in Nat /\ (at + Len(s) <= o \/ at >= e)
    BY <1>2, <1>3
  <2> QED  BY <1>1, <2>1
<1>5. ASSUME NEW n \in o + 1..e, Hidden(t, n) PROVE FALSE
  <2>1. PICK s \in Specials, at \in 0..Len(t) : Stands(s, at, t) /\ n \in at + 1..at + Len(s)
    BY <1>5 DEF Hidden
  <2>2. at \in Nat /\ Len(s) \in Nat /\ (at + Len(s) <= o \/ at >= e)
    BY <1>2, <1>3, <2>1
  <2> QED  BY <1>1, <2>1, <2>2
<1> QED  BY <1>4, <1>5

\* Segment() looks for the first.
LEMMA SegmentIsFirst ==
    ASSUME Types
    PROVE  FirstAt(text, offset, Min(Occurrences \cup {Len(text)}))
<1> DEFINE T == Occurrences \cup {Len(text)}
           e == Min(T)
<1>1. Len(text) \in Nat /\ offset \in 0..Len(text) /\ text \in Seq(Byte)
  BY LenProperties DEF Types
<1>2. T \subseteq offset..Len(text) /\ T # {}
  BY <1>1 DEF Occurrences
<1>3. ASSUME NEW s \in Specials, NEW at \in 0..Len(text), Stands(s, at, text), at >= offset
      PROVE  at \in T
  <2>1. Len(s) \in Nat \ {0} /\ at + Len(s) \in 0..Len(text)
    BY <1>1, <1>3, StandingBytes
  <2>2. at \in offset..Len(text) - 1
    BY <1>1, <1>3, <2>1
  <2>3. OccursAt(s, at)
    BY <1>3 DEF Stands, OccursAt
  <2> QED  BY <2>2, <2>3 DEF Occurrences
<1> HIDE DEF T
<1>4. T \subseteq Nat
  BY <1>1, <1>2
<1>5. \E x \in T : \A y \in T : x <= y
  BY <1>2, <1>4, LeastNatural
<1>6. e \in T /\ \A y \in T : e <= y
  BY <1>5 DEF Min
<1>7. e \in offset..Len(text)
  BY <1>2, <1>6
<1> HIDE DEF e
<1>8. ASSUME NEW s \in Specials, NEW at \in 0..Len(text), Stands(s, at, text), at >= offset
      PROVE  at >= e
  <2>1. e <= at
    BY <1>3, <1>6, <1>8
  <2> QED  BY <1>1, <1>7, <2>1
<1>9. FirstAt(text, offset, e)
  BY <1>7, <1>8 DEF FirstAt
<1> QED  BY <1>9 DEF e, T

-----------------------------------------------------------------------------
(* What is to be decoded                                                     *)

\* k[n] is what is kept of the first n bytes of t: all, or all but tokens.
IsKept(k, t, skipped) ==
    /\ k[0] = <<>>
    /\ \A n \in 1..Len(t) :
        k[n] = IF skipped /\ Hidden(t, n) THEN k[n - 1] ELSE Append(k[n - 1], t[n])

\* They are bytes.
LEMMA KeptType ==
    ASSUME NEW t \in Seq(Byte), NEW skipped, NEW k, IsKept(k, t, skipped), NEW n \in 0..Len(t)
    PROVE  k[n] \in Seq(Byte)
<1> DEFINE l == Len(t)
           P == {i \in 0..l : k[i] \in Seq(Byte)}
<1>1. l \in Nat /\ \A i \in 1..l : t[i] \in Byte
  BY LenProperties, ElementOfSeq
<1>2. k[0] = <<>> /\ \A i \in 1..l : k[i] = k[i - 1] \/ k[i] = Append(k[i - 1], t[i])
  BY DEF IsKept
<1> HIDE DEF l
<1>3. 0 \in P
  <2>1. <<>> \in Seq(Byte) /\ 0 \in 0..l
    BY <1>1, EmptySeq
  <2> QED  BY <1>2, <2>1
<1>4. ASSUME NEW i \in 1..l, i - 1 \in P
      PROVE  i \in P
  <2>1. k[i - 1] \in Seq(Byte) /\ t[i] \in Byte /\ i \in 0..l
    BY <1>1, <1>4
  <2>2. Append(k[i - 1], t[i]) \in Seq(Byte)
    BY <2>1, AppendProperties
  <2>3. k[i] \in Seq(Byte)
    BY <1>2, <2>1, <2>2
  <2> QED  BY <2>1, <2>3
<1>5. 0..l \subseteq P
  <2> HIDE DEF P
  <2> QED  BY <1>1, <1>3, <1>4, UpTo
<1>6. n \in 0..l
  BY DEF l
<1> QED  BY <1>5, <1>6

\* Bytes outside tokens are kept, and all others too if none is to be skipped.
LEMMA KeptPlain ==
    ASSUME NEW t \in Seq(Byte), NEW skipped, NEW k, IsKept(k, t, skipped),
           NEW a \in 0..Len(t), NEW b \in a..Len(t),
           \A n \in a + 1..b : ~(skipped /\ Hidden(t, n))
    PROVE  k[b] = k[a] \o SubSeq(t, a + 1, b)
<1> DEFINE l == Len(t)
           m == b - a
           P == {i \in 0..m : k[a + i] = k[a] \o SubSeq(t, a + 1, a + i)}
<1>1. l \in Nat /\ \A i \in 1..l : t[i] \in Byte
  BY LenProperties, ElementOfSeq
<1>2. a \in 0..l /\ b \in a..l /\ m \in Nat /\ a + m = b /\ k[a] \in Seq(Byte)
  <2>1. k[a] \in Seq(Byte)
    BY KeptType
  <2> QED  BY <1>1, <2>1
<1>3. \A n \in 1..l : n \in a + 1..b => k[n] = Append(k[n - 1], t[n])
  BY DEF IsKept
<1> HIDE DEF l, m
<1>4. 0 \in P
  <2>1. SubSeq(t, a + 1, a) = <<>>
    BY <1>2, SubSeqEmpty
  <2>2. k[a] \o <<>> = k[a]
    BY <1>2, ConcatEmptySeq
  <2>3. a + 0 = a /\ 0 \in 0..m
    BY <1>2
  <2>4. k[a] = k[a] \o SubSeq(t, a + 1, a)
    BY <2>1, <2>2
  <2> QED  BY <2>3, <2>4
<1>5. ASSUME NEW i \in 1..m, i - 1 \in P
      PROVE  i \in P
  <2> DEFINE n == a + i
             h == n - 1
             p == SubSeq(t, a + 1, h)
  <2>1. n \in 1..l /\ n \in a + 1..b /\ n \in a + 1..l /\ a + 1 \in 1..l /\ h \in 0..l /\ a + (i - 1) = h
        /\ i \in 0..m
    BY <1>1, <1>2
  <2>2. k[h] = k[a] \o p
    BY <1>5, <2>1
  <2>3. k[n] = Append(k[h], t[n]) /\ t[n] \in Byte
    BY <1>1, <1>3, <2>1
  <2>4. k[h] \in Seq(Byte)
    <3> HIDE DEF h
    <3> QED  BY <2>1, KeptType DEF l
  <2>5. SubSeq(t, a + 1, n) = p \o <<t[n]>>
    <3> HIDE DEF n
    <3> QED  BY <2>1, SubSeqRecursiveSecond DEF l
  <2>6. p \in Seq(Byte)
    <3>1. a + 1 \in Int /\ h \in Int /\ \A j \in a + 1..h : t[j] \in Byte
      BY <1>1, <1>2, <2>1
    <3> QED  BY <3>1, SubSeqProperties
  <2> HIDE DEF p, n, h
  <2>7. k[n] = (k[a] \o p) \o <<t[n]>>
    BY <2>2, <2>3, <2>4, AppendIsConcat
  <2>8. k[n] = k[a] \o (p \o <<t[n]>>)
    <3> DEFINE v == <<t[n]>>
               w == k[a]
    <3>1. v \in Seq(Byte) /\ w \in Seq(Byte)
      <4> DEFINE e == t[n]
      <4>1. e \in Byte
        BY <2>3
      <4> HIDE DEF e
      <4> QED  BY <1>2, <4>1 DEF e
    <3> HIDE DEF v, w
    <3>2. Rejoins(w, p, v)
      BY <2>6, <3>1, Rejoin
    <3> QED  BY <2>7, <3>2, Zenon DEF Rejoins, v, w
  <2>9. k[n] = k[a] \o SubSeq(t, a + 1, n)
    BY <2>5, <2>8
  <2> QED  BY <2>1, <2>9 DEF n
<1>6. 0..m \subseteq P
  <2> HIDE DEF P
  <2> QED  BY <1>2, <1>4, <1>5, UpTo
<1>7. m \in P
  <2>1. m \in 0..m
    BY <1>2
  <2> QED  BY <1>6, <2>1, Zenon
<1>8. k[a + m] = k[a] \o SubSeq(t, a + 1, a + m)
  BY <1>7
<1> QED  BY <1>2, <1>8, Zenon

\* Bytes of tokens are not kept if they are to be skipped.
LEMMA KeptHidden ==
    ASSUME NEW t \in Seq(Byte), NEW skipped, NEW k, IsKept(k, t, skipped),
           NEW a \in 0..Len(t), NEW b \in a..Len(t),
           \A n \in a + 1..b : skipped /\ Hidden(t, n)
    PROVE  k[b] = k[a]
<1> DEFINE l == Len(t)
           m == b - a
           P == {i \in 0..m : k[a + i] = k[a]}
<1>1. l \in Nat
  BY LenProperties
<1>2. a \in 0..l /\ b \in a..l /\ m \in Nat /\ a + m = b /\ a + 0 = a
  BY <1>1
<1>3. \A n \in 1..l : n \in a + 1..b => k[n] = k[n - 1]
  BY DEF IsKept
<1> HIDE DEF l, m
<1>4. 0 \in P
  BY <1>2
<1>5. ASSUME NEW i \in 1..m, i - 1 \in P
      PROVE  i \in P
  <2>1. a + i \in 1..l /\ a + i \in a + 1..b /\ a + (i - 1) = (a + i) - 1 /\ i \in 0..m
    BY <1>1, <1>2
  <2>2. k[a + i] = k[(a + i) - 1]
    BY <1>3, <2>1
  <2>3. k[a + (i - 1)] = k[a]
    BY <1>5
  <2> QED  BY <2>1, <2>2, <2>3
<1>6. 0..m \subseteq P
  <2> HIDE DEF P
  <2> QED  BY <1>2, <1>4, <1>5, UpTo
<1>7. m \in P
  BY <1>2, <1>6
<1> QED  BY <1>2, <1>7

\* The positions of tokens are those of their bytes.
LEMMA PositionsAreHidden ==
    ASSUME NEW n
    PROVE  n \in SpecialPositions <=> Hidden(text, n)
<1>1. ASSUME n \in SpecialPositions PROVE Hidden(text, n)
  <2>1. PICK y \in (0..Len(text)) \X Specials : OccursAt(y[2], y[1]) /\ n \in y[1] + 1..y[1] + Len(y[2])
    BY <1>1 DEF SpecialPositions
  <2>2. y[1] \in 0..Len(text) /\ y[2] \in Specials
    BY <2>1
  <2>3. Stands(y[2], y[1], text)
    BY <2>1 DEF OccursAt, Stands
  <2> QED  BY <2>1, <2>2, <2>3 DEF Hidden
<1>2. ASSUME Hidden(text, n) PROVE n \in SpecialPositions
  <2>1. PICK s \in Specials, at \in 0..Len(text) : Stands(s, at, text) /\ n \in at + 1..at + Len(s)
    BY <1>2 DEF Hidden
  <2> DEFINE y == <<at, s>>
  <2>2. y \in (0..Len(text)) \X Specials /\ y[1] = at /\ y[2] = s
    BY <2>1
  <2> HIDE DEF y
  <2>3. OccursAt(y[2], y[1]) /\ n \in y[1] + 1..y[1] + Len(y[2])
    BY <2>1, <2>2 DEF OccursAt, Stands
  <2> QED  BY <2>2, <2>3 DEF SpecialPositions
<1> QED  BY <1>1, <1>2

\* What the property expects is what is kept of the whole text.
LEMMA KeptIsExpected ==
    ASSUME text \in Seq(Byte)
    PROVE  \E k : IsKept(k, text, skip) /\ Expected = k[Len(text)]
<1> DEFINE n == Len(text)
           D == Seq(Byte)
           dropped == IF skip THEN SpecialPositions ELSE {}
           step == [i \in 1..n |-> [q \in D |-> IF i \in dropped THEN q ELSE Append(q, text[i])]]
           recursive(f) == f = [i \in 0..n |-> IF i = 0 THEN <<>> ELSE
                                   IF i \in dropped THEN f[i - 1] ELSE Append(f[i - 1], text[i])]
<1>1. n \in Nat /\ \A i \in 1..n : text[i] \in Byte
  BY LenProperties, ElementOfSeq
<1>2. <<>> \in D
  OBVIOUS
<1>3. step \in [1..n -> [D -> D]]
  <2>1. \A i \in 1..n, q \in D : Append(q, text[i]) \in D
    BY <1>1, AppendProperties
  <2> HIDE DEF D, dropped
  <2> QED  BY <2>1
<1>4. PICK g : Iteration(g, n, D, <<>>, step)
  <2> HIDE DEF n, D, step
  <2> QED  BY <1>1, <1>2, <1>3, Iterates
<1> DEFINE f == [i \in 0..n |-> g[i]]
<1> HIDE DEF n, D, dropped
<1>5. g[0] = <<>> /\ \A i \in 1..n : g[i] = IF i \in dropped THEN g[i - 1] ELSE Append(g[i - 1], text[i])
  <2>1. \A i \in 1..n : i - 1 \in 0..n
    BY <1>1
  <2>2. \A i \in 1..n : g[i - 1] \in D /\ g[i] = step[i][g[i - 1]]
    BY <1>4, <2>1 DEF Iteration
  <2> QED  BY <1>4, <2>2 DEF Iteration
<1> HIDE DEF step
<1>6. recursive(f)
  <2>1. \A i \in 0..n : i = 0 \/ (i \in 1..n /\ i - 1 \in 0..n)
    BY <1>1
  <2>2. \A i \in 0..n : f[i] = IF i = 0 THEN <<>> ELSE
                                   IF i \in dropped THEN f[i - 1] ELSE Append(f[i - 1], text[i])
    BY <1>1, <1>5, <2>1
  <2> QED  BY <2>2
<1> DEFINE kept == CHOOSE h : recursive(h)
<1>7. recursive(kept)
  <2> HIDE DEF recursive, f
  <2> QED  BY <1>6
<1>8. Expected = kept[n]
  BY DEF Expected, n, dropped
<1> HIDE DEF kept
<1>9. kept[0] = <<>> /\ \A i \in 1..n : kept[i] = IF i \in dropped THEN kept[i - 1] ELSE Append(kept[i - 1], text[i])
  <2>1. 0 \in 0..n /\ \A i \in 1..n : i \in 0..n /\ i # 0
    BY <1>1
  <2> QED  BY <1>7, <2>1
<1>10. \A i \in 1..n : i \in dropped <=> skip /\ Hidden(text, i)
  BY PositionsAreHidden DEF dropped
<1>11. IsKept(kept, text, skip)
  BY <1>9, <1>10, Zenon DEF IsKept, n
<1> QED  BY <1>8, <1>11 DEF n

-----------------------------------------------------------------------------
(* The vocabulary                                                            *)

\* Each byte of t has an entry of its own.
Covered(t) == \A i \in 1..Len(t) : <<ByteSymbol(t[i])>> \in Range(Tokens)

\* So do the bytes of two parts if and only if those of the whole do.
LEMMA CoveredParts ==
    ASSUME NEW s \in Seq(Byte), NEW t \in Seq(Byte)
    PROVE  Covered(s \o t) <=> Covered(s) /\ Covered(t)
<1> DEFINE m == Len(s)
           n == Len(t)
           u == s \o t
           v(b) == <<ByteSymbol(b)>> \in Range(Tokens)
<1>1. m \in Nat /\ n \in Nat /\ Len(u) = m + n
  BY LenProperties, ConcatProperties
<1>2. \A i \in 1..m + n : u[i] = IF i <= m THEN s[i] ELSE t[i - m]
  BY ConcatProperties
<1>3. /\ Covered(u) <=> \A i \in 1..m + n : v(u[i])
      /\ Covered(s) <=> \A i \in 1..m : v(s[i])
      /\ Covered(t) <=> \A i \in 1..n : v(t[i])
  BY <1>1 DEF Covered
<1> HIDE DEF m, n, u, v
<1>4. \A i \in 1..m : i \in 1..m + n /\ u[i] = s[i]
  BY <1>1, <1>2
<1>5. \A i \in 1..n : m + i \in 1..m + n /\ u[m + i] = t[i]
  BY <1>1, <1>2
<1>6. ASSUME Covered(u) PROVE Covered(s) /\ Covered(t)
  <2>1. \A i \in 1..m : v(s[i])
    BY <1>3, <1>4, <1>6, Zenon
  <2>2. \A i \in 1..n : v(t[i])
    BY <1>3, <1>5, <1>6, Zenon
  <2> QED  BY <1>3, <2>1, <2>2
<1>7. ASSUME Covered(s), Covered(t) PROVE Covered(u)
  <2>1. ASSUME NEW i \in 1..m + n PROVE v(u[i])
    <3>1. CASE i <= m
      <4>1. i \in 1..m
        BY <1>1, <3>1
      <4> QED  BY <1>3, <1>4, <1>7, <4>1, Zenon
    <3>2. CASE ~(i <= m)
      <4>1. i - m \in 1..n /\ u[i] = t[i - m]
        BY <1>1, <1>2, <3>2
      <4> QED  BY <1>3, <1>7, <4>1, Zenon
    <3> QED  BY <3>1, <3>2
  <2> QED  BY <1>3, <2>1
<1> QED  BY <1>6, <1>7 DEF u

\* The bytes of every input have.
LEMMA InputIsCovered == Init => Covered(text)
<1>1. ASSUME NEW t \in Texts \cup Prompts \cup {Before, After}
      PROVE  t \in Seq(Byte) /\ Covered(t)
  <2>1. t \in Seq(Byte) /\ DOMAIN t = 1..Len(t)
    BY BytesAssumption, LenProperties
  <2>2. \A i \in DOMAIN t : <<ByteSymbol(t[i])>> \in Range(Tokens)
    BY CoverageAssumption
  <2> QED  BY <2>1, <2>2 DEF Covered
<1>2. ASSUME NEW p \in Prompts PROVE Covered(ChatPrompt(p))
  <2> DEFINE b == Before \o p
  <2>1. /\ Before \in Seq(Byte) /\ p \in Seq(Byte) /\ After \in Seq(Byte)
        /\ Covered(Before) /\ Covered(p) /\ Covered(After)
    BY <1>1
  <2>2. b \in Seq(Byte) /\ Covered(b)
    BY <2>1, CoveredParts, ConcatProperties
  <2> HIDE DEF b
  <2>3. Covered(b \o After)
    BY <2>1, <2>2, CoveredParts
  <2> QED  BY <2>3 DEF ChatPrompt, b
<1> SUFFICES ASSUME Init PROVE Covered(text)
  OBVIOUS
<1>3. text \in Texts \/ \E p \in Prompts : text = ChatPrompt(p)
  BY DEF Init
<1> QED  BY <1>1, <1>2, <1>3

\* The symbols that are put out are entries.
Entries(m) == \A i \in 1..Len(m) : m[i][1] \in Range(Tokens)

\* Joining two symbols by a rule makes an entry.
LEMMA PutsEntries ==
    ASSUME NEW done \in Seq(Marked), NEW x \in Seq(Symbol), NEW r \in DOMAIN MergeRules,
           Entries(done), x \in Range(Tokens)
    PROVE  Entries(Put(done, x, MergeRules[r]))
<1> DEFINE rule == MergeRules[r]
           t == Put(done, x, rule)
           n == Len(done)
<1>1. n \in Nat /\ \A i \in 1..n : done[i][1] \in Range(Tokens)
  BY LenProperties DEF Entries
<1>2. rule[1] \o rule[2] \in Range(Tokens)
  BY CoverageAssumption
<1> HIDE DEF rule
<1> DEFINE y == <<rule[1] \o rule[2], TRUE>>
           z == <<x, FALSE>>
<1>3. y[1] \in Range(Tokens) /\ z[1] \in Range(Tokens)
  BY <1>2
<1> HIDE DEF y, z
<1>4. CASE /\ done # <<>> /\ done[Len(done)] = <<rule[1], FALSE>> /\ x = rule[2]
  <2>1. t = Append(Front(done), y)
    BY <1>4 DEF Put, y
  <2>2. Front(done) = SubSeq(done, 1, n - 1) /\ n # 0
    BY <1>4, EmptySeq DEF Front
  <2> DEFINE f == Front(done)
             l == n - 1
  <2>3. f \in Seq(Marked) /\ Len(f) = l /\ l \in Nat /\ \A i \in 1..l : f[i] = done[i] /\ i \in 1..n
    <3>1. \A i \in 1..n : done[i] \in Marked
      BY ElementOfSeq
    <3> HIDE DEF n
    <3>2. l \in Nat /\ 1 \in Int /\ l \in Int /\ (\A i \in 1..l : i \in 1..n /\ done[i] \in Marked) /\ l - 1 + 1 = l
      BY <1>1, <2>2, <3>1
    <3> HIDE DEF l
    <3>3. /\ SubSeq(done, 1, l) \in Seq(Marked)
          /\ Len(SubSeq(done, 1, l)) = IF 1 <= l THEN l - 1 + 1 ELSE 0
          /\ \A i \in 1..l - 1 + 1 : SubSeq(done, 1, l)[i] = done[1 + i - 1]
      BY <3>2, SubSeqProperties
    <3>4. f = SubSeq(done, 1, l)
      BY <2>2 DEF l
    <3> HIDE DEF f
    <3>5. Len(f) = l
      BY <3>2, <3>3, <3>4
    <3>6. \A i \in 1..l : 1 + i - 1 = i
      BY <3>2
    <3> QED  BY <3>2, <3>3, <3>4, <3>5, <3>6
  <2> HIDE DEF f, l, n
  <2>4. \A i \in 1..l : f[i][1] \in Range(Tokens)
    BY <1>1, <2>3
  <2>5. Len(Append(f, y)) = l + 1 /\ Append(f, y)[l + 1] = y /\ \A i \in 1..l : Append(f, y)[i] = f[i]
    BY <2>3
  <2>6. \A i \in 1..l + 1 : i = l + 1 \/ i \in 1..l
    BY <2>3
  <2>7. Entries(Append(f, y))
    BY <1>3, <2>4, <2>5, <2>6 DEF Entries
  <2> QED  BY <2>1, <2>7 DEF f, rule
<1>5. CASE ~(done # <<>> /\ done[Len(done)] = <<rule[1], FALSE>> /\ x = rule[2])
  <2>1. t = Append(done, z)
    BY <1>5 DEF Put, z
  <2> HIDE DEF t
  <2>2. Len(t) = n + 1 /\ t[n + 1] = z /\ \A i \in 1..n : t[i] = done[i]
    BY <2>1
  <2> HIDE DEF n
  <2>3. \A i \in 1..n + 1 : i = n + 1 \/ i \in 1..n
    BY <1>1
  <2>4. Entries(t)
    BY <1>1, <1>3, <2>2, <2>3 DEF Entries
  <2> QED  BY <2>4 DEF t, rule
<1> QED  BY <1>4, <1>5

\* Applying a rule to entries makes entries.
LEMMA AppliedIsKnown ==
    ASSUME NEW s \in Seq(Seq(Symbol)), Range(s) \subseteq Range(Tokens), NEW r \in DOMAIN MergeRules
    PROVE  Range(Applied(s, MergeRules[r])) \subseteq Range(Tokens)
<1> DEFINE n == Len(s)
           rule == MergeRules[r]
<1>1. n \in Nat /\ DOMAIN s = 1..n /\ \A i \in 1..n : s[i] \in Seq(Symbol)
  BY LenProperties, ElementOfSeq
<1>2. \A i \in 1..n : s[i] \in Range(Tokens)
  BY <1>1 DEF Range
<1>3. PICK f : Puts(f, s, rule) /\ Merged(s, rule) = f[n]
  BY MergedSteps
<1>4. f[0] = <<>> /\ \A i \in 1..n : f[i] = Put(f[i - 1], s[i], MergeRules[r])
  BY <1>3 DEF Puts
<1> HIDE DEF n
<1> DEFINE P == {i \in 0..n : f[i] \in Seq(Marked) /\ Entries(f[i])}
<1>5. 0 \in P
  <2>1. <<>> \in Seq(Marked) /\ Entries(<<>>) /\ 0 \in 0..n
    BY <1>1, EmptySeq DEF Entries
  <2> QED  BY <1>4, <2>1
<1>6. ASSUME NEW i \in 1..n, i - 1 \in P PROVE i \in P
  <2>1. f[i - 1] \in Seq(Marked) /\ Entries(f[i - 1]) /\ s[i] \in Seq(Symbol) /\ s[i] \in Range(Tokens) /\ i \in 0..n
    BY <1>1, <1>2, <1>6
  <2> DEFINE d == f[i - 1]
             x == s[i]
             t == Put(d, x, MergeRules[r])
  <2>2. d \in Seq(Marked) /\ Entries(d) /\ x \in Seq(Symbol) /\ x \in Range(Tokens) /\ f[i] = t
    BY <1>4, <2>1
  <2> HIDE DEF d, x
  <2>3. t \in Seq(Marked) /\ Entries(t)
    BY <2>2, PutSpells, PutsEntries
  <2> QED  BY <2>1, <2>2, <2>3
<1>7. 0..n \subseteq P
  <2> HIDE DEF P
  <2> QED  BY <1>1, <1>5, <1>6, UpTo
<1> DEFINE m == Merged(s, rule)
<1>8. m \in Seq(Marked) /\ Entries(m)
  <2>1. n \in 0..n
    BY <1>1
  <2>2. n \in P
    BY <1>7, <2>1, Zenon
  <2> QED  BY <1>3, <2>2 DEF n
<1> HIDE DEF m
<1>9. DOMAIN m = 1..Len(m) /\ \A i \in DOMAIN m : m[i][1] \in Range(Tokens)
  BY <1>8, LenProperties DEF Entries
<1>10. Applied(s, rule) = [i \in DOMAIN m |-> m[i][1]]
  BY DEF Applied, m
<1> QED  BY <1>9, <1>10 DEF Range

\* The symbols of a piece are entries.
LEMMA PieceIsKnown ==
    ASSUME IInv, Covered(text), NextPiece
    PROVE  Range(symbols') \subseteq Range(Tokens)
<1> DEFINE a == Shown(ids, FALSE)
           b == Bytes(piece')
           c == Bytes(Rest(runes, index'))
           d == Rest(text, offset)
<1>1. Types /\ phase # "threw" /\ symbols = <<>>
  BY DEF IInv, NextPiece, Staged
<1>2. b \in Seq(Byte) /\ Bytes(Rest(runes, index)) = b \o c /\ Rest(runes, index') \in Seq(Rune)
  BY PieceIsTaken
<1>3. a \in Seq(Byte) /\ c \in Seq(Byte) /\ d \in Seq(Byte)
  BY <1>1, <1>2, BytesType, PartsAreBytes
<1>4. a \o (<<>> \o ((b \o c) \o d)) = text
  BY <1>1, <1>2, Nothing DEF IInv, Encoding
<1>5. symbols' = [i \in DOMAIN b |-> <<ByteSymbol(b[i])>>]
  BY DEF NextPiece
<1> HIDE DEF a, b, c, d
<1>6. Covered(b)
  <2> DEFINE x == b \o c
             y == x \o d
  <2>1. x \in Seq(Byte)
    BY <1>2, <1>3, ConcatProperties
  <2> HIDE DEF x
  <2>2. y \in Seq(Byte)
    BY <1>3, <2>1, ConcatProperties
  <2> HIDE DEF y
  <2>3. text = a \o y
    <3>1. <<>> \o y = y
      BY <2>2, Nothing
    <3> QED  BY <1>4, <3>1 DEF x, y
  <2>4. Covered(y)
    BY <1>3, <2>2, <2>3, CoveredParts
  <2>5. Covered(x)
    BY <1>3, <2>1, <2>4, CoveredParts DEF y
  <2> QED  BY <1>2, <1>3, <2>5, CoveredParts DEF x
<1>7. \A i \in DOMAIN b : <<ByteSymbol(b[i])>> \in Range(Tokens)
  BY <1>2, <1>6, LenProperties DEF Covered
<1> QED  BY <1>5, <1>7 DEF Range

-----------------------------------------------------------------------------
(* The round trip                                                            *)

\* A special token starts a character.
LEMMA TokenStartsCharacter ==
    ASSUME NEW t \in Seq(Byte), NEW s \in Specials, NEW at \in 0..Len(t), Stands(s, at, t)
    PROVE  at + 1 \in 1..Len(t) /\ ~IsContinuation(t[at + 1])
<1>1. /\ Len(s) \in Nat \ {0} /\ s \in Seq(Byte)
      /\ \A i \in 1..Len(s) : at + i \in 1..Len(t) /\ t[at + i] = s[i]
  BY StandingBytes, SpecialIsKnown
<1>2. 1 \in 1..Len(s)
  BY <1>1
<1>3. at + 1 \in 1..Len(t) /\ t[at + 1] = s[1] /\ s[1] \in Byte
  BY <1>1, <1>2, ElementOfSeq
<1>4. PICK g : Needs(g, s) /\ (IsUtf8(s) <=> Whole(g, s, 0, Len(s)))
  BY <1>1, Utf8IsWhole
<1>5. Whole(g, s, 0, Len(s))
  BY <1>4, Utf8Assumption
<1>6. Fits(g, s, 1)
  <2>1. 1 \in 0 + 1..Len(s)
    BY <1>2
  <2> QED  BY <1>5, <2>1, Zenon DEF Whole
<1>7. s[1] < 128 \/ Remaining(s[1]) > 0
  <2>1. g[1 - 1] = 0
    BY <1>4 DEF Needs
  <2> QED  BY <1>6, <2>1 DEF Fits
<1>8. ~IsContinuation(s[1])
  <2> DEFINE b == s[1]
  <2>1. b \in Byte /\ (b < 128 \/ Remaining(b) > 0)
    BY <1>3, <1>7
  <2> HIDE DEF b
  <2>2. /\ IsContinuation(b) => b >= 128 /\ Remaining(b) = 0
        /\ b < 128 <=> ~(b >= 128)
    BY <2>1, ContinuationsAreNoOther, ByteOrder
  <2>3. ~IsContinuation(b)
    BY <2>1, <2>2
  <2> QED  BY <2>3 DEF b
<1> QED  BY <1>3, <1>8

\* It consists of whole characters.
LEMMA TokenIsWhole ==
    ASSUME NEW t \in Seq(Byte), NEW g, Needs(g, t), NEW s \in Specials, NEW at \in 0..Len(t),
           Stands(s, at, t), g[at] = 0
    PROVE  Whole(g, t, at, at + Len(s))
<1> DEFINE e == at + Len(s)
<1>1. e \in at..Len(t) /\ SubSeq(t, at + 1, e) = s
  <2>1. Len(s) \in Nat \ {0} /\ at + Len(s) \in 0..Len(t)
    BY StandingBytes
  <2> QED  BY <2>1 DEF Stands
<1> HIDE DEF e
<1>2. IsUtf8(SubSeq(t, at + 1, e)) <=> Whole(g, t, at, e)
  BY <1>1, PartIsWhole
<1>3. IsUtf8(s)
  BY Utf8Assumption
<1> QED  BY <1>1, <1>2, <1>3 DEF e

\* Characters are whole where a plain part ends, if all are.
LEMMA WholeBeforeToken ==
    ASSUME NEW t \in Seq(Byte), NEW g, Needs(g, t), Whole(g, t, 0, Len(t)),
           NEW a \in 0..Len(t), NEW e \in a..Len(t),
           e = Len(t) \/ \E s \in Specials : Stands(s, e, t)
    PROVE  Whole(g, t, a, e)
<1> DEFINE n == Len(t)
<1>1. n \in Nat /\ a \in 0..n /\ e \in a..n /\ Whole(g, t, 0, n)
  BY LenProperties
<1>2. a \in Nat /\ e \in Nat /\ e \in 0..n /\ a <= e /\ e <= n
  BY <1>1
<1>3. g[e] = 0
  <2>1. CASE e = n
    BY <1>1, <2>1 DEF Whole
  <2>2. CASE \E s \in Specials : Stands(s, e, t)
    <3>1. PICK s \in Specials : Stands(s, e, t)
      BY <2>2
    <3>2. e + 1 \in 1..n /\ ~IsContinuation(t[e + 1])
      BY <1>2, <3>1, TokenStartsCharacter
    <3>3. Fits(g, t, e + 1)
      <4>1. e + 1 \in 0 + 1..n
        BY <3>2
      <4> QED  BY <1>1, <4>1, Zenon DEF Whole
    <3>4. ~(g[(e + 1) - 1] > 0)
      BY <3>2, <3>3, Zenon DEF Fits
    <3>5. g[e] \in 0..3 /\ (e + 1) - 1 = e
      BY <1>2 DEF Needs
    <3> QED  BY <3>4, <3>5
  <2> QED  BY <2>1, <2>2
<1> HIDE DEF n
<1> QED  BY <1>1, <1>2, <1>3, WholeBetween

\* What has been encoded are whole characters, and if encode() throws, not all
\* of the text are.
AtCharacter(g) ==
    IF phase = "threw" THEN ~Whole(g, text, 0, Len(text)) ELSE Whole(g, text, 0, offset)

\* The ids, the symbols and the runes at hand show what is kept of the text.
KeptSoFar(k) ==
    phase # "threw" =>
        Shown(ids, skip) \o (Text(FlattenSeq(symbols)) \o Bytes(Rest(runes, index))) = k[offset]

\* encode() has stopped in no special token.
Apart == phase \in {"segment", "piece", "merge"} => Clear(text, offset)

\* Every symbol has an id.
InVocabulary == Covered(text) /\ Range(symbols) \subseteq Range(Tokens)

Traced(g, k) == AtCharacter(g) /\ KeptSoFar(k) /\ Apart /\ InVocabulary

\* Of the parts that are shown.
LEMMA ShownParts ==
    ASSUME Types
    PROVE  /\ Shown(ids, skip) \in Seq(Byte)
           /\ Text(FlattenSeq(symbols)) \in Seq(Byte)
           /\ Bytes(Rest(runes, index)) \in Seq(Byte)
BY PartsAreBytes, ShownType DEF Types

\* At first nothing is encoded.
LEMMA InitIsTraced ==
    ASSUME Init, NEW g, Needs(g, text), NEW k, IsKept(k, text, skip)
    PROVE  Traced(g, k)
<1>1. IInv
  BY InitEstablishes
<1>2. /\ offset = 0 /\ phase = "segment" /\ runes = <<>> /\ index = 0 /\ symbols = <<>> /\ ids = <<>>
      /\ text \in Seq(Byte)
  BY <1>1 DEF Init, IInv, Types
<1>3. AtCharacter(g)
  <2>1. g[0] = 0 /\ \A i \in 0 + 1..0 : Fits(g, text, i)
    BY DEF Needs
  <2> QED  BY <1>2, <2>1 DEF AtCharacter, Whole
<1>4. KeptSoFar(k)
  <2>1. k[0] = <<>> /\ Shown(<<>>, skip) = <<>> /\ <<>> \in Seq(Byte)
    BY ShownOfNone, EmptySeq DEF IsKept
  <2>2. <<>> \o (<<>> \o <<>>) = <<>>
    BY <2>1, Nothing
  <2> QED  BY <1>2, <2>1, <2>2, Nothing DEF KeptSoFar
<1>5. Apart
  <2>1. ASSUME NEW at \in 0..Len(text) PROVE at >= 0
    OBVIOUS
  <2> QED  BY <1>2, <2>1 DEF Apart, Clear
<1>6. InVocabulary
  <2>1. Range(symbols) = {}
    BY <1>2 DEF Range
  <2> QED  BY <2>1, InputIsCovered DEF InVocabulary
<1> QED  BY <1>3, <1>4, <1>5, <1>6 DEF Traced

\* A plain part is taken or refused as its characters are whole.
LEMMA SegmentIsTraced ==
    ASSUME IInv, Segment, NEW g, Needs(g, text), NEW k, IsKept(k, text, skip), Traced(g, k)
    PROVE  Traced(g, k)'
<1> DEFINE end == Min(Occurrences \cup {Len(text)})
           plain == SubSeq(text, offset + 1, end)
<1>1. /\ Types /\ text \in Seq(Byte) /\ offset \in 0..Len(text) /\ Len(text) \in Nat
      /\ runes = <<>> /\ index = 0 /\ symbols = <<>> /\ phase = "segment"
  BY LenProperties DEF IInv, Types, Staged, Segment
<1>2. end \in offset..Len(text) /\ (end = Len(text) \/ \E s \in Specials : Stands(s, end, text))
  BY <1>1, SegmentEnds DEF OccursAt, Stands
<1>3. FirstAt(text, offset, end)
  BY <1>1, SegmentIsFirst
<1>4. plain \in Seq(Byte)
  BY <1>1, <1>2, RestSplits
<1>5. Decoded(plain).runes \in Seq(Rune) /\ Bytes(Decoded(plain).runes) = plain
  BY <1>4, DecodedBytes
<1>6. UNCHANGED <<text, symbols, piece, ids, decoding, skip>> /\ index' = 0
  BY DEF Segment
<1>7. Whole(g, text, 0, offset) /\ g[offset] = 0 /\ Clear(text, offset) /\ InVocabulary
  BY <1>1 DEF Traced, AtCharacter, Apart, Whole
<1>8. IsUtf8(plain) => /\ runes' = Decoded(plain).runes /\ offset' = end /\ phase' = "piece"
  BY DEF Segment
<1>9. ~IsUtf8(plain) => phase' = "threw"
  BY DEF Segment
<1> HIDE DEF end
<1>10. IsUtf8(plain) <=> Whole(g, text, offset, end)
  BY <1>1, <1>2, <1>7, PartIsWhole
<1>11. InVocabulary'
  BY <1>6, <1>7 DEF InVocabulary, Covered
<1>12. CASE IsUtf8(plain)
  <2>1. AtCharacter(g)'
    <3>1. offset \in Nat /\ end \in Nat /\ offset <= end
      BY <1>1, <1>2
    <3>2. Whole(g, text, 0, end)
      BY <1>7, <1>10, <1>12, <3>1, WholeGoesOn
    <3> QED  BY <1>6, <1>8, <1>12, <3>2 DEF AtCharacter
  <2>2. Clear(text, end) /\ \A n \in offset + 1..end : ~Hidden(text, n)
    BY <1>1, <1>3, <1>7, ClearBefore
  <2>3. Apart'
    BY <1>6, <1>8, <1>12, <2>2 DEF Apart
  <2>4. k[end] = k[offset] \o plain
    BY <1>1, <1>2, <2>2, KeptPlain
  <2>5. KeptSoFar(k)'
    <3> DEFINE a == Shown(ids, skip)
    <3>1. a \o (<<>> \o <<>>) = k[offset]
      BY <1>1, Nothing DEF Traced, KeptSoFar
    <3>2. a \in Seq(Byte) /\ <<>> \in Seq(Byte)
      BY <1>1, ShownParts, EmptySeq
    <3>3. Rest(runes', 0) = runes'
      BY <1>5, <1>8, <1>12, RestOfAll
    <3> HIDE DEF a, plain
    <3>4. a = k[offset] /\ <<>> \o plain = plain
      BY <1>4, <3>1, <3>2, Nothing
    <3>5. a \o (<<>> \o plain) = k[end]
      BY <2>4, <3>4
    <3> QED  BY <1>1, <1>5, <1>6, <1>8, <1>12, <3>3, <3>5, Nothing DEF KeptSoFar, a
  <2> QED  BY <1>11, <2>1, <2>3, <2>5 DEF Traced
<1>13. CASE ~IsUtf8(plain)
  <2>1. ~Whole(g, text, 0, Len(text))
    <3> SUFFICES ASSUME Whole(g, text, 0, Len(text)) PROVE FALSE
      OBVIOUS
    <3>1. Whole(g, text, offset, end)
      BY <1>1, <1>2, WholeBeforeToken
    <3> QED  BY <1>10, <1>13, <3>1
  <2>2. AtCharacter(g)' /\ KeptSoFar(k)' /\ Apart'
    BY <1>6, <1>9, <1>13, <2>1 DEF AtCharacter, KeptSoFar, Apart
  <2> QED  BY <1>11, <2>2 DEF Traced
<1> QED  BY <1>12, <1>13

\* The symbols of a piece show its runes.
LEMMA NextPieceIsTraced ==
    ASSUME IInv, NextPiece, NEW g, Needs(g, text), NEW k, IsKept(k, text, skip), Traced(g, k)
    PROVE  Traced(g, k)'
<1>1. Types /\ phase = "piece" /\ symbols = <<>> /\ InVocabulary
  BY DEF IInv, Staged, NextPiece, Traced
<1>2. phase' = "merge" /\ UNCHANGED <<text, offset, special, runes, ids, decoding, skip>>
  BY DEF NextPiece
<1>3. AtCharacter(g)' /\ Apart'
  BY <1>1, <1>2 DEF Traced, AtCharacter, Apart
<1>4. KeptSoFar(k)'
  <2> DEFINE b == Bytes(piece')
             c == Bytes(Rest(runes, index'))
  <2>1. /\ b \in Seq(Byte) /\ c \in Seq(Byte)
        /\ Text(FlattenSeq(symbols')) = b /\ Bytes(Rest(runes, index)) = b \o c
    BY PieceIsTaken, BytesType
  <2>2. Shown(ids, skip) \o (<<>> \o (b \o c)) = k[offset]
    BY <1>1, <2>1, Nothing DEF Traced, KeptSoFar
  <2> HIDE DEF b, c
  <2>3. <<>> \o (b \o c) = b \o c
    <3> DEFINE x == b \o c
    <3>1. x \in Seq(Byte)
      BY <2>1, ConcatProperties
    <3> HIDE DEF x
    <3>2. <<>> \o x = x
      BY <3>1, Nothing
    <3> QED  BY <3>2 DEF x
  <2> QED  BY <1>2, <2>1, <2>2, <2>3 DEF KeptSoFar, c
<1>5. InVocabulary'
  <2>1. Range(symbols') \subseteq Range(Tokens)
    BY <1>1, PieceIsKnown DEF InVocabulary
  <2> QED  BY <1>1, <1>2, <2>1 DEF InVocabulary, Covered
<1> QED  BY <1>3, <1>4, <1>5 DEF Traced

\* A merge makes an entry that shows the same.
LEMMA MergeBestIsTraced ==
    ASSUME IInv, MergeBest, NEW g, Needs(g, text), NEW k, IsKept(k, text, skip), Traced(g, k)
    PROVE  Traced(g, k)'
<1>1. /\ Types /\ symbols \in Seq(Seq(Symbol)) /\ RanksIn(symbols) # {}
      /\ Range(symbols) \subseteq Range(Tokens)
  BY DEF IInv, Types, MergeBest, Traced, InVocabulary
<1>2. /\ symbols' = Applied(symbols, BestRule(symbols))
      /\ UNCHANGED <<text, offset, special, runes, index, piece, ids, decoding, skip, phase>>
  BY DEF MergeBest
<1> DEFINE r == Min(RanksIn(symbols))
<1>3. r \in DOMAIN MergeRules
  <2> DEFINE R == RanksIn(symbols)
  <2>1. DOMAIN MergeRules = 1..Len(MergeRules) /\ Len(MergeRules) \in Nat
    BY MergesAssumption, LenProperties
  <2>2. R \subseteq DOMAIN MergeRules /\ R \subseteq Nat /\ R # {}
    BY <1>1, <2>1 DEF RanksIn
  <2> HIDE DEF R
  <2>3. \E x \in R : \A y \in R : x <= y
    BY <2>2, LeastNatural
  <2>4. Min(R) \in R
    BY <2>3 DEF Min
  <2> QED  BY <2>2, <2>4 DEF R
<1>4. symbols' = Applied(symbols, MergeRules[r])
  BY <1>2 DEF BestRule
<1> HIDE DEF r
<1>5. /\ symbols' \in Seq(Seq(Symbol)) /\ FlattenSeq(symbols') = FlattenSeq(symbols)
      /\ Range(symbols') \subseteq Range(Tokens)
  BY <1>1, <1>3, <1>4, AppliedSpells, AppliedIsKnown
<1>6. AtCharacter(g)' /\ Apart' /\ KeptSoFar(k)' /\ InVocabulary'
  BY <1>2, <1>5 DEF Traced, AtCharacter, Apart, KeptSoFar, InVocabulary, Covered
<1> QED  BY <1>6 DEF Traced

\* The ids show what the symbols did, and every symbol has one.
LEMMA LookUpIsTraced ==
    ASSUME IInv, LookUp, NEW g, Needs(g, text), NEW k, IsKept(k, text, skip), Traced(g, k)
    PROVE  Traced(g, k)'
<1> DEFINE is == [i \in DOMAIN symbols |-> Id(symbols[i])]
<1>1. /\ Types /\ symbols \in Seq(Seq(Symbol)) /\ Range(symbols) \subseteq Range(Tokens)
      /\ ids \in Seq(Known) /\ phase = "merge"
  BY DEF IInv, Types, LookUp, Traced, InVocabulary
<1>2. /\ ids' = ids \o is /\ phase' = "piece" /\ symbols' = <<>>
      /\ UNCHANGED <<text, offset, special, runes, index, decoding, skip>>
  BY <1>1 DEF LookUp
<1>3. is \in Seq(Known) /\ Shown(is, skip) = Text(FlattenSeq(symbols))
  BY <1>1, SymbolsAreShown
<1> HIDE DEF is
<1>4. KeptSoFar(k)'
  <2> DEFINE a == Shown(ids, skip)
             b == Shown(is, skip)
             c == Bytes(Rest(runes, index))
  <2>1. a \in Seq(Byte) /\ b \in Seq(Byte) /\ c \in Seq(Byte) /\ Shown(ids', skip) = a \o b
    BY <1>1, <1>2, <1>3, ShownParts, ShownConcat
  <2>2. a \o (b \o c) = k[offset]
    BY <1>1, <1>3 DEF Traced, KeptSoFar
  <2> HIDE DEF a, b, c
  <2>3. (a \o b) \o c = a \o (b \o c) /\ <<>> \o c = c
    <3>1. Rejoins(a, b, c)
      BY <2>1, Rejoin
    <3> QED  BY <2>1, <3>1, Nothing DEF Rejoins
  <2>4. (a \o b) \o (<<>> \o c) = k[offset]
    BY <2>2, <2>3
  <2> QED  BY <1>2, <2>1, <2>4, Nothing DEF KeptSoFar, c
<1>5. Range(symbols') = {}
  BY <1>2 DEF Range
<1>6. AtCharacter(g)' /\ Apart' /\ InVocabulary'
  BY <1>1, <1>2, <1>5 DEF Traced, AtCharacter, Apart, InVocabulary, Covered
<1> QED  BY <1>4, <1>6 DEF Traced

\* A special token is passed as a whole, and shown unless it is to be skipped.
LEMMA EndSegmentIsTraced ==
    ASSUME IInv, EndSegment, NEW g, Needs(g, text), NEW k, IsKept(k, text, skip), Traced(g, k)
    PROVE  Traced(g, k)'
<1>1. /\ Types /\ Staged /\ phase = "piece" /\ symbols = <<>> /\ skip \in BOOLEAN
      /\ index = Len(runes) /\ text \in Seq(Byte) /\ runes \in Seq(Rune) /\ ids \in Seq(Known)
      /\ offset \in 0..Len(text) /\ Len(text) \in Nat
  BY LenProperties DEF IInv, EndSegment, Types, Staged
<1>2. /\ ids' = IF special = NoSpecial THEN ids ELSE Append(ids, SpecialId[special])
      /\ offset' = offset + Len(special)
      /\ special' = NoSpecial /\ runes' = <<>> /\ index' = 0 /\ phase' = "segment"
      /\ UNCHANGED <<text, symbols, piece, decoding, skip>>
  BY DEF EndSegment
<1>3. Whole(g, text, 0, offset) /\ g[offset] = 0 /\ Clear(text, offset) /\ InVocabulary
  BY <1>1 DEF Traced, AtCharacter, Apart, Whole
<1>4. InVocabulary'
  BY <1>2, <1>3 DEF InVocabulary, Covered
<1> DEFINE a == Shown(ids, skip)
<1>5. a \in Seq(Byte) /\ a = k[offset]
  <2>1. Bytes(Rest(runes, index)) = <<>>
    BY <1>1, RestOfNone, BytesOfNone
  <2>2. a \o (<<>> \o <<>>) = k[offset]
    BY <1>1, <2>1, Nothing DEF Traced, KeptSoFar
  <2>3. a \in Seq(Byte) /\ <<>> \in Seq(Byte)
    BY <1>1, ShownParts, EmptySeq
  <2> HIDE DEF a
  <2> QED  BY <2>2, <2>3, Nothing
<1> HIDE DEF a
<1>6. ASSUME NEW q \in Seq(Byte), Shown(ids', skip) = q, q = k[offset'] PROVE KeptSoFar(k)'
  <2>1. q \o (<<>> \o <<>>) = q
    BY <1>6, EmptySeq, Nothing
  <2> QED  BY <1>1, <1>2, <1>6, <2>1, Nothing DEF KeptSoFar
<1>7. CASE special = NoSpecial
  <2>1. Len(special) = 0 /\ offset' = offset /\ ids' = ids
    BY <1>1, <1>2, <1>7, EmptySeq DEF NoSpecial
  <2>2. KeptSoFar(k)'
    BY <1>2, <1>5, <1>6, <2>1 DEF a
  <2>3. AtCharacter(g)' /\ Apart'
    BY <1>2, <1>3, <2>1 DEF AtCharacter, Apart
  <2> QED  BY <1>4, <2>2, <2>3 DEF Traced
<1>8. CASE special # NoSpecial
  <2> DEFINE id == SpecialId[special]
             m == offset + Len(special)
  <2>1. special \in Specials /\ Stands(special, offset, text)
    BY <1>1, <1>8 DEF Types, Staged, OccursAt, Stands
  <2>2. /\ id \in Known /\ id >= Len(Tokens) /\ TokenBytes(id) = special /\ special \in Seq(Byte)
        /\ Len(special) \in Nat \ {0}
    BY <2>1, SpecialIsKnown, EmptySeq
  <2>3. m \in offset..Len(text) /\ m \in Nat /\ SubSeq(text, offset + 1, m) = special
    <3>1. m \in 0..Len(text)
      BY <1>1, <2>1, StandingBytes
    <3> QED  BY <1>1, <2>1, <2>2, <3>1 DEF Stands
  <2>4. ids' = ids \o <<id>> /\ offset' = m
    BY <1>1, <1>2, <1>8, <2>2, AppendIsConcat
  <2>5. AtCharacter(g)'
    <3>1. Whole(g, text, offset, m)
      BY <1>1, <1>3, <2>1, TokenIsWhole
    <3> HIDE DEF m
    <3>2. offset \in Nat /\ m \in Nat /\ offset <= m
      BY <1>1, <2>3
    <3>3. Whole(g, text, 0, m)
      BY <1>3, <3>1, <3>2, WholeGoesOn
    <3> QED  BY <1>2, <2>4, <3>3 DEF AtCharacter
  <2>6. Apart'
    <3>1. Clear(text, m)
      BY <1>1, <1>3, <2>1, ClearBehind
    <3> HIDE DEF m
    <3> QED  BY <1>2, <2>4, <3>1 DEF Apart
  <2>7. \A n \in offset + 1..m : Hidden(text, n)
    BY <1>1, <2>1, TokenIsHidden
  <2> HIDE DEF id, m
  <2>8. <<id>> \in Seq(Known) /\ Shown(ids', skip) = a \o ShownBytes(id, skip)
    <3>1. <<id>> \in Seq(Known) /\ Shown(<<id>>, skip) = ShownBytes(id, skip)
      BY <2>2, ShownOfOne
    <3> DEFINE is == <<id>>
    <3>2. is \in Seq(Known) /\ ids' = ids \o is
      BY <2>4, <3>1
    <3> HIDE DEF is
    <3>3. Shown(ids', skip) = a \o Shown(is, skip)
      BY <1>1, <3>2, ShownConcat DEF a
    <3> QED  BY <3>1, <3>3 DEF is
  <2>9. CASE skip
    <3>1. \A n \in offset + 1..m : skip /\ Hidden(text, n)
      BY <2>7, <2>9
    <3>2. k[m] = k[offset]
      BY <1>1, <2>3, <3>1, KeptHidden
    <3>3. ShownBytes(id, skip) = <<>>
      BY <2>2, <2>9, Zenon DEF ShownBytes
    <3>4. a \o <<>> = a
      BY <1>5, Nothing
    <3>5. Shown(ids', skip) = a /\ a = k[offset']
      BY <1>5, <2>4, <2>8, <3>2, <3>3, <3>4
    <3>6. KeptSoFar(k)'
      BY <1>5, <1>6, <3>5
    <3> QED  BY <1>4, <2>5, <2>6, <3>6 DEF Traced
  <2>10. CASE ~skip
    <3>1. \A n \in offset + 1..m : ~(skip /\ Hidden(text, n))
      BY <2>10
    <3>2. k[m] = k[offset] \o SubSeq(text, offset + 1, m)
      BY <1>1, <2>3, <3>1, KeptPlain
    <3>3. ShownBytes(id, skip) = special
      BY <2>2, <2>10, Zenon DEF ShownBytes
    <3> DEFINE q == a \o special
    <3>4. q \in Seq(Byte)
      BY <1>5, <2>2, ConcatProperties
    <3>5. Shown(ids', skip) = q /\ q = k[offset']
      BY <1>5, <2>3, <2>4, <2>8, <3>2, <3>3, Zenon
    <3> HIDE DEF q
    <3>6. KeptSoFar(k)'
      BY <1>6, <3>4, <3>5
    <3> QED  BY <1>4, <2>5, <2>6, <3>6 DEF Traced
  <2> QED  BY <1>1, <2>9, <2>10
<1> QED  BY <1>7, <1>8

\* decode() only reads what encode() has made.
LEMMA DecodingIsTraced ==
    ASSUME IInv, EncodeReturns \/ DecodeSpecial \/ DecodeToken \/ DecodeReturns,
           NEW g, Needs(g, text), NEW k, IsKept(k, text, skip), Traced(g, k)
    PROVE  Traced(g, k)'
<1>1. UNCHANGED <<text, offset, special, runes, index, symbols, piece, ids, skip>>
  BY DEF EncodeReturns, DecodeSpecial, DecodeToken, DecodeReturns, encoding
<1>2. phase \in {"segment", "decode"} /\ phase' \in {"decode", "done"}
  BY DEF EncodeReturns, DecodeSpecial, DecodeToken, DecodeReturns
<1>3. AtCharacter(g)'
  BY <1>1, <1>2 DEF Traced, AtCharacter
<1>4. KeptSoFar(k)'
  BY <1>1, <1>2 DEF Traced, KeptSoFar
<1>5. Apart'
  BY <1>2 DEF Apart
<1>6. InVocabulary'
  BY <1>1 DEF Traced, InVocabulary, Covered
<1> QED  BY <1>3, <1>4, <1>5, <1>6 DEF Traced

\* Whatever counts the characters and what is kept, the state agrees with it.
Faithful == \A g, k : Needs(g, text) /\ IsKept(k, text, skip) => Traced(g, k)

\* Every step keeps that so.
LEMMA FaithfulByNext == IInv /\ Faithful /\ [Next]_vars => Faithful'
<1> SUFFICES ASSUME IInv, Faithful, [Next]_vars, NEW g, NEW k,
                    Needs(g, text'), IsKept(k, text', skip')
             PROVE  Traced(g, k)'
  BY DEF Faithful
<1>1. text' = text /\ skip' = skip
  BY DEF Next, Segment, NextPiece, MergeBest, LookUp, EndSegment, EncodeReturns, DecodeSpecial,
         DecodeToken, DecodeReturns, vars
<1>2. Needs(g, text) /\ IsKept(k, text, skip)
  BY <1>1
<1>3. Traced(g, k)
  BY <1>2 DEF Faithful
<1>4. CASE Segment     BY <1>2, <1>3, <1>4, SegmentIsTraced
<1>5. CASE NextPiece   BY <1>2, <1>3, <1>5, NextPieceIsTraced
<1>6. CASE MergeBest   BY <1>2, <1>3, <1>6, MergeBestIsTraced
<1>7. CASE LookUp      BY <1>2, <1>3, <1>7, LookUpIsTraced
<1>8. CASE EndSegment  BY <1>2, <1>3, <1>8, EndSegmentIsTraced
<1>9. CASE EncodeReturns \/ DecodeSpecial \/ DecodeToken \/ DecodeReturns
  BY <1>2, <1>3, <1>9, DecodingIsTraced
<1>10. CASE UNCHANGED vars
  BY <1>3, <1>10 DEF Traced, AtCharacter, KeptSoFar, Apart, InVocabulary, vars, encoding
<1> QED  BY <1>4, <1>5, <1>6, <1>7, <1>8, <1>9, <1>10 DEF Next

\* encode() throws on exactly the inputs that are not UTF-8; of all others,
\* decode() returns the text, byte by byte, but for the special tokens if it is
\* to skip them. So the loop over special tokens splits no character and
\* leaves no token in a plain part, and every merged symbol has an id.
THEOREM TextRoundTrips == Spec => []RoundTrip
<1>1. Init => Faithful
  BY InitIsTraced DEF Faithful
<1>2. IInv /\ Faithful => RoundTrip
  <2> SUFFICES ASSUME IInv, Faithful PROVE RoundTrip
    OBVIOUS
  <2>1. Types /\ text \in Seq(Byte)
    BY DEF IInv, Types
  <2>2. PICK g : Needs(g, text)
    BY <2>1, Utf8IsWhole
  <2>3. PICK k : IsKept(k, text, skip) /\ Expected = k[Len(text)]
    BY <2>1, KeptIsExpected
  <2>4. Traced(g, k)
    BY <2>2, <2>3 DEF Faithful
  <2>5. ASSUME phase = "done" PROVE output = Expected /\ WellFormed
    <3>1. offset = Len(text) /\ symbols = <<>> /\ runes = <<>> /\ index = 0 /\ output = Shown(ids, skip)
      BY <2>1, <2>5 DEF IInv, Types, Staged, Decoding
    <3>2. output = Expected
      <4> DEFINE a == Shown(ids, skip)
      <4>1. a \o (<<>> \o <<>>) = k[Len(text)]
        BY <2>4, <2>5, <3>1, Nothing DEF Traced, KeptSoFar
      <4>2. a \in Seq(Byte) /\ <<>> \in Seq(Byte)
        BY <2>1, ShownParts, EmptySeq
      <4> HIDE DEF a
      <4>3. a = k[Len(text)]
        BY <4>1, <4>2, Nothing
      <4> QED  BY <2>3, <3>1, <4>3 DEF a
    <3>3. Whole(g, text, 0, Len(text))
      BY <2>4, <2>5, <3>1 DEF Traced, AtCharacter
    <3>4. Formed(text)
      BY <2>1, <2>2, <3>3, WholeIsFormed
    <3> QED  BY <3>2, <3>4, WellFormedIsFormed
  <2>6. ASSUME phase = "threw" PROVE ~WellFormed
    <3>1. ~Whole(g, text, 0, Len(text))
      BY <2>4, <2>6 DEF Traced, AtCharacter
    <3>2. ~Formed(text)
      BY <2>1, <2>2, <3>1, FormedIsWhole
    <3> QED  BY <3>2, WellFormedIsFormed
  <2> QED  BY <2>5, <2>6 DEF RoundTrip
<1> QED  BY <1>1, <1>2, FaithfulByNext, Invariance, PTL DEF Spec

=============================================================================
