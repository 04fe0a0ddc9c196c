------------------------------ MODULE Tokenizer ------------------------------
(***************************************************************************)
(* Qwen3Tokenizer: encode() splits a text at special tokens, the plain     *)
(* parts into pieces, and merges the byte symbols of each piece by rank;   *)
(* decode() goes back from the ids. Bytes and code points are naturals.    *)
(* The build without Windows' character tables is modelled.                *)
(***************************************************************************)
EXTENDS Naturals, Sequences, SequencesExt, FiniteSetsExt, Functions

CONSTANTS
    Texts,        \* the inputs of encode(), sequences of bytes (a bound)
    Prompts,      \* the inputs of encode_chat_prompt() (a bound)
    Before, After,  \* the chat template around a prompt
    SpecialId,    \* SpecialId[text]: special_tokens_
    Tokens,       \* Tokens[id + 1]: the symbols of vocabulary entry id
    MergeLines    \* the lines of merges.txt, pairs of symbol sequences

Specials == DOMAIN SpecialId
Id(token) == CHOOSE id \in 0..Len(Tokens) - 1 : Tokens[id + 1] = token

\* What holds of the files of the model: entries are distinct, ids of special
\* tokens lie behind the vocabulary, and no special token begins another.
ASSUME VocabularyAssumption ==
    /\ IsInjective(Tokens)
    /\ IsInjective(SpecialId)
    /\ \A s \in Specials : s # <<>> /\ SpecialId[s] >= Len(Tokens)
    /\ \A s, t \in Specials : IsPrefix(s, t) => s = t

\* Nor does one begin inside another: in the table of the constructor, each has
\* its only < in front.
ASSUME SpecialsAssumption ==
    \A s, t \in Specials : \A k \in 1..Len(s) - 1 :
        \E i \in 1..Len(t) : k + i <= Len(s) /\ s[k + i] # t[i]

Byte == 0..255

\* Inputs are bytes, vocabulary entries sequences of code points, ids numbers.
ASSUME BytesAssumption ==
    Texts \cup Prompts \cup Specials \cup {Before, After} \subseteq Seq(Byte)
ASSUME TokensAssumption == Tokens \in Seq(Seq(Nat)) /\ SpecialId \in [Specials -> Nat]

VARIABLES
    text,      \* the input
    offset,    \* bytes of it that are encoded
    special,   \* the special token behind the plain part at hand, or NoSpecial
    runes,     \* the plain part at hand
    index,     \* runes of it that are encoded
    symbols,   \* the symbols of the piece at hand, while it is merged
    piece,     \* the runes of that piece, for the properties
    ids,       \* the result of encode()
    position,  \* ids that are decoded
    encoded,   \* symbols decode() has not flushed yet
    output,    \* the result of decode()
    skip,      \* skip_special_tokens
    phase      \* "segment", "piece", "merge", "decode", "done", "threw"

encoding == <<offset, special, runes, index, symbols, piece, ids>>
decoding == <<position, encoded, output>>
vars == <<text, encoding, decoding, skip, phase>>

NoSpecial == <<>>

-----------------------------------------------------------------------------
(* Characters                                                                *)

Printable == (33..126) \cup (161..172) \cup (174..255)
Unprintable == Byte \ Printable
ByteSymbol(b) == IF b \in Printable THEN b ELSE 256 + Cardinality({x \in Unprintable : x < b})
SymbolByte(s) == IF s \in Printable THEN s ELSE CHOOSE b \in Unprintable : ByteSymbol(b) = s

\* Continuation bytes a leading byte asks for, and what it adds to the value.
Remaining(b) == IF b \div 32 = 6 THEN 1 ELSE IF b \div 16 = 14 THEN 2
                ELSE IF b \div 8 = 30 THEN 3 ELSE 0
Leading(b) == CASE Remaining(b) = 1 -> b % 32 [] Remaining(b) = 2 -> b % 16
                [] Remaining(b) = 3 -> b % 8 [] OTHER -> b
IsContinuation(b) == b \div 64 = 2

\* utf8_runes(): each rune with its bytes; bad after an invalid sequence.
ReadByte(state, b) ==
    IF state.need > 0
    THEN LET last == state.runes[Len(state.runes)]
         IN  [runes |-> [state.runes EXCEPT ![Len(state.runes)] =
                            [value |-> (last.value * 64) + (b % 64), bytes |-> Append(last.bytes, b)]],
              need |-> state.need - 1, bad |-> state.bad \/ ~IsContinuation(b)]
    ELSE [runes |-> Append(state.runes, [value |-> Leading(b), bytes |-> <<b>>]),
          need |-> Remaining(b),
          bad |-> state.bad \/ (b >= 128 /\ Remaining(b) = 0)]
Decoded(bytes) == FoldLeft(ReadByte, [runes |-> <<>>, need |-> 0, bad |-> FALSE], bytes)
IsUtf8(bytes) == Decoded(bytes).need = 0 /\ ~Decoded(bytes).bad

\* Special tokens are ASCII.
ASSUME Utf8Assumption == \A s \in Specials : IsUtf8(s)

IsSpace(v) ==
    \/ v \in (9..13) \cup {32, 133, 160, 5760} \cup (8192..8202)
    \/ v \in {8232, 8233, 8239, 8287, 12288}
IsLetter(v) ==
    IF v <= 127 THEN v \in (65..90) \cup (97..122) ELSE v < 8192 \/ (11904 <= v /\ v <= 55295)
IsNumber(v) == v \in 48..57
IsNewline(v) == v \in {10, 13}
IsPunctuation(v) == ~IsSpace(v) /\ ~IsLetter(v) /\ ~IsNumber(v)
Lower(v) == IF v \in 65..90 THEN v + 32 ELSE v

-----------------------------------------------------------------------------
(* pretokenize()                                                             *)

\* Where the runes from i on stop to be in class.
EndOf(r, i, Class(_)) ==
    Min({j \in i..Len(r) + 1 : j = Len(r) + 1 \/ ~Class(r[j].value)})

\* 's 't 're 've 'm 'll 'd
Contractions == {<<115>>, <<116>>, <<114, 101>>, <<118, 101>>, <<109>>, <<108, 108>>, <<100>>}
ContractionAt(r, i) ==
    {s \in Contractions :
        /\ r[i].value = 39
        /\ i + Len(s) <= Len(r)
        /\ \A k \in 1..Len(s) : Lower(r[i + k].value) = s[k]}

\* Mutant: a piece takes all digits that follow.
NumberEnd_AllDigits(r, i) == EndOf(r, i, IsNumber)
NumberEnd(r, i) == i + 1

\* Mutant: white space stops at newlines, so a piece may be empty.
SpaceEnd_BeforeNewline(r, i) == EndOf(r, i, LAMBDA v : IsSpace(v) /\ ~IsNewline(v))
SpaceEnd(r, i) == EndOf(r, i, IsSpace)

\* The end of the piece that starts at i.
PieceEnd(r, i) ==
    LET v == r[i].value
        follows(Class(_)) == i < Len(r) /\ Class(r[i + 1].value)
    IN  IF ContractionAt(r, i) # {} THEN i + 1 + Len(CHOOSE s \in ContractionAt(r, i) : TRUE)
        ELSE IF IsLetter(v) THEN EndOf(r, i, IsLetter)
        ELSE IF ~IsNewline(v) /\ ~IsNumber(v) /\ follows(IsLetter) THEN EndOf(r, i + 1, IsLetter)
        ELSE IF IsNumber(v) THEN NumberEnd(r, i)
        ELSE IF (v = 32 /\ follows(IsPunctuation)) \/ IsPunctuation(v)
        THEN EndOf(r, EndOf(r, IF v = 32 THEN i + 1 ELSE i, IsPunctuation), IsNewline)
        ELSE SpaceEnd(r, i)

-----------------------------------------------------------------------------
(* encode_piece()                                                            *)

\* The constructor takes a line that starts with # (35) for a comment.
MergeRules == SelectSeq(MergeLines, LAMBDA line : line[1][1] # 35)

\* What holds of the file, which lists the merges in the order in which they
\* were learnt: none joins what it builds itself or a later one builds.
ASSUME MergesAssumption ==
    /\ MergeRules \in Seq(Seq(Nat) \X Seq(Nat))
    /\ \A j, k \in DOMAIN MergeRules : j <= k =>
        MergeRules[k][1] \o MergeRules[k][2] \notin {MergeRules[j][1], MergeRules[j][2]}

\* The vocabulary has the bytes of the inputs and all that merges can build.
\* (The real one has every byte.)
ASSUME CoverageAssumption ==
    /\ \A t \in Texts \cup Prompts \cup {Before, After} :
        \A i \in DOMAIN t : <<ByteSymbol(t[i])>> \in Range(Tokens)
    /\ \A k \in DOMAIN MergeRules : MergeRules[k][1] \o MergeRules[k][2] \in Range(Tokens)

Adjacent(s) == {<<s[i], s[i + 1]>> : i \in 1..Len(s) - 1}
RanksIn(s) == {rank \in DOMAIN MergeRules : MergeRules[rank] \in Adjacent(s)}

\* Every occurrence of a rule, from left to right.
Merged(s, rule) ==
    FoldLeft(LAMBDA done, x :
                 IF /\ done # <<>> /\ done[Len(done)] = <<rule[1], FALSE>> /\ x = rule[2]
                 THEN Append(Front(done), <<rule[1] \o rule[2], TRUE>>)
                 ELSE Append(done, <<x, FALSE>>),
             <<>>, s)
Applied(s, rule) == LET m == Merged(s, rule) IN [i \in DOMAIN m |-> m[i][1]]

\* Mutant: the first adjacent pair with a rank instead of the lowest rank.
BestRule_Leftmost(s) ==
    LET first == Min({i \in 1..Len(s) - 1 : <<s[i], s[i + 1]>> \in Range(MergeRules)})
    IN  <<s[first], s[first + 1]>>
BestRule(s) == MergeRules[Min(RanksIn(s))]

-----------------------------------------------------------------------------
(* encode()                                                                  *)

ChatPrompt(prompt) == Before \o prompt \o After

Init ==
    /\ text \in Texts \cup {ChatPrompt(p) : p \in Prompts}
    /\ skip \in BOOLEAN
    /\ offset = 0 /\ special = NoSpecial /\ runes = <<>> /\ index = 0
    /\ symbols = <<>> /\ piece = <<>> /\ ids = <<>>
    /\ position = 0 /\ encoded = <<>> /\ output = <<>>
    /\ phase = "segment"

OccursAt(s, at) == at + Len(s) <= Len(text) /\ SubSeq(text, at + 1, at + Len(s)) = s
Occurrences == {at \in offset..Len(text) - 1 : \E s \in Specials : OccursAt(s, at)}

\* The next special token, and the runes of the plain text before it.
Segment ==
    /\ phase = "segment" /\ offset < Len(text)
    /\ LET end == Min(Occurrences \cup {Len(text)})
           plain == SubSeq(text, offset + 1, end)
       IN  IF IsUtf8(plain)
           THEN /\ runes' = Decoded(plain).runes
                /\ special' = IF end = Len(text) THEN NoSpecial
                              ELSE CHOOSE s \in Specials : OccursAt(s, end)
                /\ offset' = end
                /\ phase' = "piece"
           ELSE phase' = "threw" /\ UNCHANGED <<runes, special, offset>>
    /\ index' = 0
    /\ UNCHANGED <<text, symbols, piece, ids, decoding, skip>>

Bytes(r) == FlattenSeq([i \in DOMAIN r |-> r[i].bytes])

NextPiece ==
    /\ phase = "piece" /\ index < Len(runes)
    /\ piece' = SubSeq(runes, index + 1, PieceEnd(runes, index + 1) - 1)
    /\ index' = PieceEnd(runes, index + 1) - 1
    /\ symbols' = [i \in DOMAIN Bytes(piece') |-> <<ByteSymbol(Bytes(piece')[i])>>]
    /\ phase' = "merge"
    /\ UNCHANGED <<text, offset, special, runes, ids, decoding, skip>>

MergeBest ==
    /\ phase = "merge" /\ RanksIn(symbols) # {}
    /\ symbols' = Applied(symbols, BestRule(symbols))
    /\ UNCHANGED <<text, offset, special, runes, index, piece, ids, decoding, skip, phase>>

LookUp ==
    /\ phase = "merge" /\ RanksIn(symbols) = {}
    /\ IF Range(symbols) \subseteq Range(Tokens)
       THEN ids' = ids \o [i \in DOMAIN symbols |-> Id(symbols[i])] /\ phase' = "piece"
       ELSE phase' = "threw" /\ UNCHANGED ids
    /\ symbols' = <<>> /\ piece' = <<>>
    /\ UNCHANGED <<text, offset, special, runes, index, decoding, skip>>

\* Mutant: the offset moves by one byte instead of the special token's length.
EndSegment_OneByte ==
    /\ phase = "piece" /\ index = Len(runes)
    /\ ids' = IF special = NoSpecial THEN ids ELSE Append(ids, SpecialId[special])
    /\ offset' = IF special = NoSpecial THEN offset ELSE offset + 1
    /\ special' = NoSpecial /\ runes' = <<>> /\ index' = 0
    /\ phase' = "segment"
    /\ UNCHANGED <<text, symbols, piece, decoding, skip>>

EndSegment ==
    /\ phase = "piece" /\ index = Len(runes)
    /\ ids' = IF special = NoSpecial THEN ids ELSE Append(ids, SpecialId[special])
    /\ offset' = offset + Len(special)
    /\ special' = NoSpecial /\ runes' = <<>> /\ index' = 0
    /\ phase' = "segment"
    /\ UNCHANGED <<text, symbols, piece, decoding, skip>>

EncodeReturns ==
    /\ phase = "segment" /\ offset = Len(text)
    /\ phase' = "decode"
    /\ UNCHANGED <<text, encoding, decoding, skip>>

-----------------------------------------------------------------------------
(* decode() of what encode() returned                                        *)

Flushed == [i \in DOMAIN encoded |-> SymbolByte(encoded[i])]

\* Mutant: a special token is put out before the bytes that precede it.
DecodeSpecial_Unflushed ==
    /\ phase = "decode" /\ position < Len(ids)
    /\ \E s \in Specials :
        /\ SpecialId[s] = ids[position + 1]
        /\ output' = output \o (IF skip THEN <<>> ELSE s)
    /\ position' = position + 1
    /\ UNCHANGED <<text, encoding, encoded, skip, phase>>

DecodeSpecial ==
    /\ phase = "decode" /\ position < Len(ids)
    /\ \E s \in Specials :
        /\ SpecialId[s] = ids[position + 1]
        /\ output' = output \o Flushed \o (IF skip THEN <<>> ELSE s)
    /\ encoded' = <<>>
    /\ position' = position + 1
    /\ UNCHANGED <<text, encoding, skip, phase>>

DecodeToken ==
    /\ phase = "decode" /\ position < Len(ids)
    /\ ids[position + 1] < Len(Tokens)
    /\ encoded' = encoded \o Tokens[ids[position + 1] + 1]
    /\ position' = position + 1
    /\ UNCHANGED <<text, encoding, output, skip, phase>>

DecodeReturns ==
    /\ phase = "decode" /\ position = Len(ids)
    /\ output' = output \o Flushed
    /\ encoded' = <<>>
    /\ phase' = "done"
    /\ UNCHANGED <<text, encoding, position, skip>>

Next ==
    \/ Segment \/ NextPiece \/ MergeBest \/ LookUp \/ EndSegment \/ EncodeReturns
    \/ DecodeSpecial \/ DecodeToken \/ DecodeReturns

\* One thread runs the calls to their end.
Spec == Init /\ [][Next]_vars /\ WF_vars(Next)

-----------------------------------------------------------------------------
(* At every point between two steps of encode(), the ids so far, the symbols *)
(* at hand, the runes and the special token still to encode and the rest of  *)
(* the text spell the text: no step loses, repeats or reorders a byte.       *)
TokenBytes(id) ==
    IF id < Len(Tokens) THEN [i \in DOMAIN Tokens[id + 1] |-> SymbolByte(Tokens[id + 1][i])]
    ELSE CHOOSE s \in Specials : SpecialId[s] = id
SymbolBytes == LET all == FlattenSeq(symbols) IN [i \in DOMAIN all |-> SymbolByte(all[i])]
TextPreserved ==
    /\ offset \in 0..Len(text) /\ index \in 0..Len(runes) /\ position \in 0..Len(ids)
    /\ special \in Specials \cup {NoSpecial}
    /\ phase # "threw" =>
        FlattenSeq([i \in DOMAIN ids |-> TokenBytes(ids[i])]) \o SymbolBytes
            \o Bytes(SubSeq(runes, index + 1, Len(runes)))
            \o SubSeq(text, offset + 1, Len(text)) = text

(* Merging the lowest rank first gives what byte pair encoding is defined    *)
(* by: the rules applied one after the other, each wherever it fits.         *)
(* (encode_piece(), for rules that only join what earlier rules built.)      *)
RulesInOrder(bytes) ==
    FoldLeft(Applied, [i \in DOMAIN bytes |-> <<ByteSymbol(bytes[i])>>], MergeRules)
MergesInRankOrder ==
    phase = "merge" /\ RanksIn(symbols) = {} => symbols = RulesInOrder(Bytes(piece))

(* A piece is a contraction, a word with at most one other character before  *)
(* it, a single digit, punctuation with a space before and newlines behind   *)
(* it, or white space; so merges never join a word with the next one.        *)
OnlyFrom(r, i, Class(_)) == \A k \in i..Len(r) : Class(r[k].value)
IsPiece(r) ==
    \/ Len(r) > 1 /\ r[1].value = 39 /\ [k \in 1..Len(r) - 1 |-> Lower(r[k + 1].value)] \in Contractions
    \/ OnlyFrom(r, 2, IsLetter) /\ ~IsNewline(r[1].value) /\ (Len(r) > 1 => ~IsNumber(r[1].value))
    \/ \E from \in 1..2 : \E to \in from..Len(r) :
        /\ from = 2 => r[1].value = 32
        /\ OnlyFrom(SubSeq(r, 1, to), from, IsPunctuation)
        /\ OnlyFrom(r, to + 1, IsNewline)
    \/ OnlyFrom(r, 1, IsSpace)
PiecesAreWellFormed == phase = "merge" => piece # <<>> /\ IsPiece(piece)

(* Valid UTF-8 is decoded to what was encoded, without special tokens if     *)
(* they are to be skipped; anything else is refused. (RoundTripsUtf8Text in  *)
(* qwen3_tokenizer_test.cpp, for a few texts.)                               *)
SpecialPositions ==
    UNION {x[1] + 1..x[1] + Len(x[2]) : x \in
        {y \in (0..Len(text)) \X Specials : OccursAt(y[2], y[1])}}
Expected ==
    LET dropped == IF skip THEN SpecialPositions ELSE {}
        kept[n \in 0..Len(text)] ==
            IF n = 0 THEN <<>> ELSE IF n \in dropped THEN kept[n - 1] ELSE Append(kept[n - 1], text[n])
    IN  kept[Len(text)]
WellFormed ==
    \A i \in 1..Len(text) :
        /\ i + Remaining(text[i]) <= Len(text)
        /\ \A k \in 1..Remaining(text[i]) : IsContinuation(text[i + k])
        /\ text[i] >= 128 /\ Remaining(text[i]) = 0 =>
            \E j \in 1..i - 1 : IsContinuation(text[i]) /\ i - j <= Remaining(text[j])
RoundTrip ==
    /\ phase = "done" => output = Expected /\ WellFormed
    /\ phase = "threw" => ~WellFormed

(* encode() and decode() come to an end on every text.                       *)
Terminates == <>(phase \in {"done", "threw"})
=============================================================================
