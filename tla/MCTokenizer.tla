----------------------------- MODULE MCTokenizer -----------------------------
(* A small alphabet, vocabulary and list of merges for TLC.                  *)
EXTENDS Tokenizer

\* a b s 1 space newline ! ' < and the two bytes of a letter beyond ASCII
Alphabet == {97, 98, 115, 49, 32, 10, 33, 39, 60, 195, 169}
KnownBytes == <<97, 98, 115, 49, 32, 10, 33, 39, 60, 195, 169,
                76, 83, 108, 114, 128, 137, 152, 159, 226, 240>>
Words(n) == UNION {[1..k -> Alphabet] : k \in 0..n}
AllTexts ==
    Words(3) \cup {<<98>> \o w \o <<97, 98>> : w \in Words(2)}
        \cup {<<97, 98, 97, 98, 98>>, <<97, 97, 97, 98>>, <<32, 32, 33, 33, 10, 10, 97>>,
              <<39, 83, 39, 108, 76, 39, 114>>, <<226, 128, 137, 97, 226, 128>>,
              <<240, 159, 152, 128, 97>>, <<49, 49, 240, 159>>}
AllPrompts == Words(1)
Start == <<60, 97, 10>>
End == <<60, 98, 10>>
SpecialIds == [s \in {<<60, 97>>, <<60, 98>>} |-> IF s = <<60, 97>> THEN 300 ELSE 301]

S(byte) == <<ByteSymbol(byte)>>
Rules == <<
    <<S(97), S(98)>>, <<S(195), S(169)>>, <<S(32), S(97)>>, <<S(98), S(98)>>,
    <<S(97) \o S(98), S(97) \o S(98)>>, <<S(33), S(33)>>, <<S(97), S(97)>>,
    <<S(97) \o S(98), S(98)>>, <<S(39), S(115)>>, <<S(10), S(10)>>>>
Vocabulary ==
    [i \in DOMAIN KnownBytes |-> S(KnownBytes[i])]
        \o [i \in DOMAIN Rules |-> Rules[i][1] \o Rules[i][2]]
=============================================================================
