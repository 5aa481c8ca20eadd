----------------------------- MODULE MCIpcTools -----------------------------
EXTENDS IpcTools

Tuples(S, n) == UNION {[1..k -> S] : k \in 0..n}

Numeral(minus, value) == [minus |-> minus, digits |-> TRUE, value |-> value, length |-> 1]
Word(digits, length) == [minus |-> FALSE, digits |-> digits, value |-> 0, length |-> length]
Opt(letter, size, text) == [letter |-> letter, size |-> size, text |-> text]

(* Every number up to beyond the width of an int, for every type; string   *)
(* texts up to beyond the limit, hex texts up to beyond what the buffer    *)
(* and the size of a blob can hold                                         *)
SingleOptions ==
    {Opt(l, s, Numeral(m, v)) : l \in {"u", "i"}, s \in {8, 16, 32}, m \in BOOLEAN, v \in 0..17}
    \cup {Opt(l, s, Word(FALSE, 1)) : l \in {"u", "i"}, s \in {8, 12}}
    \cup {Opt(l, 0, Word(d, n)) : l \in {"s", "h"}, d \in BOOLEAN, n \in 0..4}
    \cup {Opt("h", 0, Word(TRUE, n)) : n \in {12, 14, 16, 18}}

(* Options in combination: a server's name, good and bad parameters *)
Combined ==
    {Opt("d", 0, Word(FALSE, 1)), Opt("u", 8, Numeral(FALSE, 1)), Opt("u", 8, Word(FALSE, 1)),
     Opt("s", 0, Word(FALSE, 3)), Opt("h", 0, Word(TRUE, 4)), Opt("?", 0, Word(FALSE, 1))}

MCCommandLines == {<<o>> : o \in SingleOptions} \cup Tuples(Combined, 3)

P(kind, n) == [kind |-> kind, n |-> n]

MCAnswers == {<<P("integer", 1), P("blob", 1)>>, Garbled}

MCMessages ==
    {Garbled, <<P("blob", 1), P("blob", 1), P("blob", 1)>>}
    \cup Tuples({P(k, n) : k \in {"integer", "string", "blob"}, n \in {1, 2, 4}}
                \cup {P("string", 0), P("blob", 0)}, 2)

=============================================================================
