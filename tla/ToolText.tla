------------------------------- MODULE ToolText -------------------------------
(***************************************************************************)
(* How ipc_send and ipc_wait print the parameters of a message: the loop   *)
(* over ret_params that fills ret_string, and the printf behind it.        *)
(*                                                                         *)
(* A parameter is a kind and the number n of characters of an integer, or  *)
(* of bytes of a blob or of a string with its terminator.  The k-th        *)
(* character that stands for the i-th parameter is <<i, k>>.               *)
(***************************************************************************)
EXTENDS Integers, Sequences, SequencesExt

CONSTANT Room    \* sizeof(ret_string), 256 in the code

ASSUME RoomAssumption == Room \in Nat \ {0}

Param == [kind : {"integer"}, n : Nat \ {0}] \cup [kind : {"string", "blob"}, n : Nat]

NUL   == <<0, 0>>
Space == <<0, 1>>
Quote == <<0, 2>>

(* Characters written to ret_string from the offset pos on *)
Write(cells, pos, chars) ==
    SubSeq(cells, 1, pos) \o chars \o SubSeq(cells, pos + Len(chars) + 1, Len(cells))

Chars(i, n) == [k \in 1..n |-> <<i, k>>]

Start == [cells |-> [c \in 1 .. Room |-> NUL], pos |-> 0, state |-> "going"]

(* A space between parameters *)
Separate(st, i) ==
    IF i = 1 \/ st.state # "going" THEN st
    ELSE IF st.pos + 1 < Room - 1
    THEN [st EXCEPT !.cells = Write(@, st.pos, <<Space>>), !.pos = @ + 1]
    ELSE [st EXCEPT !.state = "failed"]

(* A string in quotes: the closing quote takes the place of its terminator, *)
(* or of the opening quote when it has not even that.                       *)
Quoted(i, n) ==
    IF n = 0 THEN <<Quote, NUL>> ELSE <<Quote>> \o Chars(i, n - 1) \o <<Quote, NUL>>

(* Mutant: the quotes are not counted *)
PutStringTight(st, i, n) ==
    IF st.pos + n < Room
    THEN [st EXCEPT !.cells = Write(@, st.pos, Quoted(i, n)), !.state = "stopped"]
    ELSE [st EXCEPT !.state = "failed"]

(* The loop is left behind a string *)
PutString(st, i, n) ==
    IF st.pos + n + 2 < Room - 1
    THEN [st EXCEPT !.cells = Write(@, st.pos, Quoted(i, n)), !.state = "stopped"]
    ELSE [st EXCEPT !.state = "failed"]

(* A blob: two hexadecimal digits for a byte; of no bytes nothing is written *)
Digits(i, n) == IF n = 0 THEN <<>> ELSE Append(Chars(i, n * 2), NUL)

PutBlob(st, i, n) ==
    IF st.pos + n * 2 < Room - 1
    THEN [st EXCEPT !.cells = Write(@, st.pos, Digits(i, n)), !.pos = @ + n * 2]
    ELSE [st EXCEPT !.state = "failed"]

(* An integer: strcpy puts it at the front of ret_string, wherever pos is *)
PutInteger(st, i, n) ==
    IF st.pos + n < Room - 1
    THEN [st EXCEPT !.cells = Write(@, 0, Append(Chars(i, n), NUL)), !.pos = @ + n]
    ELSE [st EXCEPT !.state = "failed"]

PutParam(st, i, p) ==
    LET s == Separate(st, i) IN
    IF s.state # "going" THEN s
    ELSE CASE p.kind = "integer" -> PutInteger(s, i, p.n)
           [] p.kind = "string"  -> PutString(s, i, p.n)
           [] p.kind = "blob"    -> PutBlob(s, i, p.n)

(* The loop over ret_params: how far it is after n of them *)
Prints(params) ==
    LET after[n \in 0 .. Len(params)] ==
            IF n = 0 THEN Start ELSE PutParam(after[n - 1], n, params[n])
    IN after

Printing(params) == Prints(params)[Len(params)]

(* printf("%s\n", ret_string): up to the first NUL *)
Printed(cells) == SubSeq(cells, 1, SelectInSeq(cells, LAMBDA c : c = NUL) - 1)

-----------------------------------------------------------------------------
(* The text that shows a parameter, and those that show the first n *)
Shown(i, p) ==
    CASE p.kind = "integer" -> Chars(i, p.n)
      [] p.kind = "string"  -> <<Quote>> \o Chars(i, p.n - 1) \o <<Quote>>
      [] p.kind = "blob"    -> Chars(i, p.n * 2)

Lead(text, i) == IF i = 1 THEN <<>> ELSE Append(text, Space)

Texts(params) ==
    LET text[n \in 0 .. Len(params)] ==
            IF n = 0 THEN <<>>
            ELSE Lead(text[n - 1], n) \o Shown(n, params[n])
    IN text

WholeText(params) == Texts(params)[Len(params)]

(* The messages the tools can show: an integer only as the first parameter, *)
(* a string only as the last, and with its terminator.                      *)
Showable(params) ==
    \A i \in DOMAIN params :
        /\ params[i].kind = "integer" => i = 1
        /\ params[i].kind = "string" => i = Len(params) /\ params[i].n > 0

=============================================================================
