------------------------------- MODULE ToolArgs -------------------------------
(***************************************************************************)
(* The options of ipc_send's command line and what they become.            *)
(*                                                                         *)
(* An option is a letter, a size and a text.  Of the text the parser looks *)
(* at whether it starts with a minus, whether the rest is digits (of the   *)
(* base it expects), at the number the digits make and at their count.     *)
(* The widths of the C types are parameters: 8, 16 and 32 bits in the      *)
(* code; the long that strtol returns is wider.                            *)
(***************************************************************************)
EXTENDS Integers, Sequences

CONSTANTS CharBits, ShortBits, IntBits,
          SizeBits,               \* what a type word has for the size of a blob; 14 in the code
          IPC_SEND_INSTR_MAX_LEN  \* longest string, its terminator included; 256 in the code

ASSUME WidthAssumption ==
    /\ CharBits \in Nat /\ ShortBits \in Nat /\ IntBits \in Nat
    /\ 0 < CharBits /\ CharBits < ShortBits /\ ShortBits < IntBits
    /\ SizeBits \in Nat /\ IPC_SEND_INSTR_MAX_LEN \in Nat \ {0}

Bits(size) == CASE size = 8 -> CharBits [] size = 16 -> ShortBits [] size = 32 -> IntBits

Text == [minus : BOOLEAN, digits : BOOLEAN, value : Nat, length : Nat]
Option == [letter : {"d", "u", "i", "s", "h", "?"}, size : Nat, text : Text]

(* What the text of an option says *)
Stated(text) == IF text.minus THEN -text.value ELSE text.value

Error == [type |-> "error", size |-> 0, value |-> 0]

(* long to uint32_t, and to int32_t: the low bits stay *)
ToUint32(v) == v % 2^IntBits
ToInt32(v)  == LET u == ToUint32(v) IN IF u >= 2^(IntBits - 1) THEN u - 2^IntBits ELSE u

(* Mutant: the upper bound is one too high *)
FormatIntLoose(size, text) ==
    LET v == ToInt32(Stated(text)) IN
    IF ~text.digits \/ size \notin {8, 16, 32} THEN Error
    ELSE IF v < -(2^(Bits(size) - 1)) \/ v > 2^(Bits(size) - 1) THEN Error
    ELSE [type |-> "int", size |-> size, value |-> v]

(* format_int_param *)
FormatInt(size, text) ==
    LET v == ToInt32(Stated(text)) IN
    IF ~text.digits \/ size \notin {8, 16, 32} THEN Error
    ELSE IF v < -(2^(Bits(size) - 1)) \/ v > 2^(Bits(size) - 1) - 1 THEN Error
    ELSE [type |-> "int", size |-> size, value |-> v]

(* format_uint_param: a minus is no digit *)
FormatUint(size, text) ==
    LET v == ToUint32(text.value) IN
    IF text.minus \/ ~text.digits \/ size \notin {8, 16, 32} THEN Error
    ELSE IF v > 2^Bits(size) - 1 THEN Error
    ELSE [type |-> "uint", size |-> size, value |-> v]

(* AF_RPC_SET_PARAM_AS_BLOB, AF_RPC_SET_PARAM_AS_STRING: the size is cut *)
Allocated(type, length, value) == [type |-> type, size |-> length % 2^SizeBits, value |-> value]

(* -s: the terminator is part of the parameter *)
FormatString(text) ==
    IF text.length + 1 > IPC_SEND_INSTR_MAX_LEN THEN Error
    ELSE Allocated("string", text.length + 1, text.value)

(* -h: two digits make a byte; there may be more of them than a size can tell *)
FormatHex(text) ==
    IF text.length = 0 \/ text.length % 2 # 0 \/ text.minus \/ ~text.digits THEN Error
    ELSE Allocated("blob", text.length \div 2, text.value)

Format(o) ==
    CASE o.letter = "u" -> FormatUint(o.size, o.text)
      [] o.letter = "i" -> FormatInt(o.size, o.text)
      [] o.letter = "s" -> FormatString(o.text)
      [] o.letter = "h" -> FormatHex(o.text)
      [] OTHER -> Error

IsAllocated(p) == p.type \in {"string", "blob"}

(* The bytes of a parameter in the message: a type word and the value *)
EncodedSize(p) == 2 + (IF IsAllocated(p) THEN p.size ELSE p.size \div 8)

-----------------------------------------------------------------------------
(* The numbers an option of its letter and size can state *)
InRange(o) ==
    /\ o.text.digits /\ o.size \in {8, 16, 32}
    /\ IF o.letter = "i"
       THEN Stated(o.text) \in -(2^(Bits(o.size) - 1)) .. 2^(Bits(o.size) - 1) - 1
       ELSE ~o.text.minus /\ o.text.value < 2^Bits(o.size)

(* The bytes that a string or hexadecimal digits make *)
Bytes(o) == IF o.letter = "s" THEN o.text.length + 1 ELSE o.text.length \div 2

(* What the option states can be told from what agrees with it in the bits *)
(* that are kept: 32 of a number, SizeBits of a size                       *)
InWord(o) ==
    CASE o.letter = "i" -> Stated(o.text) \in -(2^(IntBits - 1)) .. 2^(IntBits - 1) - 1
      [] o.letter = "u" -> Stated(o.text) \in 0 .. 2^IntBits - 1
      [] OTHER -> Bytes(o) < 2^SizeBits

(* The parameter is what the option states *)
AsStated(p, o) ==
    IF o.letter \in {"u", "i"}
    THEN InRange(o) /\ p.size = o.size /\ p.value = Stated(o.text)
    ELSE IsAllocated(p) /\ p.size = Bytes(o)

=============================================================================
