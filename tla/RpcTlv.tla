------------------------------- MODULE RpcTlv -------------------------------
(***************************************************************************)
(* The RPC codec of af_rpc.c: typed parameters put into a buffer, one      *)
(* after the other or all at once, and taken out of it again.              *)
(*                                                                         *)
(* A buffer is a function from positions to bytes.  It starts with its     *)
(* length, two bytes, big endian; every parameter is a type word of two    *)
(* bytes and the bytes of its value.  A value, and the base pointer that   *)
(* holds an integer in af_rpc_param_t, are sequences of bytes, the most    *)
(* significant one first: of base the 32 bits that the AF_RPC_GET_ macros  *)
(* look at.                                                                *)
(*                                                                         *)
(* role tells what the buffer is for: a program builds a message in it     *)
(* ("tx") or receives one into it ("rx"), as ipc_send does with txBuffer   *)
(* and outBuffer.  Both kinds can be read parameter by parameter.  built   *)
(* and reads are history: the parameters a tx buffer should hold, and what *)
(* the readers have returned since they last started at the front.         *)
(***************************************************************************)
EXTENDS Integers, Sequences

CONSTANTS BufSize,    \* bytes in the buffer
          Words,      \* 32-bit values to encode: sequences of four bytes
          Blobs,      \* blobs to encode: sequences of bytes
          RxBytes,    \* bytes that occur in a received message
          RxMax,      \* longest received message
          MaxParams,  \* parameters in one call of create_buffer_with_params
          MaxStarts,  \* how often a buffer is begun, over what it held before
          MaxBlob     \* longest blob that is encoded or asked for

VARIABLES role, buf, bufSize, ready, starts, built, cursor, reads, ret

vars == <<role, buf, bufSize, ready, starts, built, cursor, reads, ret>>

Byte == 0 .. 255

(* The length is stored in 16 bits; a buffer it cannot describe is not     *)
(* considered.                                                             *)
ASSUME SizeAssumption ==
    /\ BufSize \in Nat /\ RxMax \in Nat /\ MaxParams \in Nat /\ MaxStarts \in Nat
    /\ MaxBlob \in Nat
    /\ 1 <= BufSize /\ BufSize < 65536
    /\ RxMax <= BufSize
    /\ MaxBlob <= 16383

ASSUME BytesAssumption ==
    /\ Words \subseteq [1 .. 4 -> Byte]
    /\ \A blob \in Blobs : blob \in Seq(Byte) /\ Len(blob) <= MaxBlob
    /\ RxBytes \subseteq Byte

-----------------------------------------------------------------------------
(* Types and their sizes *)

LENGTH_SIZE == 2
TYPE_SIZE   == 2

AF_RPC_MAX_BLOB_SIZE == 16383

AF_RPC_TYPE_UINT8  == 36864     \* 0x9000
AF_RPC_TYPE_UINT16 == 40960     \* 0xA000
AF_RPC_TYPE_UINT32 == 45056     \* 0xB000
AF_RPC_TYPE_INT8   == 53248     \* 0xD000
AF_RPC_TYPE_INT16  == 57344     \* 0xE000
AF_RPC_TYPE_INT32  == 61440     \* 0xF000

UintTypes == {AF_RPC_TYPE_UINT8, AF_RPC_TYPE_UINT16, AF_RPC_TYPE_UINT32}
IntTypes  == {AF_RPC_TYPE_INT8, AF_RPC_TYPE_INT16, AF_RPC_TYPE_INT32}

AF_RPC_TYPE_BLOB(size)   == size % 16384
AF_RPC_TYPE_STRING(size) == (size % 16384) + 16384

IsInteger(type) == type >= 32768

\* the bits 12 to 14 of an integer type choose its size
SizeOfType(type) ==
    IF IsInteger(type)
    THEN <<-1, 1, 2, 4, -1, 1, 2, 4>>[((type \div 4096) % 8) + 1]
    ELSE type % 16384

\* bits other than the type's are set
HasExtraBits(type) == type % 4096 # 0

ERR_BUFFER_OVERFLOW  == -1
ERR_BAD_PARAM        == -2
ERR_BAD_TYPE         == -3
ERR_BAD_TLV          == -4
ERR_WRONG_NUM_PARAMS == -6

-----------------------------------------------------------------------------
(* Bytes in a buffer *)

Word(w) == << (w \div 256) % 256, w % 256 >>

WordAt(b, pos) == 256 * b[pos] + b[pos + 1]

GetLen(b) == WordAt(b, 0)

\* memcpy into the buffer; what would go beyond its end is lost
Put(b, pos, bytes) ==
    [i \in DOMAIN b |-> IF i >= pos /\ i < pos + Len(bytes) THEN bytes[i - pos + 1] ELSE b[i]]

BytesAt(b, pos, n) == [i \in 1 .. n |-> b[pos + i - 1]]

SetLen(b, len) == Put(b, 0, Word(len))

\* the low bytes of base, which the casts to uint8_t, uint16_t and uint32_t keep
Narrow(base, size) == SubSeq(base, 5 - size, 4)

(* Mutant: int16_t is widened like uint16_t *)
WidenZero(type, value) ==
    LET sign == IF type = AF_RPC_TYPE_INT8 /\ value[1] >= 128 THEN 255 ELSE 0
    IN  [i \in 1 .. 4 - Len(value) |-> sign] \o value

\* the bits that stand in front of a value in base: its sign, but for uints
Widen(type, value) ==
    LET sign == IF type \in IntTypes /\ value[1] >= 128 THEN 255 ELSE 0
    IN  [i \in 1 .. 4 - Len(value) |-> sign] \o value

-----------------------------------------------------------------------------
(* Building a message *)

(* Mutant: the room for the type word is forgotten *)
AddParamNoTypeRoom(type, value) ==
    LET pos  == GetLen(buf)
        next == pos + TYPE_SIZE + Len(value)
    IN  IF pos + Len(value) > bufSize
        THEN /\ ret' = ERR_BUFFER_OVERFLOW
             /\ UNCHANGED buf
        ELSE /\ buf' = SetLen(Put(Put(buf, pos, Word(type)), pos + TYPE_SIZE, value), next)
             /\ ret' = next

(* The common part of af_rpc_add_*_to_buffer: the parameter goes to where  *)
(* the message ends, if there is room.                                     *)
AddParam(type, value) ==
    LET pos  == GetLen(buf)
        next == pos + TYPE_SIZE + Len(value)
    IN  IF next > bufSize
        THEN /\ ret' = ERR_BUFFER_OVERFLOW
             /\ UNCHANGED buf
        ELSE /\ buf' = SetLen(Put(Put(buf, pos, Word(type)), pos + TYPE_SIZE, value), next)
             /\ ret' = next

Remember(param) ==
    built' = IF ret' < 0 THEN built ELSE Append(built, param)

(* af_rpc_init_buffer *)
InitBuffer ==
    /\ role = "tx" /\ starts < MaxStarts
    /\ starts' = starts + 1
    /\ IF bufSize < LENGTH_SIZE
       THEN ret' = ERR_BAD_PARAM /\ UNCHANGED <<buf, ready, built, cursor, reads>>
       ELSE /\ buf' = SetLen(buf, LENGTH_SIZE)
            /\ ret' = LENGTH_SIZE
            /\ ready' = TRUE
            /\ built' = <<>> /\ cursor' = 0 /\ reads' = <<>>
    /\ UNCHANGED <<role, bufSize>>

(* af_rpc_add_uint8_to_buffer to af_rpc_add_int32_to_buffer *)
AddInteger(type, word) ==
    /\ role = "tx" /\ ready
    /\ AddParam(type, Narrow(word, SizeOfType(type)))
    /\ Remember([type |-> type, base |-> word])
    /\ UNCHANGED <<role, bufSize, ready, starts, cursor, reads>>

(* af_rpc_add_blob_to_buffer; NULL with a size is the empty sequence *)
AddBlob(blob, blobSize) ==
    LET type == AF_RPC_TYPE_BLOB(blobSize)
    IN  /\ role = "tx" /\ ready
        /\ IF (Len(blob) = 0 /\ blobSize > 0) \/ blobSize > AF_RPC_MAX_BLOB_SIZE
           THEN ret' = ERR_BAD_PARAM /\ UNCHANGED buf
           ELSE AddParam(type, blob)
        /\ Remember([type |-> type, base |-> blob])
        /\ UNCHANGED <<role, bufSize, ready, starts, cursor, reads>>

(* One round of the loop of af_rpc_create_buffer_with_params.  The type    *)
(* word of a blob is stored before its base is found to be NULL.           *)
CreateStep(st, param) ==
    LET size        == SizeOfType(param.type)
        typed       == Put(st.b, st.pos, Word(param.type))
        fail(b, e)  == [b |-> b, pos |-> st.pos, ret |-> e]
        store(v)    == [b   |-> Put(typed, st.pos + TYPE_SIZE, v),
                        pos |-> st.pos + TYPE_SIZE + size,
                        ret |-> 0]
    IN  IF st.ret < 0 THEN st
        ELSE IF size < 0 \/ size > AF_RPC_MAX_BLOB_SIZE THEN fail(st.b, ERR_BAD_TYPE)
        ELSE IF st.pos + TYPE_SIZE + size > bufSize THEN fail(st.b, ERR_BUFFER_OVERFLOW)
        ELSE IF IsInteger(param.type)
        THEN IF HasExtraBits(param.type)
             THEN fail(st.b, ERR_BAD_TYPE)
             ELSE store(Narrow(param.base, size))
        ELSE IF size > 0 /\ Len(param.base) = 0
             THEN fail(typed, ERR_BAD_PARAM)
             ELSE store(param.base)

(* The loop: the buffer, the position and the error after n parameters *)
Creates(params) ==
    LET after[n \in 0 .. Len(params)] ==
            IF n = 0
            THEN [b   |-> buf,
                  pos |-> LENGTH_SIZE,
                  ret |-> IF bufSize < LENGTH_SIZE THEN ERR_BUFFER_OVERFLOW ELSE 0]
            ELSE CreateStep(after[n - 1], params[n])
    IN after

(* af_rpc_create_buffer_with_params.  When it fails it may have written    *)
(* over the parameters without having set the length: the program has to   *)
(* start the buffer again.                                                 *)
CreateBuffer(params) ==
    LET end == Creates(params)[Len(params)]
        ok  == end.ret = 0
    IN  /\ role = "tx" /\ starts < MaxStarts
        /\ starts' = starts + 1
        /\ buf'   = IF ok THEN SetLen(end.b, end.pos) ELSE end.b
        /\ ret'   = IF ok THEN end.pos ELSE end.ret
        /\ built' = IF ok THEN params ELSE <<>>
        /\ ready' = ok
        /\ cursor' = 0 /\ reads' = <<>>
        /\ UNCHANGED <<role, bufSize>>

-----------------------------------------------------------------------------
(* Taking a message apart *)

(* af_rpc_get_params_from_buffer for a caller that expects the types exp   *)
(* in its array.  st is the loop after each round: the position, the       *)
(* parameters stored so far and why it stopped.                            *)
ParseStep(st, b, len, exp, permissive) ==
    LET k        == Len(st.params) + 1
        type     == WordAt(b, st.pos)
        size     == SizeOfType(type)
        from     == st.pos + TYPE_SIZE
        stop(e)  == [st EXCEPT !.stopped = TRUE, !.ret = e]
        take(v)  == [st EXCEPT !.pos = from + size,
                               !.params = Append(@, [type |-> type, base |-> v])]
    IN  IF st.stopped \/ st.pos >= len THEN st
        ELSE IF k > Len(exp) THEN stop(0)
        ELSE IF from > len THEN stop(ERR_BAD_TLV)
        ELSE IF from + size > len THEN stop(ERR_BAD_TLV)
        ELSE IF IsInteger(type)
        THEN IF \/ HasExtraBits(type)
                \/ ~permissive /\ exp[k] # type
                \/ size < 0
             THEN stop(ERR_BAD_TYPE)
             ELSE take(Widen(type, BytesAt(b, from, size)))
        ELSE IF ~permissive /\ IsInteger(exp[k])
             THEN stop(ERR_BAD_TYPE)
             ELSE take(BytesAt(b, from, size))

(* Mutant: bytes that follow the last parameter are not noticed *)
ParseResultTrailing(end, size, exp, permissive) ==
    IF end.stopped THEN end.ret
    ELSE IF ~permissive /\ Len(end.params) # Len(exp) THEN ERR_WRONG_NUM_PARAMS
    ELSE Len(end.params)

\* the checks behind the loop: the number of parameters, and nothing left over
ParseResult(end, size, exp, permissive) ==
    IF end.stopped THEN end.ret
    ELSE IF ~permissive /\ Len(end.params) # Len(exp) THEN ERR_WRONG_NUM_PARAMS
    ELSE IF end.pos # size THEN ERR_BAD_TLV
    ELSE Len(end.params)

\* the loop; a parameter takes two bytes at least
Rounds(b, exp, permissive) ==
    LET len == GetLen(b)
        round[n \in 0 .. len] ==
            IF n = 0
            THEN [pos |-> LENGTH_SIZE, params |-> <<>>, stopped |-> FALSE, ret |-> 0]
            ELSE ParseStep(round[n - 1], b, len, exp, permissive)
    IN round

GetParams(b, size, exp, permissive) ==
    LET len == GetLen(b)
        end == Rounds(b, exp, permissive)[len]
    IN  IF size < LENGTH_SIZE \/ len > size
        THEN [ret |-> ERR_BAD_TLV, params |-> <<>>]
        ELSE [ret |-> ParseResult(end, size, exp, permissive), params |-> end.params]

(* The position a reader works at, and the checks all readers begin with.  *)
ReadPos == IF cursor = 0 THEN LENGTH_SIZE ELSE cursor

ReadError ==
    IF bufSize <= LENGTH_SIZE THEN ERR_BAD_PARAM
    ELSE IF GetLen(buf) > bufSize THEN ERR_BAD_TLV
    ELSE IF ReadPos > GetLen(buf) THEN ERR_BAD_PARAM
    ELSE 0

\* what a reader's call does when it fails, and when it delivers a value
ReadFails(err) == ret' = err /\ UNCHANGED <<cursor, reads>>

ReadGives(type, value) ==
    /\ ret' = ReadPos + TYPE_SIZE + Len(value)
    /\ cursor' = ret'
    /\ reads' = Append(reads, [type |-> type, value |-> value])

(* Mutant: the end of the buffer is taken for the end of the message *)
ReadIntegerToEnd(type) ==
    LET size == SizeOfType(type)
    IN  /\ ready
        /\ IF ReadError # 0 THEN ReadFails(ReadError)
           ELSE IF ReadPos + TYPE_SIZE + size > bufSize THEN ReadFails(ERR_BAD_TLV)
           ELSE IF WordAt(buf, ReadPos) # type THEN ReadFails(ERR_BAD_TYPE)
           ELSE ReadGives(type, BytesAt(buf, ReadPos + TYPE_SIZE, size))
        /\ UNCHANGED <<role, buf, bufSize, ready, starts, built>>

(* af_rpc_get_uint8_from_buffer_at_pos to af_rpc_get_int32_..._at_pos *)
ReadInteger(type) ==
    LET size == SizeOfType(type)
    IN  /\ ready
        /\ IF ReadError # 0 THEN ReadFails(ReadError)
           ELSE IF ReadPos + TYPE_SIZE + size > GetLen(buf) THEN ReadFails(ERR_BAD_TLV)
           ELSE IF WordAt(buf, ReadPos) # type THEN ReadFails(ERR_BAD_TYPE)
           ELSE ReadGives(type, BytesAt(buf, ReadPos + TYPE_SIZE, size))
        /\ UNCHANGED <<role, buf, bufSize, ready, starts, built>>

(* af_rpc_get_blob_with_length_from_buffer_at_pos for a caller with room   *)
(* for `room` bytes.  The type is read before it is known that there is    *)
(* one: at the end of a full buffer it is whatever lies behind it.         *)
ReadBlob(room, beyond) ==
    LET type == IF ReadPos + TYPE_SIZE <= bufSize THEN WordAt(buf, ReadPos) ELSE beyond
        size == SizeOfType(type)
        from == ReadPos + TYPE_SIZE
    IN  /\ ready
        /\ IF room <= 0 THEN ReadFails(ERR_BAD_PARAM)
           ELSE IF ReadError # 0 THEN ReadFails(ReadError)
           ELSE IF IsInteger(type) THEN ReadFails(ERR_BAD_TYPE)
           ELSE IF from + size > GetLen(buf) THEN ReadFails(ERR_BAD_TLV)
           ELSE IF size > room THEN ReadFails(ERR_BUFFER_OVERFLOW)
           ELSE ReadGives(type, BytesAt(buf, from, size))
        /\ UNCHANGED <<role, buf, bufSize, ready, starts, built>>

-----------------------------------------------------------------------------
(* What programs do with a buffer *)

(* A caller's C value of an integer type, as the word that base holds.     *)
IsValueOf(type, word) ==
    LET size == SizeOfType(type)
        high == SubSeq(word, 1, 4 - size)
    IN  \/ size = 4
        \/ /\ \A i \in DOMAIN high : high[i] = 0
           /\ type \in IntTypes => word[5 - size] < 128
        \/ /\ \A i \in DOMAIN high : high[i] = 255
           /\ type \in IntTypes /\ word[5 - size] >= 128

IntegerParams ==
    {[type |-> t, base |-> w] : t \in UintTypes \cup IntTypes, w \in Words}

ValidIntegers == {p \in IntegerParams : IsValueOf(p.type, p.base)}

BlobParams ==
    {[type |-> AF_RPC_TYPE_BLOB(Len(blob)), base |-> blob] : blob \in Blobs}
      \cup {[type |-> AF_RPC_TYPE_STRING(Len(blob)), base |-> blob] : blob \in Blobs \ {<<>>}}

\* any sized uint, an integer with bits of a blob, a blob that is NULL
WrongParams ==
    {[type |-> t, base |-> <<0, 0, 0, 1>>] : t \in {32768, AF_RPC_TYPE_UINT8 + 1}}
      \cup {[type |-> AF_RPC_TYPE_BLOB(1), base |-> <<>>]}

Params == ValidIntegers \cup BlobParams \cup WrongParams

(* A message of n bytes arrives, its length field right or wrong by one.   *)
Receive(n, len, payload) ==
    /\ role = "rx" /\ ~ready
    /\ buf' = Put(SetLen(buf, len), LENGTH_SIZE, payload)
    /\ bufSize' = n
    /\ ready' = TRUE
    /\ UNCHANGED <<role, starts, built, cursor, reads, ret>>

\* the program reads from the first parameter again
Rewind ==
    /\ ready
    /\ cursor' = 0 /\ reads' = <<>>
    /\ UNCHANGED <<role, buf, bufSize, ready, starts, built, ret>>

Init ==
    /\ role \in {"tx", "rx"}
    /\ buf = [i \in 0 .. BufSize - 1 |-> 0]
    /\ bufSize = IF role = "tx" THEN BufSize ELSE 0
    /\ ready = FALSE /\ starts = 0
    /\ built = <<>>
    /\ cursor = 0 /\ reads = <<>>
    /\ ret = 0

Next ==
    \/ InitBuffer
    \/ \E p \in ValidIntegers : AddInteger(p.type, p.base)
    \/ \E blob \in Blobs : AddBlob(blob, Len(blob))
    \/ AddBlob(<<>>, 1)
    \/ \E n \in 0 .. MaxParams : \E params \in [1 .. n -> Params] : CreateBuffer(params)
    \/ \E n \in 1 .. RxMax : \E len \in n - 1 .. n + 1, payload \in [1 .. n - 2 -> RxBytes] :
           Receive(n, len, payload)
    \/ \E type \in UintTypes \cup IntTypes : ReadInteger(type)
    \/ \E room \in 0 .. MaxBlob, beyond \in {0, AF_RPC_TYPE_UINT8} : ReadBlob(room, beyond)
    \/ Rewind

Spec == Init /\ [][Next]_vars

-----------------------------------------------------------------------------
(* Properties *)

\* The wire form, defined on its own: a length, then type and value of each
ValueOf(p) == IF IsInteger(p.type) THEN Narrow(p.base, SizeOfType(p.type)) ELSE p.base

Bodies(params) ==
    LET body[n \in 0 .. Len(params)] ==
            IF n = 0 THEN <<>>
            ELSE body[n - 1] \o Word(params[n].type) \o ValueOf(params[n])
    IN body

Encoded(params) ==
    LET body == Bodies(params)[Len(params)]
    IN  Word(LENGTH_SIZE + Len(body)) \o body

(* Every variable has its type; the length of the buffer is a byte count.  *)
TypeOK ==
    /\ role \in {"tx", "rx"}
    /\ buf \in [0 .. BufSize - 1 -> Byte]
    /\ bufSize \in 0 .. BufSize
    /\ ready \in BOOLEAN /\ starts \in 0 .. MaxStarts
    /\ cursor \in 0 .. BufSize
    /\ ret \in -6 .. BufSize
    /\ \A k \in DOMAIN reads : Len(reads[k].value) <= BufSize

(* A buffer that was begun and whose calls succeeded or failed cleanly     *)
(* holds exactly the wire form of the accepted parameters, in order,       *)
(* however they were put in: the add functions and create_buffer agree,    *)
(* and an add that fails for lack of room leaves the message as it was.    *)
BufferIsEncoding ==
    role = "tx" /\ ready =>
        /\ GetLen(buf) <= bufSize
        /\ BytesAt(buf, 0, GetLen(buf)) = Encoded(built)

(* What was built parses to what was built: get_params, strict with the    *)
(* same types or permissive, returns every parameter with its value, sign  *)
(* included.                                                               *)
RoundTrip ==
    role = "tx" /\ ready =>
        \A permissive \in BOOLEAN :
            GetParams(buf, GetLen(buf), [k \in DOMAIN built |-> built[k].type], permissive)
              = [ret |-> Len(built), params |-> built]

(* A received message that get_params accepts, for some expectation of its *)
(* caller, is the wire form of what it returned, to the last byte: nothing *)
(* is skipped, taken twice, or read behind the message.  (Two bytes count  *)
(* as no parameters whatever length below 3 they state.)                   *)
ParseIsExact ==
    role = "rx" /\ ready =>
        \A n \in 1 .. MaxParams, permissive \in BOOLEAN :
        \A exp \in [1 .. n -> {AF_RPC_TYPE_UINT8, AF_RPC_TYPE_INT16, AF_RPC_TYPE_BLOB(0)}] :
            LET p == GetParams(buf, bufSize, exp, permissive)
            IN  p.ret >= 0 /\ p.ret = Len(p.params)
                  => \/ BytesAt(buf, 0, bufSize) = Encoded(p.params)
                     \/ bufSize = LENGTH_SIZE /\ p.params = <<>>

(* The two ways of reading agree: what the readers return one after the    *)
(* other is, parameter by parameter, what a permissive get_params finds,   *)
(* and never more, whatever stale bytes follow the message.                *)
ReadersAgree ==
    ready /\ reads # <<>> =>
        LET found == GetParams(buf, bufSize, [k \in 1 .. BufSize |-> 0], TRUE).params
        IN  /\ Len(reads) <= Len(found)
            /\ \A k \in DOMAIN reads :
                  /\ reads[k].type = found[k].type
                  /\ reads[k].value = ValueOf(found[k])

=============================================================================
