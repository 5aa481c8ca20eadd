---------------------------- MODULE RpcTlvProofs ----------------------------
(***************************************************************************)
(* Proofs about the RPC codec (RpcTlv), for buffers, values and messages   *)
(* of every size.                                                          *)
(*                                                                         *)
(* The invariant WireInv says what stands in the buffer: behind the length *)
(* of a message under construction the wire form of what was put in        *)
(* (BuiltInv), and between the length and the cursor the wire form of what *)
(* the readers returned (ReadInv).  The properties about parsing follow    *)
(* from it by induction over the rounds of the parser: a message that      *)
(* carries the wire form of some parameters parses to them (RoundsFollow), *)
(* and what a parser has found after any round stands in the message with  *)
(* nothing between (RoundsExact).  Induction is over sets of numbers       *)
(* (SetInduction).                                                         *)
(***************************************************************************)
EXTENDS RpcTlv, NatLemmas, SequenceTheorems

-----------------------------------------------------------------------------
(* Bytes and words                                                         *)

Cells == [0 .. BufSize - 1 -> Byte]
Type16 == {w \in Nat : w < 65536}

(* A byte is a number below 256 *)
LEMMA ByteRange == \A x : x \in Byte <=> x \in Nat /\ x < 256
BY DEF Byte

(* Division of a word by 256 *)
LEMMA HighByte ==
    ASSUME NEW w \in Nat, w < 65536
    PROVE  w \div 256 \in Nat /\ w \div 256 < 256
BY SMT

(* The remainder of a division by 256 is a byte *)
LEMMA LowByte ==
    ASSUME NEW w \in Nat
    PROVE  w % 256 \in Nat /\ w % 256 < 256
BY SMT

(* A byte is its own remainder *)
LEMMA ByteMod ==
    ASSUME NEW w \in Nat, w < 256
    PROVE  w % 256 = w
BY SMT

(* Remainder and quotient *)
LEMMA Division ==
    ASSUME NEW w \in Int
    PROVE  w % 256 = w - 256 * (w \div 256)
BY SMT

(* A number put together from two bytes comes apart again *)
LEMMA TwoBytes ==
    ASSUME NEW hi \in Nat, NEW lo \in Nat, lo < 256
    PROVE  (256 * hi + lo) \div 256 = hi /\ (256 * hi + lo) % 256 = lo
BY SMT

(* The two bytes of a word *)
LEMMA WordBytes ==
    ASSUME NEW w \in Type16
    PROVE  /\ Word(w) \in Seq(Byte) /\ Len(Word(w)) = 2
           /\ Word(w)[1] \in Byte /\ Word(w)[2] \in Byte
           /\ 256 * Word(w)[1] + Word(w)[2] = w
<1> DEFINE hi == w \div 256
           lo == w % 256
<1>1. w \in Int /\ w \in Nat /\ w < 65536
  BY DEF Type16
<1>2. hi \in Nat /\ hi < 256 /\ lo \in Nat /\ lo < 256
  BY <1>1, HighByte, LowByte
<1>3. lo = w - 256 * hi
  BY <1>1, Division
<1>4. hi % 256 = hi
  <2> HIDE DEF hi
  <2> QED BY <1>2, ByteMod
<1>5. Word(w) = <<hi, lo>>
  BY <1>4 DEF Word
<1> HIDE DEF hi, lo
<1> QED BY <1>1, <1>2, <1>3, <1>5, ByteRange

(* Two bytes are the bytes of their word *)
LEMMA BytesWord ==
    ASSUME NEW hi \in Byte, NEW lo \in Byte
    PROVE  256 * hi + lo \in Type16 /\ Word(256 * hi + lo) = <<hi, lo>>
<1>1. hi \in Nat /\ hi < 256 /\ lo \in Nat /\ lo < 256
  BY ByteRange
<1>2. (256 * hi + lo) \div 256 = hi /\ (256 * hi + lo) % 256 = lo
  BY <1>1, TwoBytes
<1>3. hi % 256 = hi
  BY <1>1, ByteMod
<1>4. Word(256 * hi + lo) = <<hi, lo>>
  BY <1>2, <1>3, Zenon DEF Word
<1>5. 256 * hi + lo \in Type16
  BY <1>1 DEF Type16
<1> QED BY <1>4, <1>5, Zenon

(* The size of every type, and the integer types that are types *)
LEMMA Sizes ==
    /\ \A t \in Type16 : IsInteger(t) => SizeOfType(t) \in {-1, 1, 2, 4}
    /\ \A t \in Type16 : ~IsInteger(t) => SizeOfType(t) \in Nat /\ SizeOfType(t) < 16384
<1>1. ASSUME NEW t \in Type16, IsInteger(t) PROVE SizeOfType(t) \in {-1, 1, 2, 4}
  <2>1. ((t \div 4096) % 8) + 1 \in 1 .. 8
    BY SMT DEF Type16
  <2> QED BY <1>1, <2>1 DEF SizeOfType
<1>2. ASSUME NEW t \in Type16, ~IsInteger(t) PROVE SizeOfType(t) \in Nat /\ SizeOfType(t) < 16384
  BY <1>2, SMT DEF SizeOfType, Type16
<1> QED BY <1>1, <1>2

(* The integer types are those with a size and no extra bits *)
LEMMA IntegerTypes ==
    /\ \A t \in UintTypes \cup IntTypes :
          t \in Type16 /\ IsInteger(t) /\ ~HasExtraBits(t) /\ SizeOfType(t) \in {1, 2, 4}
    /\ \A t \in Type16 : IsInteger(t) /\ ~HasExtraBits(t) /\ SizeOfType(t) >= 0
                            => t \in UintTypes \cup IntTypes
<1>1. ASSUME NEW t \in UintTypes \cup IntTypes
      PROVE  t \in Type16 /\ IsInteger(t) /\ ~HasExtraBits(t) /\ SizeOfType(t) \in {1, 2, 4}
  <2>1. t \in {36864, 40960, 45056, 53248, 57344, 61440}
    BY DEF UintTypes, IntTypes, AF_RPC_TYPE_UINT8, AF_RPC_TYPE_UINT16, AF_RPC_TYPE_UINT32,
           AF_RPC_TYPE_INT8, AF_RPC_TYPE_INT16, AF_RPC_TYPE_INT32
  <2>2. t \in Type16 /\ t >= 32768 /\ t % 4096 = 0 /\ ((t \div 4096) % 8) + 1 \in {2, 3, 4, 6, 7, 8}
    BY <2>1, SMT DEF Type16
  <2> QED BY <2>2 DEF IsInteger, HasExtraBits, SizeOfType
<1>2. ASSUME NEW t \in Type16, IsInteger(t), ~HasExtraBits(t), SizeOfType(t) >= 0
      PROVE  t \in UintTypes \cup IntTypes
  <2>1. PICK q \in 8 .. 15 : t = 4096 * q
    <3>1. t \div 4096 \in 8 .. 15 /\ t = 4096 * (t \div 4096)
      BY <1>2, SMT DEF Type16, IsInteger, HasExtraBits
    <3> QED BY <3>1
  <2>2. SizeOfType(t) = <<-1, 1, 2, 4, -1, 1, 2, 4>>[(q % 8) + 1]
    <3>1. t \div 4096 = q
      BY <2>1, SMT
    <3> QED BY <1>2, <3>1 DEF SizeOfType
  <2>3. q # 8 /\ q # 12
    <3>1. 8 % 8 = 0 /\ 12 % 8 = 4
      BY SMT
    <3> QED BY <1>2, <2>2, <3>1
  <2>4. q \in {9, 10, 11, 13, 14, 15}
    BY <2>3
  <2> QED BY <2>1, <2>4 DEF UintTypes, IntTypes, AF_RPC_TYPE_UINT8, AF_RPC_TYPE_UINT16, AF_RPC_TYPE_UINT32,
           AF_RPC_TYPE_INT8, AF_RPC_TYPE_INT16, AF_RPC_TYPE_INT32
<1> QED BY <1>1, <1>2

-----------------------------------------------------------------------------
(* What stands in a buffer                                                 *)

(* s stands in the buffer, behind the length *)
Carries(b, s) == \A i \in 1 .. Len(s) : b[i + 1] = s[i]

(* What memcpy leaves in a buffer *)
LEMMA PutCells ==
    ASSUME NEW b \in Cells, NEW pos \in Nat, NEW bytes \in Seq(Byte)
    PROVE  /\ Put(b, pos, bytes) \in Cells
           /\ \A k \in 1 .. Len(bytes), i \in 0 .. BufSize - 1 :
                 i = pos + k - 1 => Put(b, pos, bytes)[i] = bytes[k]
           /\ \A i \in 0 .. BufSize - 1 : ~(i >= pos /\ i < pos + Len(bytes))
                => Put(b, pos, bytes)[i] = b[i]
<1>1. DOMAIN b = 0 .. BufSize - 1 /\ BufSize \in Nat
  BY SizeAssumption DEF Cells
<1>2. Put(b, pos, bytes)
        = [i \in 0 .. BufSize - 1 |->
              IF i >= pos /\ i < pos + Len(bytes) THEN bytes[i - pos + 1] ELSE b[i]]
  BY <1>1 DEF Put
<1>3. ASSUME NEW i \in 0 .. BufSize - 1
      PROVE  (IF i >= pos /\ i < pos + Len(bytes) THEN bytes[i - pos + 1] ELSE b[i]) \in Byte
  <2>1. CASE i >= pos /\ i < pos + Len(bytes)
    <3>1. i - pos + 1 \in 1 .. Len(bytes)
      BY <1>1, <2>1
    <3>2. bytes[i - pos + 1] \in Byte
      BY <3>1
    <3> QED BY <2>1, <3>2
  <2>2. CASE ~(i >= pos /\ i < pos + Len(bytes))
    <3>1. b[i] \in Byte
      BY DEF Cells
    <3> QED BY <2>2, <3>1
  <2> QED BY <2>1, <2>2
<1>4. Put(b, pos, bytes) \in Cells
  BY <1>2, <1>3 DEF Cells
<1>5. ASSUME NEW k \in 1 .. Len(bytes), NEW i \in 0 .. BufSize - 1, i = pos + k - 1
      PROVE  Put(b, pos, bytes)[i] = bytes[k]
  <2>1. i >= pos /\ i < pos + Len(bytes) /\ i - pos + 1 = k
    BY <1>1, <1>5
  <2> QED BY <1>2, <2>1
<1> QED BY <1>2, <1>4, <1>5

(* A word in a buffer *)
LEMMA WordAtBytes ==
    ASSUME NEW b \in Cells, NEW pos \in Nat, pos + 1 < BufSize
    PROVE  WordAt(b, pos) \in Type16 /\ Word(WordAt(b, pos)) = <<b[pos], b[pos + 1]>>
<1>1. pos \in 0 .. BufSize - 1 /\ pos + 1 \in 0 .. BufSize - 1
  BY SizeAssumption
<1>2. b[pos] \in Byte /\ b[pos + 1] \in Byte
  BY <1>1 DEF Cells
<1> QED BY <1>2, BytesWord DEF WordAt

(* setlen touches the two bytes of the length only *)
LEMMA SetLenCells ==
    ASSUME NEW b \in Cells, NEW n \in Type16, BufSize >= 2
    PROVE  /\ SetLen(b, n) \in Cells /\ GetLen(SetLen(b, n)) = n
           /\ \A i \in 2 .. BufSize - 1 : SetLen(b, n)[i] = b[i]
<1>1. Word(n) \in Seq(Byte) /\ Len(Word(n)) = 2 /\ 256 * Word(n)[1] + Word(n)[2] = n
  BY WordBytes
<1>2. SetLen(b, n) \in Cells
  BY <1>1, PutCells DEF SetLen
<1>3. SetLen(b, n)[0] = Word(n)[1]
  <2>1. 1 \in 1 .. Len(Word(n)) /\ 0 \in 0 .. BufSize - 1 /\ 0 = 0 + 1 - 1
    BY <1>1, SizeAssumption
  <2>2. Put(b, 0, Word(n))[0] = Word(n)[1]
    BY <1>1, <2>1, PutCells
  <2> QED BY <2>1, <2>2 DEF SetLen
<1>4. SetLen(b, n)[1] = Word(n)[2]
  <2>1. 2 \in 1 .. Len(Word(n)) /\ 1 \in 0 .. BufSize - 1 /\ 1 = 0 + 2 - 1
    BY <1>1, SizeAssumption
  <2>2. Put(b, 0, Word(n))[1] = Word(n)[2]
    BY <1>1, <2>1, PutCells
  <2> QED BY <2>1, <2>2 DEF SetLen
<1>5. ASSUME NEW i \in 2 .. BufSize - 1 PROVE SetLen(b, n)[i] = b[i]
  <2>1. i \in 0 .. BufSize - 1 /\ ~(i >= 0 /\ i < 0 + Len(Word(n)))
    BY <1>1, SizeAssumption
  <2>2. Put(b, 0, Word(n))[i] = b[i]
    BY <1>1, <2>1, PutCells, 0 \in Nat, Zenon
  <2> QED BY <2>2 DEF SetLen
<1>6. GetLen(SetLen(b, n)) = n
  BY <1>1, <1>3, <1>4 DEF GetLen, WordAt
<1> QED BY <1>2, <1>5, <1>6

(* Two sequences behind one another *)
LEMMA Joins ==
    ASSUME NEW s \in Seq(Byte), NEW v \in Seq(Byte)
    PROVE  /\ s \o v \in Seq(Byte) /\ Len(s \o v) = Len(s) + Len(v)
           /\ \A i \in 1 .. Len(s) : (s \o v)[i] = s[i]
           /\ \A k \in 1 .. Len(v) : \A i \in Nat : i = Len(s) + k => (s \o v)[i] = v[k]
<1>1. s \o v \in Seq(Byte) /\ Len(s \o v) = Len(s) + Len(v)
  OBVIOUS
<1>2. ASSUME NEW i \in 1 .. Len(s) PROVE (s \o v)[i] = s[i]
  OBVIOUS
<1>3. ASSUME NEW k \in 1 .. Len(v), NEW i \in Nat, i = Len(s) + k PROVE (s \o v)[i] = v[k]
  <2>1. i \in 1 .. Len(s) + Len(v) /\ ~(i <= Len(s)) /\ i - Len(s) = k
    BY <1>3
  <2>2. (s \o v)[i] = v[i - Len(s)]
    BY <2>1
  <2> QED BY <2>1, <2>2
<1> QED BY <1>1, <1>2, <1>3

(* Three sequences behind one another *)
LEMMA Joined ==
    ASSUME NEW s \in Seq(Byte), NEW w \in Seq(Byte), NEW v \in Seq(Byte)
    PROVE  /\ s \o w \o v \in Seq(Byte) /\ Len(s \o w \o v) = Len(s) + Len(w) + Len(v)
           /\ \A i \in 1 .. Len(s) : (s \o w \o v)[i] = s[i]
           /\ \A k \in 1 .. Len(w) : \A i \in Nat : i = Len(s) + k => (s \o w \o v)[i] = w[k]
           /\ \A k \in 1 .. Len(v) : \A i \in Nat : i = Len(s) + Len(w) + k => (s \o w \o v)[i] = v[k]
<1> DEFINE u == s \o w
<1>1. /\ u \in Seq(Byte) /\ Len(u) = Len(s) + Len(w)
      /\ \A i \in 1 .. Len(s) : u[i] = s[i]
      /\ \A k \in 1 .. Len(w) : \A i \in Nat : i = Len(s) + k => u[i] = w[k]
  BY Joins
<1>2. u \o v = s \o w \o v
  OBVIOUS
<1> HIDE DEF u
<1>3. /\ u \o v \in Seq(Byte) /\ Len(u \o v) = Len(u) + Len(v)
      /\ \A i \in 1 .. Len(u) : (u \o v)[i] = u[i]
      /\ \A k \in 1 .. Len(v) : \A i \in Nat : i = Len(u) + k => (u \o v)[i] = v[k]
  BY <1>1, Joins
<1> DEFINE whole == u \o v
<1> HIDE DEF whole
<1>4. /\ whole \in Seq(Byte) /\ Len(whole) = Len(s) + Len(w) + Len(v)
      /\ \A k \in 1 .. Len(v) : \A i \in Nat : i = Len(s) + Len(w) + k => whole[i] = v[k]
  BY <1>1, <1>3 DEF whole
<1>5. ASSUME NEW i \in 1 .. Len(s) PROVE whole[i] = s[i]
  <2>1. i \in 1 .. Len(u)
    BY <1>1
  <2> QED BY <1>1, <1>3, <2>1 DEF whole
<1>6. ASSUME NEW k \in 1 .. Len(w), NEW i \in Nat, i = Len(s) + k PROVE whole[i] = w[k]
  <2>1. i \in 1 .. Len(u)
    BY <1>1, <1>6
  <2> QED BY <1>1, <1>3, <1>6, <2>1 DEF whole
<1>7. whole = s \o w \o v
  BY <1>2 DEF whole
<1> QED BY <1>4, <1>5, <1>6, <1>7, Zenon

(* A parameter stored behind the others *)
LEMMA StoreCarries ==
    ASSUME NEW b \in Cells, NEW s \in Seq(Byte), Carries(b, s), NEW t \in Type16,
           NEW v \in Seq(Byte), 2 + Len(s) + 2 + Len(v) <= BufSize
    PROVE  LET stored == Put(Put(b, 2 + Len(s), Word(t)), 2 + Len(s) + 2, v)
           IN  /\ stored \in Cells /\ Carries(stored, s \o Word(t) \o v)
               /\ Put(b, 2 + Len(s), Word(t)) \in Cells
               /\ \A i \in 0 .. 1 + Len(s) : stored[i] = b[i]
<1> DEFINE n == Len(s)
           w == Word(t)
           b1 == Put(b, 2 + n, w)
           b2 == Put(b1, 2 + n + 2, v)
           whole == s \o w \o v
<1>0. n \in Nat /\ Len(v) \in Nat /\ BufSize \in Nat /\ 2 + n \in Nat /\ 2 + n + 2 \in Nat
  BY SizeAssumption
<1>1. w \in Seq(Byte) /\ Len(w) = 2
  BY WordBytes
<1>2. w \in Seq(Byte)
  BY <1>1
<1> HIDE DEF w
<1>3. /\ Len(whole) = n + Len(w) + Len(v)
      /\ \A i \in 1 .. n : whole[i] = s[i]
      /\ \A k \in 1 .. Len(w) : \A i \in Nat : i = n + k => whole[i] = w[k]
      /\ \A k \in 1 .. Len(v) : \A i \in Nat : i = n + Len(w) + k => whole[i] = v[k]
  BY <1>2, Joined
<1> HIDE DEF n, whole
<1>4. /\ Len(whole) = n + 2 + Len(v)
      /\ \A i \in 1 .. n : whole[i] = s[i]
      /\ \A k \in 1 .. 2 : \A i \in Nat : i = n + k => whole[i] = w[k]
      /\ \A k \in 1 .. Len(v) : \A i \in Nat : i = n + 2 + k => whole[i] = v[k]
  BY <1>1, <1>3, Zenon
<1>5. Len(whole) = n + 2 + Len(v)
  BY <1>4
<1>6. /\ b1 \in Cells
      /\ \A k \in 1 .. Len(w) : \A i \in 0 .. BufSize - 1 : i = 2 + n + k - 1 => b1[i] = w[k]
      /\ \A i \in 0 .. BufSize - 1 : ~(i >= 2 + n /\ i < 2 + n + Len(w)) => b1[i] = b[i]
  BY <1>0, <1>1, PutCells
<1> HIDE DEF b1
<1>7. /\ b2 \in Cells
      /\ \A k \in 1 .. Len(v) : \A i \in 0 .. BufSize - 1 : i = 2 + n + 2 + k - 1 => b2[i] = v[k]
      /\ \A i \in 0 .. BufSize - 1 : ~(i >= 2 + n + 2 /\ i < 2 + n + 2 + Len(v)) => b2[i] = b1[i]
  BY <1>0, <1>6, PutCells
<1> HIDE DEF b2
<1>8. 2 + n + 2 + Len(v) <= BufSize
  BY DEF n
<1>9. ASSUME NEW i \in 1 .. Len(whole) PROVE b2[i + 1] = whole[i]
  <2>1. i + 1 \in 0 .. BufSize - 1
    BY <1>0, <1>5, <1>8
  <2>2. CASE i <= n
    <3>1. ~(i + 1 >= 2 + n) /\ ~(i + 1 >= 2 + n + 2) /\ i \in 1 .. n
      BY <1>0, <1>5, <2>2
    <3>2. b2[i + 1] = b[i + 1]
      BY <1>6, <1>7, <2>1, <3>1
    <3>3. b[i + 1] = s[i]
      BY <3>1 DEF Carries, n
    <3> QED BY <1>4, <3>1, <3>2, <3>3
  <2>3. CASE i > n /\ i <= n + 2
    <3>1. PICK k \in 1 .. 2 : i = n + k
      BY <1>0, <1>5, <2>3
    <3>2. ~(i + 1 >= 2 + n + 2) /\ k \in 1 .. Len(w) /\ i + 1 = 2 + n + k - 1 /\ i \in Nat
      BY <1>0, <1>1, <3>1
    <3>3. b1[i + 1] = w[k]
      BY <1>6, <2>1, <3>2
    <3>4. b2[i + 1] = b1[i + 1]
      BY <1>7, <2>1, <3>2
    <3>5. whole[i] = w[k]
      BY <1>4, <3>1, <3>2
    <3> QED BY <3>3, <3>4, <3>5
  <2>4. CASE i > n + 2
    <3>0. i \in Nat /\ i <= n + 2 + Len(v)
      BY <1>0, <1>5
    <3>1. PICK k \in 1 .. Len(v) : i = n + 2 + k
      <4>1. i - (n + 2) \in 1 .. Len(v) /\ i = n + 2 + (i - (n + 2))
        BY <1>0, <2>4, <3>0
      <4> QED BY <4>1
    <3>2. i + 1 = 2 + n + 2 + k - 1
      BY <1>0, <3>1
    <3>3. b2[i + 1] = v[k]
      BY <1>7, <2>1, <3>2
    <3>4. whole[i] = v[k]
      BY <1>4, <3>0, <3>1
    <3> QED BY <3>3, <3>4
  <2> QED BY <1>0, <1>5, <2>2, <2>3, <2>4
<1>10. ASSUME NEW i \in 0 .. 1 + n PROVE b2[i] = b[i]
  <2>1. i \in 0 .. BufSize - 1 /\ ~(i >= 2 + n) /\ ~(i >= 2 + n + 2)
    BY <1>0, <1>8
  <2> QED BY <1>6, <1>7, <2>1
<1>11. Carries(b2, whole)
  BY <1>9 DEF Carries
<1> QED BY <1>6, <1>7, <1>10, <1>11, Zenon DEF b2, b1, n, w, whole

-----------------------------------------------------------------------------
(* Parameters that can be had back from their wire form                    *)

(* Parameters that have a wire form from which they can be had back *)
GoodParams ==
    {p \in [type : Type16, base : Seq(Byte)] :
        IF IsInteger(p.type)
        THEN /\ p.type \in UintTypes \cup IntTypes
             /\ Len(p.base) = 4 /\ Widen(p.type, ValueOf(p)) = p.base
        ELSE Len(p.base) = SizeOfType(p.type)}

(* Functions to bytes are sequences of bytes *)
LEMMA FunSeq == \A n \in Nat : \A f \in [1 .. n -> Byte] : f \in Seq(Byte) /\ Len(f) = n
OBVIOUS

(* The casts of the add functions keep the low bytes of base *)
LEMMA NarrowBytes ==
    ASSUME NEW base \in Seq(Byte), Len(base) = 4, NEW size \in {1, 2, 4}
    PROVE  /\ Narrow(base, size) \in Seq(Byte) /\ Len(Narrow(base, size)) = size
           /\ \A i \in 1 .. size : Narrow(base, size)[i] = base[4 - size + i]
<1> DEFINE m == 5 - size
           part == SubSeq(base, m, 4)
<1>1. m \in Int /\ 4 \in Int /\ m <= 4 /\ 4 - m + 1 = size /\ \A i \in m .. 4 : i \in 1 .. Len(base)
  OBVIOUS
<1>1a. \A i \in m .. 4 : base[i] \in Byte
  BY <1>1
<1> HIDE DEF m
<1>1b. /\ part \in Seq(Byte)
       /\ Len(part) = IF m <= 4 THEN 4 - m + 1 ELSE 0
       /\ \A i \in 1 .. 4 - m + 1 : part[i] = base[m + i - 1]
  BY <1>1, <1>1a, SubSeqProperties
<1> HIDE DEF part
<1>2. /\ SubSeq(base, 5 - size, 4) \in Seq(Byte) /\ Len(SubSeq(base, 5 - size, 4)) = size
      /\ \A i \in 1 .. size : SubSeq(base, 5 - size, 4)[i] = base[(5 - size) + i - 1]
  <2>1. part \in Seq(Byte) /\ Len(part) = size /\ \A i \in 1 .. size : part[i] = base[m + i - 1]
    BY <1>1, <1>1b
  <2> QED BY <2>1 DEF part, m
<1>3. \A i \in 1 .. size : (5 - size) + i - 1 = 4 - size + i
  OBVIOUS
<1> QED BY <1>2, <1>3 DEF Narrow

(* A value that is widened keeps its bytes *)
LEMMA WidenBytes ==
    ASSUME NEW t \in UintTypes \cup IntTypes, NEW v \in Seq(Byte), Len(v) = SizeOfType(t)
    PROVE  /\ Widen(t, v) \in Seq(Byte) /\ Len(Widen(t, v)) = 4
           /\ Narrow(Widen(t, v), SizeOfType(t)) = v
<1> DEFINE sign == IF t \in IntTypes /\ v[1] >= 128 THEN 255 ELSE 0
           lead == [i \in 1 .. 4 - Len(v) |-> sign]
           size == Len(v)
<1>1. size \in {1, 2, 4} /\ SizeOfType(t) = size
  BY IntegerTypes
<1>2. sign \in Byte
  BY ByteRange
<1> HIDE DEF sign, size
<1>3. lead \in Seq(Byte) /\ Len(lead) = 4 - size
  <2>1. 4 - size \in Nat /\ lead \in [1 .. 4 - size -> Byte]
    BY <1>1, <1>2 DEF size
  <2> HIDE DEF lead
  <2> QED BY <2>1, FunSeq
<1>4. Widen(t, v) = lead \o v
  BY Zenon DEF Widen, sign
<1> HIDE DEF lead
<1>5. /\ lead \o v \in Seq(Byte) /\ Len(lead \o v) = Len(lead) + Len(v)
      /\ \A k \in 1 .. Len(v) : \A i \in Nat : i = Len(lead) + k => (lead \o v)[i] = v[k]
  BY <1>3, Joins
<1>6. Len(lead \o v) = 4
  BY <1>1, <1>3, <1>5 DEF size
<1> DEFINE whole == lead \o v
<1>7. \A k \in 1 .. size : \A i \in Nat : i = 4 - size + k => whole[i] = v[k]
  BY <1>3, <1>5, Zenon DEF size
<1>8. whole \in Seq(Byte) /\ Len(whole) = 4
  BY <1>5, <1>6
<1> HIDE DEF whole
<1>9. /\ Narrow(whole, size) \in Seq(Byte) /\ Len(Narrow(whole, size)) = size
      /\ \A i \in 1 .. size : Narrow(whole, size)[i] = whole[4 - size + i]
  BY <1>1, <1>8, NarrowBytes
<1>10. ASSUME NEW i \in 1 .. size PROVE Narrow(whole, size)[i] = v[i]
  <2>1. 4 - size + i \in Nat
    BY <1>1
  <2>2. whole[4 - size + i] = v[i]
    BY <1>7, <2>1, Zenon
  <2> QED BY <1>9, <2>2
<1>11. Narrow(whole, size) = v
  <2>1. Len(v) = size
    BY DEF size
  <2> QED BY <1>9, <1>10, <2>1
<1> QED BY <1>1, <1>4, <1>8, <1>11, Zenon DEF whole

(* What a reader or the parser takes out of a buffer is a good parameter *)
LEMMA TakenInteger ==
    ASSUME NEW t \in UintTypes \cup IntTypes, NEW v \in Seq(Byte), Len(v) = SizeOfType(t)
    PROVE  LET p == [type |-> t, base |-> Widen(t, v)]
           IN  p \in GoodParams /\ ValueOf(p) = v
<1> DEFINE p == [type |-> t, base |-> Widen(t, v)]
<1>1. t \in Type16 /\ IsInteger(t)
  BY IntegerTypes
<1>2. Widen(t, v) \in Seq(Byte) /\ Len(Widen(t, v)) = 4 /\ Narrow(Widen(t, v), SizeOfType(t)) = v
  BY WidenBytes
<1>3. p.type = t /\ p.base = Widen(t, v) /\ p \in [type : Type16, base : Seq(Byte)]
  BY <1>1, <1>2
<1> HIDE DEF p
<1>4. ValueOf(p) = v
  BY <1>1, <1>2, <1>3 DEF ValueOf
<1>5. p \in GoodParams
  BY <1>1, <1>2, <1>3, <1>4 DEF GoodParams
<1> QED BY <1>4, <1>5 DEF p

(* So is a blob *)
LEMMA TakenBlob ==
    ASSUME NEW t \in Type16, ~IsInteger(t), NEW v \in Seq(Byte), Len(v) = SizeOfType(t)
    PROVE  LET p == [type |-> t, base |-> v]
           IN  p \in GoodParams /\ ValueOf(p) = v
BY DEF GoodParams, ValueOf

(* The value of a good parameter *)
LEMMA GoodValue ==
    ASSUME NEW p \in GoodParams
    PROVE  /\ p.type \in Type16 /\ p.base \in Seq(Byte) /\ p = [type |-> p.type, base |-> p.base]
           /\ ValueOf(p) \in Seq(Byte) /\ Len(ValueOf(p)) = SizeOfType(p.type)
           /\ SizeOfType(p.type) \in Nat /\ SizeOfType(p.type) <= AF_RPC_MAX_BLOB_SIZE
           /\ IsInteger(p.type) => ~HasExtraBits(p.type) /\ Widen(p.type, ValueOf(p)) = p.base
           /\ ~IsInteger(p.type) => ValueOf(p) = p.base
<1>1. p.type \in Type16 /\ p.base \in Seq(Byte) /\ p = [type |-> p.type, base |-> p.base]
  BY DEF GoodParams
<1>2. CASE IsInteger(p.type)
  <2>1. p.type \in UintTypes \cup IntTypes /\ Len(p.base) = 4 /\ Widen(p.type, ValueOf(p)) = p.base
    BY <1>2 DEF GoodParams
  <2>2. SizeOfType(p.type) \in {1, 2, 4} /\ ~HasExtraBits(p.type)
    BY <2>1, IntegerTypes
  <2>3. ValueOf(p) = Narrow(p.base, SizeOfType(p.type))
    BY <1>2 DEF ValueOf
  <2>4. ValueOf(p) \in Seq(Byte) /\ Len(ValueOf(p)) = SizeOfType(p.type)
    BY <1>1, <2>1, <2>2, <2>3, NarrowBytes
  <2> QED BY <1>1, <1>2, <2>1, <2>2, <2>4 DEF AF_RPC_MAX_BLOB_SIZE
<1>3. CASE ~IsInteger(p.type)
  <2>1. Len(p.base) = SizeOfType(p.type) /\ ValueOf(p) = p.base
    BY <1>3 DEF GoodParams, ValueOf
  <2>2. SizeOfType(p.type) \in Nat /\ SizeOfType(p.type) < 16384
    BY <1>1, <1>3, Sizes
  <2> QED BY <1>1, <1>3, <2>1, <2>2 DEF AF_RPC_MAX_BLOB_SIZE
<1> QED BY <1>2, <1>3

-----------------------------------------------------------------------------
(* The parameters programs put in                                          *)

(* A C value of an integer type comes back from its wire form *)
LEMMA ValueComesBack ==
    ASSUME NEW t \in UintTypes \cup IntTypes, NEW w \in [1 .. 4 -> Byte], IsValueOf(t, w)
    PROVE  Widen(t, Narrow(w, SizeOfType(t))) = w
<1> DEFINE size == SizeOfType(t)
           v == Narrow(w, size)
           sign == IF t \in IntTypes /\ v[1] >= 128 THEN 255 ELSE 0
           lead == [i \in 1 .. 4 - Len(v) |-> sign]
           high == SubSeq(w, 1, 4 - size)
<1>1. size \in {1, 2, 4}
  BY IntegerTypes
<1>2. w \in Seq(Byte) /\ Len(w) = 4
  BY FunSeq, 4 \in Nat
<1> HIDE DEF size
<1>3. /\ v \in Seq(Byte) /\ Len(v) = size
      /\ \A i \in 1 .. size : v[i] = w[4 - size + i]
  BY <1>1, <1>2, NarrowBytes
<1> HIDE DEF v
<1>4. v[1] = w[5 - size]
  <2>1. 1 \in 1 .. size /\ 4 - size + 1 = 5 - size
    BY <1>1
  <2> QED BY <1>3, <2>1
<1>5. DOMAIN high = 1 .. 4 - size /\ \A i \in 1 .. 4 - size : high[i] = w[i]
  <2>1. \A i \in 1 .. 4 - size : w[i] \in Byte
    BY <1>1
  <2>2. 4 - size \in Int /\ 1 \in Int
    BY <1>1
  <2>3. /\ SubSeq(w, 1, 4 - size) \in Seq(Byte)
        /\ Len(SubSeq(w, 1, 4 - size)) = IF 1 <= 4 - size THEN (4 - size) - 1 + 1 ELSE 0
        /\ \A i \in 1 .. (4 - size) - 1 + 1 : SubSeq(w, 1, 4 - size)[i] = w[1 + i - 1]
    BY <2>1, <2>2, SubSeqProperties
  <2>4. (4 - size) - 1 + 1 = 4 - size /\ \A i \in 1 .. 4 - size : 1 + i - 1 = i
    BY <1>1
  <2>5. Len(high) = 4 - size /\ high \in Seq(Byte)
    BY <1>1, <2>3
  <2>6. \A i \in 1 .. 4 - size : high[i] = w[i]
    BY <2>3, <2>4
  <2> HIDE DEF high
  <2> QED BY <2>5, <2>6
<1> HIDE DEF high
<1>6. size = 4 \/ \A i \in 1 .. 4 - size : w[i] = sign
  <2> SUFFICES ASSUME size # 4 PROVE \A i \in 1 .. 4 - size : w[i] = sign
    OBVIOUS
  <2>0. \/ size = 4
        \/ /\ \A i \in DOMAIN high : high[i] = 0
           /\ t \in IntTypes => w[5 - size] < 128
        \/ /\ \A i \in DOMAIN high : high[i] = 255
           /\ t \in IntTypes /\ w[5 - size] >= 128
    BY Zenon DEF IsValueOf, high, size
  <2>1. \/ /\ \A i \in 1 .. 4 - size : w[i] = 0
           /\ t \in IntTypes => w[5 - size] < 128
        \/ /\ \A i \in 1 .. 4 - size : w[i] = 255
           /\ t \in IntTypes /\ w[5 - size] >= 128
    BY <1>5, <2>0
  <2>2. w[5 - size] \in Nat
    BY <1>1, ByteRange
  <2>3. (t \in IntTypes /\ v[1] >= 128) \/ ~(t \in IntTypes /\ v[1] >= 128)
    OBVIOUS
  <2> QED BY <1>4, <2>1, <2>2
<1> DEFINE m == 4 - size
<1>7. m \in Nat /\ m + size = 4
  BY <1>1
<1>8. sign \in Byte
  BY ByteRange
<1>9. lead = [i \in 1 .. m |-> sign]
  BY <1>3
<1> HIDE DEF sign, m
<1>10. lead \in Seq(Byte) /\ Len(lead) = m /\ \A i \in 1 .. m : lead[i] = sign
  <2>1. lead \in [1 .. m -> Byte]
    BY <1>7, <1>8, <1>9
  <2>3. \A i \in 1 .. m : lead[i] = sign
    BY <1>9
  <2> HIDE DEF lead
  <2> QED BY <1>7, <2>1, <2>3, FunSeq
<1>11. Widen(t, v) = lead \o v
  BY Zenon DEF Widen, sign
<1> HIDE DEF lead
<1>12. /\ lead \o v \in Seq(Byte) /\ Len(lead \o v) = Len(lead) + Len(v)
       /\ \A i \in 1 .. Len(lead) : (lead \o v)[i] = lead[i]
       /\ \A k \in 1 .. Len(v) : \A i \in Nat : i = Len(lead) + k => (lead \o v)[i] = v[k]
  BY <1>3, <1>10, Joins
<1> DEFINE whole == lead \o v
<1>13. /\ \A i \in 1 .. m : whole[i] = lead[i]
       /\ \A k \in 1 .. size : \A i \in Nat : i = m + k => whole[i] = v[k]
  BY <1>3, <1>10, <1>12, Zenon
<1>14. whole \in Seq(Byte) /\ Len(whole) = 4
  BY <1>3, <1>7, <1>10, <1>12
<1> HIDE DEF whole
<1>15. ASSUME NEW i \in 1 .. 4 PROVE whole[i] = w[i]
  <2>1. CASE i <= m
    <3>1. i \in 1 .. m /\ i \in 1 .. 4 - size /\ size # 4
      BY <1>1, <1>7, <2>1 DEF m
    <3>2. w[i] = sign
      BY <1>6, <3>1
    <3> QED BY <1>10, <1>13, <3>1, <3>2
  <2>2. CASE i > m
    <3>1. PICK k \in 1 .. size : i = m + k
      <4>1. i - m \in 1 .. size /\ i = m + (i - m)
        BY <1>1, <1>7, <2>2
      <4> QED BY <4>1
    <3>2. i \in Nat /\ 4 - size + k = i
      BY <1>1, <1>7, <3>1 DEF m
    <3>3. whole[i] = v[k]
      BY <1>13, <3>1, <3>2
    <3>4. v[k] = w[i]
      BY <1>3, <3>2
    <3> QED BY <3>3, <3>4
  <2> QED BY <1>7, <2>1, <2>2
<1>16. whole = w
  BY <1>2, <1>14, <1>15
<1> QED BY <1>11, <1>16, Zenon DEF whole, v, size

(* What programs pass is good, or is refused *)
LEMMA ValidIsGood == ValidIntegers \subseteq GoodParams
<1> SUFFICES ASSUME NEW p \in ValidIntegers PROVE p \in GoodParams
  OBVIOUS
<1>1. PICK t \in UintTypes \cup IntTypes, w \in Words : p = [type |-> t, base |-> w]
  BY DEF ValidIntegers, IntegerParams
<1>2. p.type = t /\ p.base = w /\ IsValueOf(t, w)
  BY <1>1 DEF ValidIntegers
<1>3. w \in [1 .. 4 -> Byte]
  BY BytesAssumption
<1>4. w \in Seq(Byte) /\ Len(w) = 4
  BY <1>3, FunSeq, 4 \in Nat
<1>5. Widen(t, Narrow(w, SizeOfType(t))) = w
  BY <1>2, <1>3, ValueComesBack
<1>6. t \in Type16 /\ IsInteger(t)
  BY IntegerTypes
<1>7. ValueOf(p) = Narrow(w, SizeOfType(t))
  BY <1>2, <1>6 DEF ValueOf
<1>8. p \in [type : Type16, base : Seq(Byte)]
  BY <1>1, <1>4, <1>6
<1> QED BY <1>2, <1>4, <1>5, <1>6, <1>7, <1>8 DEF GoodParams

(* The type of a blob states its size *)
LEMMA BlobTypes ==
    ASSUME NEW n \in Nat, n <= 16383
    PROVE  \A t \in {AF_RPC_TYPE_BLOB(n), AF_RPC_TYPE_STRING(n)} :
              t \in Type16 /\ ~IsInteger(t) /\ SizeOfType(t) = n
<1>1. n % 16384 = n /\ (n + 16384) % 16384 = n
  BY SMT
<1> QED BY <1>1 DEF AF_RPC_TYPE_BLOB, AF_RPC_TYPE_STRING, Type16, IsInteger, SizeOfType

(* A blob that the add function accepts is a good parameter *)
LEMMA BlobIsGood ==
    ASSUME NEW blob \in Blobs, NEW t \in {AF_RPC_TYPE_BLOB(Len(blob)), AF_RPC_TYPE_STRING(Len(blob))}
    PROVE  LET p == [type |-> t, base |-> blob]
           IN  p \in GoodParams /\ ValueOf(p) = blob
<1>1. blob \in Seq(Byte) /\ Len(blob) \in Nat /\ Len(blob) <= 16383
  BY BytesAssumption, SizeAssumption
<1>2. t \in Type16 /\ ~IsInteger(t) /\ SizeOfType(t) = Len(blob)
  BY <1>1, BlobTypes
<1> QED BY <1>1, <1>2, TakenBlob

(* Why create_buffer refuses the others *)
LEMMA WrongParam ==
    ASSUME NEW p \in WrongParams
    PROVE  /\ p.type \in Type16
           /\ \/ IsInteger(p.type) /\ (SizeOfType(p.type) < 0 \/ HasExtraBits(p.type))
              \/ /\ ~IsInteger(p.type) /\ SizeOfType(p.type) > 0 /\ Len(p.base) = 0
<1>1. CASE p.type = 32768
  <2>1. ((32768 \div 4096) % 8) + 1 = 1
    BY SMT
  <2> QED BY <1>1, <2>1 DEF IsInteger, SizeOfType, Type16
<1>2. CASE p.type = AF_RPC_TYPE_UINT8 + 1
  <2>1. 36865 % 4096 # 0
    BY SMT
  <2> QED BY <1>2, <2>1 DEF AF_RPC_TYPE_UINT8, IsInteger, HasExtraBits, Type16
<1>3. CASE p = [type |-> AF_RPC_TYPE_BLOB(1), base |-> <<>>]
  <2>1. p.type \in Type16 /\ ~IsInteger(p.type) /\ SizeOfType(p.type) = 1
    BY <1>3, BlobTypes
  <2> QED BY <1>3, <2>1
<1>4. \/ \E t \in {32768, AF_RPC_TYPE_UINT8 + 1} : p = [type |-> t, base |-> <<0, 0, 0, 1>>]
      \/ p = [type |-> AF_RPC_TYPE_BLOB(1), base |-> <<>>]
  BY DEF WrongParams
<1> QED BY <1>1, <1>2, <1>3, <1>4

(* create_buffer_with_params is given good parameters or wrong ones *)
LEMMA ParamsSplit == \A p \in Params : p \in GoodParams \/ p \in WrongParams
<1>1. ASSUME NEW p \in BlobParams PROVE p \in GoodParams
  <2>1. PICK blob \in Blobs : \E t \in {AF_RPC_TYPE_BLOB(Len(blob)), AF_RPC_TYPE_STRING(Len(blob))} :
            p = [type |-> t, base |-> blob]
    BY DEF BlobParams
  <2>2. PICK t \in {AF_RPC_TYPE_BLOB(Len(blob)), AF_RPC_TYPE_STRING(Len(blob))} :
            p = [type |-> t, base |-> blob]
    BY <2>1
  <2>3. [type |-> t, base |-> blob] \in GoodParams
    BY BlobIsGood
  <2> QED BY <2>2, <2>3
<1> QED BY <1>1, ValidIsGood DEF Params

-----------------------------------------------------------------------------
(* The bodies of a list of parameters                                      *)

(* The bodies of a list of parameters are defined one after the other *)
LEMMA BodiesUnfold ==
    ASSUME NEW ps \in Seq(GoodParams)
    PROVE  /\ Bodies(ps)[0] = <<>>
           /\ \A n \in Nat : n < Len(ps)
                => Bodies(ps)[n + 1] = Bodies(ps)[n] \o Word(ps[n + 1].type) \o ValueOf(ps[n + 1])
<1> DEFINE Grown(b, n) == b \o Word(ps[n].type) \o ValueOf(ps[n])
           G(g, k) == g = [n \in 0 .. k |-> IF n = 0 THEN <<>> ELSE Grown(g[n - 1], n)]
           S == {k \in Nat : \E g : G(g, k)}
<1>1. 0 \in S
  <2> DEFINE g == [n \in 0 .. 0 |-> <<>>]
  <2>1. G(g, 0)
    OBVIOUS
  <2> QED BY <2>1
<1>2. ASSUME NEW k \in Nat, k \in S PROVE k + 1 \in S
  <2> HIDE DEF Grown
  <2>1. PICK g : G(g, k)
    BY <1>2
  <2> DEFINE h == [n \in 0 .. k + 1 |-> IF n = k + 1 THEN Grown(g[k], k + 1) ELSE g[n]]
  <2>2. ASSUME NEW n \in 0 .. k + 1
        PROVE  h[n] = IF n = 0 THEN <<>> ELSE Grown(h[n - 1], n)
    <3>1. CASE n = k + 1
      <4>1. h[n] = Grown(g[k], k + 1) /\ h[n - 1] = g[k] /\ n # 0
        BY <3>1
      <4> QED BY <3>1, <4>1
    <3>2. CASE n \in 1 .. k
      <4>1. h[n] = g[n] /\ h[n - 1] = g[n - 1] /\ n # 0 /\ n \in 0 .. k
        BY <3>2
      <4>2. g[n] = Grown(g[n - 1], n)
        BY <2>1, <4>1
      <4> QED BY <4>1, <4>2
    <3>3. CASE n = 0
      <4>1. h[n] = g[n] /\ 0 \in 0 .. k
        BY <3>3
      <4>2. g[0] = <<>>
        BY <2>1, <4>1
      <4> QED BY <3>3, <4>1, <4>2
    <3> QED BY <3>1, <3>2, <3>3
  <2>3. h = [n \in 0 .. k + 1 |-> h[n]]
    OBVIOUS
  <2> HIDE DEF h
  <2>4. h = [n \in 0 .. k + 1 |-> IF n = 0 THEN <<>> ELSE Grown(h[n - 1], n)]
    BY <2>2, <2>3
  <2>5. G(h, k + 1)
    BY <2>4
  <2>6. k + 1 \in Nat /\ \E g_1 : G(g_1, k + 1)
    <3> HIDE DEF G
    <3> QED BY <2>5
  <2> QED BY <2>6, Zenon
<1>3. Nat \subseteq S
  <2> HIDE DEF S
  <2> QED BY <1>1, <1>2, SetInduction
<1>4. \E g : G(g, Len(ps))
  <2>1. Len(ps) \in S
    <3> HIDE DEF S
    <3> QED BY <1>3
  <2> HIDE DEF G
  <2> QED BY <2>1
<1>5. G(Bodies(ps), Len(ps))
  BY <1>4, Zenon DEF Bodies
<1>6. Bodies(ps)[0] = <<>>
  BY <1>5
<1>7. ASSUME NEW n \in Nat, n < Len(ps) PROVE Bodies(ps)[n + 1] = Grown(Bodies(ps)[n], n + 1)
  <2> HIDE DEF Grown
  <2>1. n + 1 \in 0 .. Len(ps) /\ n + 1 # 0 /\ n + 1 - 1 = n
    BY <1>7
  <2> QED BY <1>5, <2>1
<1> QED BY <1>6, <1>7, Zenon

(* They are bytes, two at least for each *)
LEMMA BodiesBytes ==
    ASSUME NEW ps \in Seq(GoodParams)
    PROVE  \A n \in 0 .. Len(ps) : Bodies(ps)[n] \in Seq(Byte) /\ Len(Bodies(ps)[n]) >= 2 * n
<1> DEFINE S == {n \in Nat : n <= Len(ps) => Bodies(ps)[n] \in Seq(Byte) /\ Len(Bodies(ps)[n]) >= 2 * n}
<1>1. 0 \in S
  <2>1. Bodies(ps)[0] = <<>>
    BY BodiesUnfold
  <2>2. <<>> \in Seq(Byte) /\ Len(<<>>) >= 2 * 0
    OBVIOUS
  <2>3. Bodies(ps)[0] \in Seq(Byte) /\ Len(Bodies(ps)[0]) >= 2 * 0 /\ 0 \in Nat
    BY <2>1, <2>2, Zenon
  <2> QED BY <2>3, Zenon
<1>2. ASSUME NEW n \in Nat, n \in S PROVE n + 1 \in S
  <2> SUFFICES ASSUME n + 1 <= Len(ps)
               PROVE  Bodies(ps)[n + 1] \in Seq(Byte) /\ Len(Bodies(ps)[n + 1]) >= 2 * (n + 1)
    OBVIOUS
  <2>1. n + 1 \in 1 .. Len(ps) /\ n < Len(ps)
    OBVIOUS
  <2>2. ps[n + 1] \in GoodParams
    BY <2>1
  <2>3. Bodies(ps)[n + 1] = Bodies(ps)[n] \o Word(ps[n + 1].type) \o ValueOf(ps[n + 1])
    BY <2>1, BodiesUnfold, Zenon
  <2>4. Bodies(ps)[n] \in Seq(Byte) /\ Len(Bodies(ps)[n]) >= 2 * n
    BY <1>2
  <2>5. Word(ps[n + 1].type) \in Seq(Byte) /\ ValueOf(ps[n + 1]) \in Seq(Byte)
    BY <2>2, GoodValue, WordBytes
  <2>6. Len(Word(ps[n + 1].type)) = 2
    BY <2>2, GoodValue, WordBytes
  <2>7. /\ Bodies(ps)[n + 1] \in Seq(Byte)
        /\ Len(Bodies(ps)[n + 1]) = Len(Bodies(ps)[n]) + Len(Word(ps[n + 1].type)) + Len(ValueOf(ps[n + 1]))
    BY <2>3, <2>4, <2>5, Joined
  <2>8. \A x, y, z, k \in Nat : x >= 2 * k /\ y = 2 => x + y + z >= 2 * (k + 1)
    OBVIOUS
  <2>9. Len(ValueOf(ps[n + 1])) \in Nat /\ Len(Bodies(ps)[n]) \in Nat /\ Len(Word(ps[n + 1].type)) \in Nat
    BY <2>4, <2>5
  <2>10. Len(Bodies(ps)[n]) + Len(Word(ps[n + 1].type)) + Len(ValueOf(ps[n + 1])) >= 2 * (n + 1)
    BY <2>4, <2>6, <2>8, <2>9
  <2> QED BY <2>7, <2>10, Zenon
<1>3. Nat \subseteq S
  <2> HIDE DEF S
  <2> QED BY <1>1, <1>2, SetInduction
<1> QED BY <1>3

(* Lists that begin alike have the same bodies there *)
LEMMA BodiesAlike ==
    ASSUME NEW ps \in Seq(GoodParams), NEW qs \in Seq(GoodParams), NEW m \in Nat,
           m <= Len(ps), m <= Len(qs), \A k \in 1 .. m : ps[k] = qs[k]
    PROVE  Bodies(ps)[m] = Bodies(qs)[m]
<1> DEFINE S == {n \in Nat : n <= m => Bodies(ps)[n] = Bodies(qs)[n]}
<1>1. 0 \in S
  BY BodiesUnfold
<1>2. ASSUME NEW n \in Nat, n \in S PROVE n + 1 \in S
  <2> SUFFICES ASSUME n + 1 <= m PROVE Bodies(ps)[n + 1] = Bodies(qs)[n + 1]
    OBVIOUS
  <2>1. /\ n + 1 \in 1 .. Len(ps) /\ n + 1 \in 1 .. Len(qs) /\ n < Len(ps) /\ n < Len(qs)
        /\ ps[n + 1] = qs[n + 1] /\ Bodies(ps)[n] = Bodies(qs)[n]
    BY <1>2
  <2>2. Bodies(ps)[n + 1] = Bodies(ps)[n] \o Word(ps[n + 1].type) \o ValueOf(ps[n + 1])
    BY <2>1, BodiesUnfold, Zenon
  <2>3. Bodies(qs)[n + 1] = Bodies(qs)[n] \o Word(qs[n + 1].type) \o ValueOf(qs[n + 1])
    BY <2>1, BodiesUnfold, Zenon
  <2> QED BY <2>1, <2>2, <2>3
<1>3. Nat \subseteq S
  <2> HIDE DEF S
  <2> QED BY <1>1, <1>2, SetInduction
<1> QED BY <1>3

(* The body of a whole message *)
Body(ps) == Bodies(ps)[Len(ps)]

(* A body is a sequence of bytes, two at least for each parameter *)
LEMMA BodyBytes ==
    ASSUME NEW ps \in Seq(GoodParams)
    PROVE  Body(ps) \in Seq(Byte) /\ Len(Body(ps)) \in Nat /\ Len(Body(ps)) >= 2 * Len(ps)
<1>1. Len(ps) \in 0 .. Len(ps)
  OBVIOUS
<1>2. Bodies(ps)[Len(ps)] \in Seq(Byte) /\ Len(Bodies(ps)[Len(ps)]) >= 2 * Len(ps)
  BY <1>1, BodiesBytes
<1> QED BY <1>2 DEF Body

(* No parameters have no bytes *)
LEMMA BodyEmpty == Body(<<>>) = <<>>
<1>1. <<>> \in Seq(GoodParams) /\ Len(<<>>) = 0
  OBVIOUS
<1> QED BY <1>1, BodiesUnfold DEF Body

(* A further parameter puts its type word and its value behind the body *)
LEMMA BodyAppend ==
    ASSUME NEW ps \in Seq(GoodParams), NEW p \in GoodParams
    PROVE  /\ Append(ps, p) \in Seq(GoodParams)
           /\ Body(Append(ps, p)) = Body(ps) \o Word(p.type) \o ValueOf(p)
           /\ Len(Body(Append(ps, p))) = Len(Body(ps)) + 2 + SizeOfType(p.type)
<1> DEFINE qs == Append(ps, p)
           n == Len(ps)
<1>1. /\ qs \in Seq(GoodParams) /\ Len(qs) = n + 1 /\ n \in Nat
      /\ qs[n + 1] = p /\ \A k \in 1 .. n : ps[k] = qs[k]
  OBVIOUS
<1> HIDE DEF qs, n
<1>2. Bodies(ps)[n] = Bodies(qs)[n]
  <2>1. n <= Len(ps) /\ n <= Len(qs)
    BY <1>1 DEF n
  <2> QED BY <1>1, <2>1, BodiesAlike
<1>3. n < Len(qs)
  BY <1>1
<1>4. Bodies(qs)[n + 1] = Bodies(qs)[n] \o Word(p.type) \o ValueOf(p)
  <2>1. Bodies(qs)[n + 1] = Bodies(qs)[n] \o Word(qs[n + 1].type) \o ValueOf(qs[n + 1])
    BY <1>1, <1>3, BodiesUnfold, Zenon
  <2> QED BY <1>1, <2>1
<1>5. Body(qs) = Body(ps) \o Word(p.type) \o ValueOf(p)
  BY <1>1, <1>2, <1>4, Zenon DEF Body, n
<1>6. /\ Body(ps) \in Seq(Byte) /\ Word(p.type) \in Seq(Byte) /\ ValueOf(p) \in Seq(Byte)
  BY BodyBytes, GoodValue, WordBytes
<1>7. Len(Body(qs)) = Len(Body(ps)) + Len(Word(p.type)) + Len(ValueOf(p))
  BY <1>5, <1>6, Joined
<1>8. Len(Word(p.type)) = 2 /\ Len(ValueOf(p)) = SizeOfType(p.type)
  BY GoodValue, WordBytes
<1>9. Len(Body(qs)) = Len(Body(ps)) + 2 + SizeOfType(p.type)
  BY <1>7, <1>8
<1> QED BY <1>1, <1>5, <1>9, Zenon DEF qs

-----------------------------------------------------------------------------
(* The two loops, round by round                                           *)

(* The loop of af_rpc_create_buffer_with_params, round by round *)
LEMMA CreatesUnfold ==
    ASSUME NEW ps, Len(ps) \in Nat
    PROVE  /\ Creates(ps)[0] = [b   |-> buf,
                                pos |-> LENGTH_SIZE,
                                ret |-> IF bufSize < LENGTH_SIZE THEN ERR_BUFFER_OVERFLOW ELSE 0]
           /\ \A n \in Nat : n < Len(ps) => Creates(ps)[n + 1] = CreateStep(Creates(ps)[n], ps[n + 1])
<1> DEFINE Grown(b, n) == CreateStep(b, ps[n])
           first == [b   |-> buf,
                     pos |-> LENGTH_SIZE,
                     ret |-> IF bufSize < LENGTH_SIZE THEN ERR_BUFFER_OVERFLOW ELSE 0]
           G(g, k) == g = [n \in 0 .. k |-> IF n = 0 THEN first ELSE Grown(g[n - 1], n)]
           S == {k \in Nat : \E g : G(g, k)}
<1>1. 0 \in S
  <2> DEFINE g == [n \in 0 .. 0 |-> first]
  <2>1. G(g, 0)
    OBVIOUS
  <2> QED BY <2>1
<1>2. ASSUME NEW k \in Nat, k \in S PROVE k + 1 \in S
  <2> HIDE DEF Grown
  <2>1. PICK g : G(g, k)
    BY <1>2
  <2> DEFINE h == [n \in 0 .. k + 1 |-> IF n = k + 1 THEN Grown(g[k], k + 1) ELSE g[n]]
  <2>2. ASSUME NEW n \in 0 .. k + 1
        PROVE  h[n] = IF n = 0 THEN first ELSE Grown(h[n - 1], n)
    <3>1. CASE n = k + 1
      <4>1. h[n] = Grown(g[k], k + 1) /\ h[n - 1] = g[k] /\ n # 0
        BY <3>1
      <4> QED BY <3>1, <4>1
    <3>2. CASE n \in 1 .. k
      <4>1. h[n] = g[n] /\ h[n - 1] = g[n - 1] /\ n # 0 /\ n \in 0 .. k
        BY <3>2
      <4>2. g[n] = Grown(g[n - 1], n)
        BY <2>1, <4>1
      <4> QED BY <4>1, <4>2
    <3>3. CASE n = 0
      <4>1. h[n] = g[n] /\ 0 \in 0 .. k
        BY <3>3
      <4>2. g[0] = first
        BY <2>1, <4>1
      <4> QED BY <3>3, <4>1, <4>2
    <3> QED BY <3>1, <3>2, <3>3
  <2>3. h = [n \in 0 .. k + 1 |-> h[n]]
    OBVIOUS
  <2> HIDE DEF h
  <2>4. h = [n \in 0 .. k + 1 |-> IF n = 0 THEN first ELSE Grown(h[n - 1], n)]
    BY <2>2, <2>3
  <2>5. G(h, k + 1)
    BY <2>4
  <2>6. k + 1 \in Nat /\ \E g_1 : G(g_1, k + 1)
    <3> HIDE DEF G
    <3> QED BY <2>5
  <2> QED BY <2>6, Zenon
<1>3. Nat \subseteq S
  <2> HIDE DEF S
  <2> QED BY <1>1, <1>2, SetInduction
<1>4. \E g : G(g, Len(ps))
  <2>1. Len(ps) \in S
    <3> HIDE DEF S
    <3> QED BY <1>3
  <2> HIDE DEF G
  <2> QED BY <2>1
<1>5. G(Creates(ps), Len(ps))
  BY <1>4, Zenon DEF Creates
<1>6. Creates(ps)[0] = first
  BY <1>5
<1>7. ASSUME NEW n \in Nat, n < Len(ps) PROVE Creates(ps)[n + 1] = Grown(Creates(ps)[n], n + 1)
  <2> HIDE DEF Grown
  <2>1. n + 1 \in 0 .. Len(ps) /\ n + 1 # 0 /\ n + 1 - 1 = n
    BY <1>7
  <2> QED BY <1>5, <2>1
<1> QED BY <1>6, <1>7, Zenon

(* The loop of af_rpc_get_params_from_buffer, round by round *)
LEMMA RoundsUnfold ==
    ASSUME NEW msg, GetLen(msg) \in Nat, NEW exp, NEW permissive
    PROVE  /\ Rounds(msg, exp, permissive)[0]
                 = [pos |-> LENGTH_SIZE, params |-> <<>>, stopped |-> FALSE, ret |-> 0]
           /\ \A n \in Nat : n < GetLen(msg)
                => Rounds(msg, exp, permissive)[n + 1]
                     = ParseStep(Rounds(msg, exp, permissive)[n], msg, GetLen(msg), exp, permissive)
<1> DEFINE Grown(b, n) == ParseStep(b, msg, GetLen(msg), exp, permissive)
           first == [pos |-> LENGTH_SIZE, params |-> <<>>, stopped |-> FALSE, ret |-> 0]
           G(g, k) == g = [n \in 0 .. k |-> IF n = 0 THEN first ELSE Grown(g[n - 1], n)]
           S == {k \in Nat : \E g : G(g, k)}
<1>1. 0 \in S
  <2> DEFINE g == [n \in 0 .. 0 |-> first]
  <2>1. G(g, 0)
    OBVIOUS
  <2> QED BY <2>1
<1>2. ASSUME NEW k \in Nat, k \in S PROVE k + 1 \in S
  <2> HIDE DEF Grown
  <2>1. PICK g : G(g, k)
    BY <1>2
  <2> DEFINE h == [n \in 0 .. k + 1 |-> IF n = k + 1 THEN Grown(g[k], k + 1) ELSE g[n]]
  <2>2. ASSUME NEW n \in 0 .. k + 1
        PROVE  h[n] = IF n = 0 THEN first ELSE Grown(h[n - 1], n)
    <3>1. CASE n = k + 1
      <4>1. h[n] = Grown(g[k], k + 1) /\ h[n - 1] = g[k] /\ n # 0
        BY <3>1
      <4> QED BY <3>1, <4>1
    <3>2. CASE n \in 1 .. k
      <4>1. h[n] = g[n] /\ h[n - 1] = g[n - 1] /\ n # 0 /\ n \in 0 .. k
        BY <3>2
      <4>2. g[n] = Grown(g[n - 1], n)
        BY <2>1, <4>1
      <4> QED BY <4>1, <4>2
    <3>3. CASE n = 0
      <4>1. h[n] = g[n] /\ 0 \in 0 .. k
        BY <3>3
      <4>2. g[0] = first
        BY <2>1, <4>1
      <4> QED BY <3>3, <4>1, <4>2
    <3> QED BY <3>1, <3>2, <3>3
  <2>3. h = [n \in 0 .. k + 1 |-> h[n]]
    OBVIOUS
  <2> HIDE DEF h
  <2>4. h = [n \in 0 .. k + 1 |-> IF n = 0 THEN first ELSE Grown(h[n - 1], n)]
    BY <2>2, <2>3
  <2>5. G(h, k + 1)
    BY <2>4
  <2>6. k + 1 \in Nat /\ \E g_1 : G(g_1, k + 1)
    <3> HIDE DEF G
    <3> QED BY <2>5
  <2> QED BY <2>6, Zenon
<1>3. Nat \subseteq S
  <2> HIDE DEF S
  <2> QED BY <1>1, <1>2, SetInduction
<1>4. \E g : G(g, GetLen(msg))
  <2>1. GetLen(msg) \in S
    <3> HIDE DEF S
    <3> QED BY <1>3
  <2> HIDE DEF G
  <2> QED BY <2>1
<1>5. G(Rounds(msg, exp, permissive), GetLen(msg))
  BY <1>4, Zenon DEF Rounds
<1>6. Rounds(msg, exp, permissive)[0] = first
  BY <1>5
<1>7. ASSUME NEW n \in Nat, n < GetLen(msg) PROVE Rounds(msg, exp, permissive)[n + 1] = Grown(Rounds(msg, exp, permissive)[n], n + 1)
  <2> DEFINE f == Rounds(msg, exp, permissive)
  <2>0. f = [k \in 0 .. GetLen(msg) |-> IF k = 0 THEN first ELSE Grown(f[k - 1], k)]
    BY <1>5
  <2> HIDE DEF Grown, first, f
  <2>1. n + 1 \in 0 .. GetLen(msg) /\ n + 1 # 0 /\ n + 1 - 1 = n
    BY <1>7
  <2>2. f[n + 1] = Grown(f[n], n + 1)
    BY <2>0, <2>1
  <2> QED BY <2>2 DEF f
<1> QED BY <1>6, <1>7, Zenon

-----------------------------------------------------------------------------
(* The loop of af_rpc_create_buffer_with_params                            *)

(* The loop of create_buffer after n parameters: as long as nothing is     *)
(* wrong, their wire form stands behind the length.                        *)
CreateGood(st, ps, n) ==
    /\ st.b \in Cells /\ st.pos \in Nat
    /\ st.ret \in {0, ERR_BUFFER_OVERFLOW, ERR_BAD_PARAM, ERR_BAD_TYPE}
    /\ st.ret = 0 =>
         \E qs \in Seq(GoodParams) :
            /\ Len(qs) = n /\ \A k \in 1 .. n : qs[k] = ps[k]
            /\ st.pos = 2 + Len(Body(qs)) /\ st.pos <= BufSize
            /\ Carries(st.b, Body(qs))

(* A failed round leaves a state of the loop *)
LEMMA CreateFailed ==
    ASSUME NEW st, NEW ps, NEW n, st.b \in Cells, st.pos \in Nat,
           st.ret \in {ERR_BUFFER_OVERFLOW, ERR_BAD_PARAM, ERR_BAD_TYPE}
    PROVE  CreateGood(st, ps, n)
<1>1. st.ret # 0
  BY DEF ERR_BUFFER_OVERFLOW, ERR_BAD_PARAM, ERR_BAD_TYPE
<1> QED BY <1>1, Zenon DEF CreateGood

(* A round of the loop keeps CreateGood *)
LEMMA CreateRound ==
    ASSUME bufSize = BufSize, NEW st, NEW ps, NEW n \in Nat, CreateGood(st, ps, n), ps[n + 1] \in Params
    PROVE  CreateGood(CreateStep(st, ps[n + 1]), ps, n + 1)
<1> DEFINE p     == ps[n + 1]
           size  == SizeOfType(p.type)
           typed == Put(st.b, st.pos, Word(p.type))
           fail(b, e) == [b |-> b, pos |-> st.pos, ret |-> e]
           store(v) == [b   |-> Put(typed, st.pos + TYPE_SIZE, v),
                        pos |-> st.pos + TYPE_SIZE + size,
                        ret |-> 0]
           next == CreateStep(st, p)
<1> SUFFICES CreateGood(next, ps, n + 1)
  OBVIOUS
<1>1. st.b \in Cells /\ st.pos \in Nat /\ p.type \in Type16
  <2>1. p.type \in Type16
    BY ParamsSplit, GoodValue, WrongParam
  <2> QED BY <2>1 DEF CreateGood
<1>2. typed \in Cells
  BY <1>1, PutCells, WordBytes
<1>3. ASSUME NEW b \in Cells, NEW e \in {ERR_BUFFER_OVERFLOW, ERR_BAD_PARAM, ERR_BAD_TYPE}, next = fail(b, e)
      PROVE  CreateGood(next, ps, n + 1)
  <2>1. next.b = b /\ next.pos = st.pos /\ next.ret = e
    BY <1>3
  <2> HIDE DEF next
  <2> QED BY <1>1, <2>1, CreateFailed
<1>4. CASE st.ret < 0
  <2>1. next = st
    BY <1>4 DEF CreateStep
  <2>2. st.ret \in {ERR_BUFFER_OVERFLOW, ERR_BAD_PARAM, ERR_BAD_TYPE}
    BY <1>4 DEF CreateGood
  <2> HIDE DEF next
  <2> QED BY <1>1, <2>1, <2>2, CreateFailed
<1>5. CASE ~(st.ret < 0) /\ p \in WrongParams
  <2>1. \/ IsInteger(p.type) /\ (size < 0 \/ HasExtraBits(p.type))
        \/ ~IsInteger(p.type) /\ size > 0 /\ Len(p.base) = 0
    BY <1>5, WrongParam
  <2>2. \E b \in {st.b, typed} : \E e \in {ERR_BUFFER_OVERFLOW, ERR_BAD_PARAM, ERR_BAD_TYPE} : next = fail(b, e)
    <3> HIDE DEF p, typed
    <3>1. CASE size < 0 \/ size > AF_RPC_MAX_BLOB_SIZE
      <4>1. next = fail(st.b, ERR_BAD_TYPE)
        BY <1>5, <3>1, Zenon DEF CreateStep
      <4> HIDE DEF next, fail
      <4> QED BY <4>1
    <3>2. CASE ~(size < 0 \/ size > AF_RPC_MAX_BLOB_SIZE) /\ st.pos + TYPE_SIZE + size > bufSize
      <4>1. next = fail(st.b, ERR_BUFFER_OVERFLOW)
        BY <1>5, <3>2, Zenon DEF CreateStep
      <4> HIDE DEF next, fail
      <4> QED BY <4>1
    <3>3. CASE /\ ~(size < 0 \/ size > AF_RPC_MAX_BLOB_SIZE) /\ ~(st.pos + TYPE_SIZE + size > bufSize)
               /\ IsInteger(p.type) /\ HasExtraBits(p.type)
      <4>1. next = fail(st.b, ERR_BAD_TYPE)
        BY <1>5, <3>3, Zenon DEF CreateStep
      <4> HIDE DEF next, fail
      <4> QED BY <4>1
    <3>4. CASE /\ ~(size < 0 \/ size > AF_RPC_MAX_BLOB_SIZE) /\ ~(st.pos + TYPE_SIZE + size > bufSize)
               /\ ~IsInteger(p.type) /\ size > 0 /\ Len(p.base) = 0
      <4>1. next = fail(typed, ERR_BAD_PARAM)
        BY <1>5, <3>4, Zenon DEF CreateStep, typed
      <4> HIDE DEF next, fail
      <4> QED BY <4>1
    <3> HIDE DEF next, fail, size
    <3> QED BY <2>1, <3>1, <3>2, <3>3, <3>4, Zenon
  <2>3. PICK b \in {st.b, typed}, e \in {ERR_BUFFER_OVERFLOW, ERR_BAD_PARAM, ERR_BAD_TYPE} : next = fail(b, e)
    <3> HIDE DEF next, typed, fail
    <3> QED BY <2>2
  <2>4. b \in Cells
    BY <1>1, <1>2
  <2> HIDE DEF next, typed, fail
  <2> QED BY <1>3, <2>3, <2>4, Zenon
<1>6. CASE ~(st.ret < 0) /\ p \in GoodParams
  <2>0. st.ret = 0
    BY <1>6 DEF CreateGood, ERR_BUFFER_OVERFLOW, ERR_BAD_PARAM, ERR_BAD_TYPE
  <2>1. PICK qs \in Seq(GoodParams) :
            /\ Len(qs) = n /\ \A k \in 1 .. n : qs[k] = ps[k]
            /\ st.pos = 2 + Len(Body(qs)) /\ st.pos <= BufSize
            /\ Carries(st.b, Body(qs))
    BY <2>0 DEF CreateGood
  <2>2. /\ ValueOf(p) \in Seq(Byte) /\ Len(ValueOf(p)) = size
        /\ size \in Nat /\ size <= AF_RPC_MAX_BLOB_SIZE
        /\ IsInteger(p.type) => ~HasExtraBits(p.type)
        /\ ~IsInteger(p.type) => ValueOf(p) = p.base
    BY <1>6, GoodValue
  <2>3. ~(size < 0 \/ size > AF_RPC_MAX_BLOB_SIZE)
    BY <2>2 DEF AF_RPC_MAX_BLOB_SIZE
  <2>4. CASE st.pos + TYPE_SIZE + size > bufSize
    <3>1. next = fail(st.b, ERR_BUFFER_OVERFLOW)
      BY <1>6, <2>3, <2>4, Zenon DEF CreateStep
    <3> HIDE DEF next, fail
    <3> QED BY <1>1, <1>3, <3>1, Zenon
  <2>5. CASE ~(st.pos + TYPE_SIZE + size > bufSize)
    <3>1. next = store(ValueOf(p))
      <4>1. CASE IsInteger(p.type)
        <5>1. ValueOf(p) = Narrow(p.base, size)
          BY <4>1 DEF ValueOf
        <5>2. next = store(Narrow(p.base, size))
          BY <1>6, <2>2, <2>3, <2>5, <4>1, Zenon DEF CreateStep
        <5> QED BY <5>1, <5>2, Zenon
      <4>2. CASE ~IsInteger(p.type)
        <5>1. ValueOf(p) = p.base /\ ~(size > 0 /\ Len(p.base) = 0)
          BY <2>2, <4>2
        <5>2. next = store(p.base)
          BY <1>6, <2>3, <2>5, <4>2, <5>1, Zenon DEF CreateStep
        <5> QED BY <5>1, <5>2, Zenon
      <4> QED BY <4>1, <4>2
    <3>2. /\ next.b = Put(typed, st.pos + 2, ValueOf(p)) /\ next.pos = st.pos + 2 + size /\ next.ret = 0
      BY <3>1 DEF TYPE_SIZE
    <3> HIDE DEF next
    <3>3. 2 + Len(Body(qs)) + 2 + Len(ValueOf(p)) <= BufSize /\ Body(qs) \in Seq(Byte) /\ Len(Body(qs)) \in Nat
      BY <2>1, <2>2, <2>5, BodyBytes, SizeAssumption DEF TYPE_SIZE
    <3>4. next.b \in Cells /\ Carries(next.b, Body(qs) \o Word(p.type) \o ValueOf(p))
      <4>1. next.b = Put(Put(st.b, 2 + Len(Body(qs)), Word(p.type)), 2 + Len(Body(qs)) + 2, ValueOf(p))
        BY <2>1, <3>2
      <4>2. /\ Put(Put(st.b, 2 + Len(Body(qs)), Word(p.type)), 2 + Len(Body(qs)) + 2, ValueOf(p)) \in Cells
            /\ Carries(Put(Put(st.b, 2 + Len(Body(qs)), Word(p.type)), 2 + Len(Body(qs)) + 2, ValueOf(p)),
                       Body(qs) \o Word(p.type) \o ValueOf(p))
        <5> HIDE DEF p
        <5> QED BY <1>1, <2>1, <2>2, <3>3, StoreCarries
      <4> QED BY <4>1, <4>2, Zenon
    <3> DEFINE rs == Append(qs, p)
    <3>5. /\ rs \in Seq(GoodParams) /\ Body(rs) = Body(qs) \o Word(p.type) \o ValueOf(p)
          /\ Len(Body(rs)) = Len(Body(qs)) + 2 + size
      BY <1>6, BodyAppend
    <3>6. Len(rs) = n + 1 /\ \A k \in 1 .. n + 1 : rs[k] = ps[k]
      BY <2>1
    <3>7. next.pos = 2 + Len(Body(rs)) /\ next.pos <= BufSize /\ next.pos \in Nat
      BY <2>1, <2>2, <2>5, <3>2, <3>3, <3>5, SizeAssumption DEF TYPE_SIZE
    <3>8. Carries(next.b, Body(rs))
      BY <3>4, <3>5
    <3>9. next.ret \in {0, ERR_BUFFER_OVERFLOW, ERR_BAD_PARAM, ERR_BAD_TYPE}
      BY <3>2
    <3> HIDE DEF rs
    <3>10. \E xs \in Seq(GoodParams) :
            /\ Len(xs) = n + 1 /\ \A k \in 1 .. n + 1 : xs[k] = ps[k]
            /\ next.pos = 2 + Len(Body(xs)) /\ next.pos <= BufSize
            /\ Carries(next.b, Body(xs))
      BY <3>5, <3>6, <3>7, <3>8, Zenon
    <3> QED BY <3>4, <3>7, <3>9, <3>10, Zenon DEF CreateGood
  <2> QED BY <2>4, <2>5
<1> HIDE DEF next
<1> QED BY <1>4, <1>5, <1>6, ParamsSplit

-----------------------------------------------------------------------------
(* The invariant                                                           *)

(* The type word and the value that stand behind s extend what is carried *)
LEMMA ExtendCarries ==
    ASSUME NEW b \in Cells, NEW s \in Seq(Byte), Carries(b, s), NEW size \in Nat,
           2 + Len(s) + 2 + size <= BufSize
    PROVE  /\ WordAt(b, 2 + Len(s)) \in Type16
           /\ BytesAt(b, 2 + Len(s) + 2, size) \in Seq(Byte)
           /\ Len(BytesAt(b, 2 + Len(s) + 2, size)) = size
           /\ Carries(b, s \o Word(WordAt(b, 2 + Len(s))) \o BytesAt(b, 2 + Len(s) + 2, size))
<1> DEFINE n == Len(s)
           w == Word(WordAt(b, 2 + n))
           v == BytesAt(b, 2 + n + 2, size)
           whole == s \o w \o v
<1>1. n \in Nat /\ 2 + n \in Nat /\ 2 + n + 2 \in Nat /\ BufSize \in Nat /\ (2 + n) + 1 < BufSize
      /\ 2 + n + 2 + size <= BufSize
  BY SizeAssumption
<1> HIDE DEF n
<1>2. WordAt(b, 2 + n) \in Type16 /\ w = <<b[2 + n], b[2 + n + 1]>>
  BY <1>1, WordAtBytes
<1>3. w \in Seq(Byte) /\ Len(w) = 2
  BY <1>2, WordBytes
<1>4. w[1] = b[2 + n] /\ w[2] = b[2 + n + 1]
  <2> HIDE DEF w
  <2> QED BY <1>2
<1>5. v \in Seq(Byte) /\ Len(v) = size /\ \A k \in 1 .. size : v[k] = b[2 + n + 2 + k - 1]
  <2>1. \A k \in 1 .. size : 2 + n + 2 + k - 1 \in 0 .. BufSize - 1
    BY <1>1
  <2>2. v \in [1 .. size -> Byte] /\ \A k \in 1 .. size : v[k] = b[2 + n + 2 + k - 1]
    BY <2>1 DEF BytesAt, Cells
  <2> HIDE DEF v
  <2> QED BY <2>2, FunSeq
<1> HIDE DEF w, v
<1>6. w \in Seq(Byte) /\ v \in Seq(Byte)
  BY <1>3, <1>5
<1>7. /\ Len(whole) = n + Len(w) + Len(v)
      /\ \A i \in 1 .. n : whole[i] = s[i]
      /\ \A k \in 1 .. Len(w) : \A i \in Nat : i = n + k => whole[i] = w[k]
      /\ \A k \in 1 .. Len(v) : \A i \in Nat : i = n + Len(w) + k => whole[i] = v[k]
  BY <1>6, Joined DEF n
<1> HIDE DEF whole
<1>8. /\ Len(whole) = n + 2 + size
      /\ \A i \in 1 .. n : whole[i] = s[i]
      /\ \A k \in 1 .. 2 : \A i \in Nat : i = n + k => whole[i] = w[k]
      /\ \A k \in 1 .. size : \A i \in Nat : i = n + 2 + k => whole[i] = v[k]
  <2>1. Len(v) = size /\ Len(w) = 2
    BY <1>3, <1>5
  <2>2. Len(whole) = n + 2 + size
    BY <1>7, <2>1, Zenon
  <2>3. \A k \in 1 .. 2 : \A i \in Nat : i = n + k => whole[i] = w[k]
    BY <1>7, <2>1, Zenon
  <2>4. ASSUME NEW k \in 1 .. size, NEW i \in Nat, i = n + 2 + k PROVE whole[i] = v[k]
    <3>1. k \in 1 .. Len(v) /\ i = n + Len(w) + k
      BY <2>1, <2>4
    <3> QED BY <1>7, <3>1
  <2> QED BY <1>7, <2>2, <2>3, <2>4, Zenon
<1>9. ASSUME NEW i \in 1 .. Len(whole) PROVE b[i + 1] = whole[i]
  <2>0. i \in Nat /\ 1 <= i /\ i <= n + 2 + size
    BY <1>1, <1>8
  <2>1. CASE i <= n
    <3>1. i \in 1 .. n
      BY <1>1, <2>0, <2>1
    <3>2. b[i + 1] = s[i]
      BY <3>1 DEF Carries, n
    <3> QED BY <1>8, <3>1, <3>2
  <2>2. CASE i = n + 1
    <3>1. whole[i] = w[1] /\ i + 1 = 2 + n
      BY <1>1, <1>8, <2>0, <2>2
    <3> QED BY <1>4, <3>1
  <2>3. CASE i = n + 2
    <3>1. whole[i] = w[2] /\ i + 1 = 2 + n + 1
      BY <1>1, <1>8, <2>0, <2>3
    <3> QED BY <1>4, <3>1
  <2>4. CASE i > n + 2
    <3>1. PICK k \in 1 .. size : i = n + 2 + k
      <4>1. i - (n + 2) \in 1 .. size /\ i = n + 2 + (i - (n + 2))
        BY <1>1, <2>0, <2>4
      <4> QED BY <4>1
    <3>2. whole[i] = v[k] /\ 2 + n + 2 + k - 1 = i + 1
      BY <1>1, <1>8, <2>0, <3>1
    <3> QED BY <1>5, <3>2
  <2> QED BY <1>1, <2>0, <2>1, <2>2, <2>3, <2>4
<1>10. Carries(b, whole)
  BY <1>9 DEF Carries
<1> QED BY <1>2, <1>5, <1>10, Zenon DEF n, w, v, whole

-----------------------------------------------------------------------------
(* What a reader returned, as a parameter *)
TakenAs(r) ==
    [type |-> r.type, base |-> IF IsInteger(r.type) THEN Widen(r.type, r.value) ELSE r.value]

Taken(rs) == [k \in 1 .. Len(rs) |-> TakenAs(rs[k])]

(* What a reader takes out of a buffer is a good parameter *)
LEMMA TakenGood ==
    ASSUME NEW t \in Type16, IsInteger(t) => t \in UintTypes \cup IntTypes,
           NEW v \in Seq(Byte), Len(v) = SizeOfType(t)
    PROVE  /\ TakenAs([type |-> t, value |-> v]) \in GoodParams
           /\ ValueOf(TakenAs([type |-> t, value |-> v])) = v
           /\ TakenAs([type |-> t, value |-> v]).type = t
<1> DEFINE p == TakenAs([type |-> t, value |-> v])
<1>1. CASE IsInteger(t)
  <2>1. p = [type |-> t, base |-> Widen(t, v)]
    BY <1>1 DEF TakenAs
  <2> HIDE DEF p
  <2>2. p.type = t
    BY <2>1
  <2>3. p \in GoodParams /\ ValueOf(p) = v
    BY <1>1, <2>1, TakenInteger
  <2> QED BY <2>2, <2>3 DEF p
<1>2. CASE ~IsInteger(t)
  <2>1. p = [type |-> t, base |-> v]
    BY <1>2 DEF TakenAs
  <2> HIDE DEF p
  <2>2. p.type = t
    BY <2>1
  <2>3. p \in GoodParams /\ ValueOf(p) = v
    BY <1>2, <2>1, TakenBlob
  <2> QED BY <2>2, <2>3 DEF p
<1> QED BY <1>1, <1>2

(* A buffer that is being built holds the wire form of what was put in *)
BuiltInv ==
    /\ role = "tx" => bufSize = BufSize
    /\ role = "tx" /\ ready =>
         /\ BufSize >= 2 /\ built \in Seq(GoodParams)
         /\ GetLen(buf) = 2 + Len(Body(built)) /\ GetLen(buf) <= BufSize
         /\ Carries(buf, Body(built))

(* What the readers returned stands between the length and the cursor *)
ReadInv ==
    /\ reads \in Seq([type : Type16, value : Seq(Byte)])
    /\ Taken(reads) \in Seq(GoodParams)
    /\ \A k \in 1 .. Len(reads) : ValueOf(TakenAs(reads[k])) = reads[k].value
    /\ ReadPos = 2 + Len(Body(Taken(reads)))
    /\ reads # <<>> =>
         /\ ready /\ 2 < bufSize
         /\ ReadPos <= GetLen(buf) /\ GetLen(buf) <= bufSize
    /\ Carries(buf, Body(Taken(reads)))

WireInv == TypeOK /\ BuiltInv /\ ReadInv

(* What ReadInv says as long as nothing has been read *)
LEMMA NothingRead ==
    /\ <<>> \in Seq([type : Type16, value : Seq(Byte)])
    /\ Taken(<<>>) = <<>> /\ Taken(<<>>) \in Seq(GoodParams)
    /\ Len(Body(Taken(<<>>))) = 0
    /\ \A b : Carries(b, Body(Taken(<<>>)))
<1>1. Len(<<>>) = 0 /\ 1 .. 0 = {}
  OBVIOUS
<1>2. Taken(<<>>) = [k \in {} |-> TakenAs(<<>>[k])]
  BY <1>1, Zenon DEF Taken
<1>3. Taken(<<>>) = <<>>
  BY <1>2
<1>4. Body(<<>>) = <<>>
  BY BodyEmpty
<1>5. \A b : Carries(b, <<>>)
  BY DEF Carries
<1>6. <<>> \in Seq([type : Type16, value : Seq(Byte)]) /\ <<>> \in Seq(GoodParams)
  OBVIOUS
<1>7. Len(Body(<<>>)) = 0 /\ \A b : Carries(b, Body(<<>>))
  BY <1>1, <1>4, <1>5, Zenon
<1> QED BY <1>3, <1>6, <1>7, Zenon

(* The invariant holds at the start *)
LEMMA WireInvInit == Init => WireInv
<1> SUFFICES ASSUME Init PROVE WireInv
  OBVIOUS
<1>1. BufSize \in Nat /\ BufSize >= 1 /\ MaxStarts \in Nat
  BY SizeAssumption
<1>2. 0 \in Byte
  BY ByteRange
<1>3. buf \in [0 .. BufSize - 1 -> Byte]
  BY <1>2 DEF Init
<1>4. TypeOK
  <2>0. bufSize \in 0 .. BufSize
    <3>1. bufSize \in {0, BufSize}
      BY DEF Init
    <3> QED BY <1>1, <3>1
  <2>1. role \in {"tx", "rx"} /\ starts \in 0 .. MaxStarts
    BY <1>1 DEF Init
  <2>4. ready \in BOOLEAN
    BY Zenon DEF Init
  <2>2. cursor \in 0 .. BufSize /\ ret \in -6 .. BufSize
    BY <1>1 DEF Init
  <2>3. \A k \in DOMAIN reads : Len(reads[k].value) <= BufSize
    BY DEF Init
  <2> QED BY <1>3, <2>0, <2>1, <2>2, <2>3, <2>4 DEF TypeOK
<1>5. BuiltInv
  BY DEF Init, BuiltInv
<1>6. ReadInv
  <2>1. reads = <<>> /\ cursor = 0 /\ Len(reads) = 0
    BY DEF Init
  <2>2. ReadPos = 2
    BY <2>1 DEF ReadPos, LENGTH_SIZE
  <2> QED BY <2>1, <2>2, NothingRead DEF ReadInv
<1> QED BY <1>4, <1>5, <1>6 DEF WireInv

-----------------------------------------------------------------------------
(* The steps of the add functions                                          *)

(* A buffer that is begun anew has nothing read from it *)
LEMMA ReadAfresh ==
    ASSUME reads' = <<>>, cursor' = 0
    PROVE  ReadInv'
<1>1. ReadPos' = 2
  BY DEF ReadPos, LENGTH_SIZE
<1>2. Len(reads') = 0
  OBVIOUS
<1> QED BY <1>1, <1>2, NothingRead DEF ReadInv

(* What is written behind the message does not change what was read *)
LEMMA ReadKept ==
    ASSUME ReadInv, TypeOK, UNCHANGED <<reads, cursor, ready, bufSize>>,
           \A i \in 2 .. GetLen(buf) - 1 : buf'[i] = buf[i],
           GetLen(buf) \in Nat, GetLen(buf)' \in Nat,
           GetLen(buf) <= GetLen(buf)', GetLen(buf)' <= bufSize
    PROVE  ReadInv'
<1>1. ReadPos' = ReadPos /\ reads' = reads /\ ready' = ready /\ bufSize' = bufSize
  BY DEF ReadPos
<1>2. CASE reads = <<>>
  <2>1. Len(reads) = 0
    BY <1>2
  <2>2. ReadPos = 2 + Len(Body(Taken(reads)))
    BY DEF ReadInv
  <2> QED BY <1>1, <1>2, <2>1, <2>2, NothingRead DEF ReadInv
<1>3. CASE reads # <<>>
  <2>1. /\ Taken(reads) \in Seq(GoodParams) /\ ReadPos = 2 + Len(Body(Taken(reads)))
        /\ ready /\ 2 < bufSize /\ ReadPos <= GetLen(buf)
        /\ Carries(buf, Body(Taken(reads)))
    BY <1>3 DEF ReadInv
  <2>2. Len(Body(Taken(reads))) \in Nat
    BY <2>1, BodyBytes
  <2>3. ASSUME NEW i \in 1 .. Len(Body(Taken(reads))) PROVE buf'[i + 1] = Body(Taken(reads))[i]
    <3>1. i + 1 \in 2 .. GetLen(buf) - 1
      BY <2>1, <2>2
    <3>2. buf[i + 1] = Body(Taken(reads))[i]
      BY <2>1 DEF Carries
    <3> QED BY <3>1, <3>2
  <2>4. Carries(buf', Body(Taken(reads)))
    BY <2>3 DEF Carries
  <2>5. ReadPos <= GetLen(buf)'
    BY <2>1, <2>2
  <2>6. /\ reads \in Seq([type : Type16, value : Seq(Byte)])
        /\ \A k \in 1 .. Len(reads) : ValueOf(TakenAs(reads[k])) = reads[k].value
    BY DEF ReadInv
  <2> QED BY <1>1, <2>1, <2>4, <2>5, <2>6 DEF ReadInv
<1> QED BY <1>2, <1>3

(* The add functions *)
LEMMA AddKeeps ==
    ASSUME WireInv, role = "tx", ready, NEW p \in GoodParams, AddParam(p.type, ValueOf(p)), Remember(p),
           UNCHANGED <<role, bufSize, ready, starts, cursor, reads>>
    PROVE  WireInv'
<1> DEFINE s    == Body(built)
           v    == ValueOf(p)
           pos  == GetLen(buf)
           next == pos + 2 + Len(v)
<1>1. /\ TypeOK /\ ReadInv /\ bufSize = BufSize /\ BufSize >= 2 /\ built \in Seq(GoodParams)
      /\ pos = 2 + Len(s) /\ pos <= BufSize /\ Carries(buf, s)
  BY DEF WireInv, BuiltInv
<1>2. /\ s \in Seq(Byte) /\ Len(s) \in Nat /\ p.type \in Type16 /\ v \in Seq(Byte) /\ Len(v) \in Nat
      /\ Len(v) = SizeOfType(p.type) /\ BufSize \in Nat /\ BufSize < 65536 /\ buf \in Cells
  BY <1>1, BodyBytes, GoodValue, SizeAssumption DEF TypeOK, Cells
<1>3. CASE next > bufSize
  <2>1. ret' = ERR_BUFFER_OVERFLOW /\ buf' = buf
    BY <1>3 DEF AddParam, TYPE_SIZE
  <2>2. ret' = -1 /\ built' = built
    BY <2>1 DEF Remember, ERR_BUFFER_OVERFLOW
  <2>3. TypeOK'
    BY <1>1, <1>2, <2>1, <2>2 DEF TypeOK
  <2>4. BuiltInv'
    BY <2>1, <2>2 DEF WireInv, BuiltInv
  <2>5. ReadInv'
    BY <1>1, <2>1 DEF ReadInv, ReadPos
  <2> QED BY <2>3, <2>4, <2>5 DEF WireInv
<1>4. CASE ~(next > bufSize)
  <2> DEFINE b2 == Put(Put(buf, 2 + Len(s), Word(p.type)), 2 + Len(s) + 2, v)
  <2>1. buf' = SetLen(b2, next) /\ ret' = next
    BY <1>1, <1>4 DEF AddParam, TYPE_SIZE
  <2>2. next \in Nat /\ next <= BufSize /\ next \in Type16 /\ next = 2 + Len(s) + 2 + Len(v)
    BY <1>1, <1>2, <1>4 DEF Type16
  <2>3. /\ b2 \in Cells /\ Carries(b2, s \o Word(p.type) \o v)
        /\ \A i \in 0 .. 1 + Len(s) : b2[i] = buf[i]
    <3> HIDE DEF s, v
    <3> QED BY <1>1, <1>2, <2>2, StoreCarries
  <2> HIDE DEF next, b2
  <2>4. /\ buf' \in Cells /\ GetLen(buf)' = next
        /\ \A i \in 2 .. BufSize - 1 : buf'[i] = b2[i]
    BY <1>1, <2>1, <2>2, <2>3, SetLenCells
  <2>5. built' = Append(built, p)
    BY <2>1, <2>2 DEF Remember
  <2>6. /\ built' \in Seq(GoodParams) /\ Body(built') = s \o Word(p.type) \o v
        /\ Len(Body(built')) = Len(s) + 2 + SizeOfType(p.type)
    <3>1. /\ Append(built, p) \in Seq(GoodParams) /\ Body(Append(built, p)) = Body(built) \o Word(p.type) \o ValueOf(p)
          /\ Len(Body(Append(built, p))) = Len(Body(built)) + 2 + SizeOfType(p.type)
      BY <1>1, BodyAppend
    <3> QED BY <2>5, <3>1
  <2>7. Carries(buf', Body(built'))
    <3>1. ASSUME NEW i \in 1 .. Len(Body(built')) PROVE buf'[i + 1] = Body(built')[i]
      <4>1. i + 1 \in 2 .. BufSize - 1
        BY <1>2, <2>2, <2>6
      <4>2. b2[i + 1] = Body(built')[i]
        BY <2>3, <2>6 DEF Carries
      <4> QED BY <2>4, <4>1, <4>2
    <3> QED BY <3>1 DEF Carries
  <2>8. TypeOK'
    <3>1. ret' \in -6 .. BufSize
      BY <2>1, <2>2
    <3> QED BY <1>1, <2>4, <3>1 DEF TypeOK, Cells
  <2>9. BuiltInv'
    BY <1>1, <1>2, <2>2, <2>4, <2>6, <2>7 DEF BuiltInv
  <2>10. ReadInv'
    <3>1. ASSUME NEW i \in 2 .. GetLen(buf) - 1 PROVE buf'[i] = buf[i]
      <4>1. i \in 2 .. BufSize - 1 /\ i \in 0 .. 1 + Len(s)
        BY <1>1, <1>2
      <4> QED BY <2>3, <2>4, <4>1
    <3>2. GetLen(buf) \in Nat /\ GetLen(buf) <= next
      BY <1>1, <1>2, <2>2
    <3> QED BY <1>1, <2>2, <2>4, <3>1, <3>2, ReadKept
  <2> QED BY <2>8, <2>9, <2>10 DEF WireInv
<1> QED BY <1>3, <1>4

(* A call that is refused changes nothing *)
LEMMA RefuseKeeps ==
    ASSUME WireInv, ret' \in {ERR_BAD_PARAM, ERR_BAD_TLV, ERR_BAD_TYPE, ERR_BUFFER_OVERFLOW},
           starts' \in 0 .. MaxStarts,
           UNCHANGED <<role, buf, bufSize, ready, built, cursor, reads>>
    PROVE  WireInv'
<1>1. ret' \in -6 .. -1
  BY DEF ERR_BAD_PARAM, ERR_BAD_TLV, ERR_BAD_TYPE, ERR_BUFFER_OVERFLOW
<1>2. ret' \in -6 .. BufSize
  BY <1>1, SizeAssumption
<1>3. TypeOK'
  BY <1>2 DEF WireInv, TypeOK
<1>4. BuiltInv'
  BY DEF WireInv, BuiltInv
<1>5. ReadInv'
  BY DEF WireInv, ReadInv, ReadPos
<1> QED BY <1>3, <1>4, <1>5 DEF WireInv

-----------------------------------------------------------------------------
(* The steps that begin a buffer                                           *)

(* af_rpc_init_buffer keeps the invariant *)
LEMMA InitBufferKeeps == ASSUME WireInv, InitBuffer PROVE WireInv'
<1>0. starts' \in 0 .. MaxStarts
  BY SizeAssumption DEF WireInv, TypeOK, InitBuffer
<1>1. CASE bufSize < LENGTH_SIZE
  <2>1. ret' = ERR_BAD_PARAM /\ UNCHANGED <<role, buf, bufSize, ready, built, cursor, reads>>
    BY <1>1 DEF InitBuffer
  <2> QED BY <1>0, <2>1, RefuseKeeps
<1>2. CASE ~(bufSize < LENGTH_SIZE)
  <2>1. /\ role = "tx" /\ bufSize = BufSize /\ BufSize >= 2 /\ BufSize \in Nat /\ buf \in Cells /\ TypeOK
    BY <1>2, SizeAssumption DEF InitBuffer, WireInv, BuiltInv, TypeOK, Cells, LENGTH_SIZE
  <2>2. /\ buf' = SetLen(buf, 2) /\ ret' = 2 /\ ready' = TRUE /\ built' = <<>>
        /\ cursor' = 0 /\ reads' = <<>> /\ UNCHANGED <<role, bufSize>>
    BY <1>2 DEF InitBuffer, LENGTH_SIZE
  <2>3. buf' \in Cells /\ GetLen(buf)' = 2
    <3>1. 2 \in Type16
      BY DEF Type16
    <3> QED BY <2>1, <2>2, <3>1, SetLenCells
  <2>4. TypeOK'
    <3>1. ret' \in -6 .. BufSize /\ cursor' \in 0 .. BufSize
      BY <2>1, <2>2
    <3>2. ready' \in BOOLEAN
      BY <2>2, Zenon
    <3>3. \A k \in DOMAIN reads' : Len(reads'[k].value) <= BufSize
      BY <2>2
    <3> QED BY <1>0, <2>1, <2>2, <2>3, <3>1, <3>2, <3>3 DEF TypeOK, Cells
  <2>5. BuiltInv'
    <3>1. built' \in Seq(GoodParams) /\ Len(Body(built')) = 0 /\ Carries(buf', Body(built'))
      <4>1. <<>> \in Seq(GoodParams) /\ Len(Body(<<>>)) = 0 /\ Carries(buf', Body(<<>>))
        BY NothingRead, Zenon
      <4> QED BY <2>2, <4>1
    <3> QED BY <2>1, <2>2, <2>3, <3>1 DEF BuiltInv
  <2>6. ReadInv'
    BY <2>2, ReadAfresh
  <2> QED BY <2>4, <2>5, <2>6 DEF WireInv
<1> QED BY <1>1, <1>2

(* The loop of af_rpc_create_buffer_with_params, to its end *)
LEMMA CreateLoop ==
    ASSUME bufSize = BufSize, BufSize >= 1, buf \in Cells, NEW m \in Nat, NEW ps \in [1 .. m -> Params]
    PROVE  CreateGood(Creates(ps)[Len(ps)], ps, Len(ps)) /\ Len(ps) = m
<1>0. Len(ps) = m
  OBVIOUS
<1> DEFINE S == {n \in Nat : n <= m => CreateGood(Creates(ps)[n], ps, n)}
           st == Creates(ps)[0]
<1>1. 0 \in S
  <2>1. st = [b |-> buf, pos |-> LENGTH_SIZE,
              ret |-> IF bufSize < LENGTH_SIZE THEN ERR_BUFFER_OVERFLOW ELSE 0]
    BY <1>0, CreatesUnfold
  <2>2. st.b = buf /\ st.pos = 2 /\ st.ret = IF bufSize < 2 THEN ERR_BUFFER_OVERFLOW ELSE 0
    BY <2>1 DEF LENGTH_SIZE
  <2> HIDE DEF st
  <2>3. CASE bufSize < 2
    <3>1. CreateGood(st, ps, 0)
      BY <2>2, <2>3, CreateFailed
    <3> QED BY <3>1 DEF st
  <2>4. CASE ~(bufSize < 2)
    <3>1. <<>> \in Seq(GoodParams) /\ Len(<<>>) = 0 /\ Len(Body(<<>>)) = 0 /\ Carries(st.b, Body(<<>>))
      <4>1. Len(<<>>) = 0
        OBVIOUS
      <4> QED BY <4>1, NothingRead, Zenon
    <3>2. st.pos = 2 + Len(Body(<<>>)) /\ st.pos <= BufSize /\ \A k \in 1 .. 0 : <<>>[k] = ps[k]
      BY <2>2, <2>4, <3>1, SizeAssumption
    <3>3. \E qs \in Seq(GoodParams) :
            /\ Len(qs) = 0 /\ \A k \in 1 .. 0 : qs[k] = ps[k]
            /\ st.pos = 2 + Len(Body(qs)) /\ st.pos <= BufSize
            /\ Carries(st.b, Body(qs))
      BY <3>1, <3>2, Zenon
    <3>4. st.b \in Cells /\ st.pos \in Nat /\ st.ret = 0
      BY <2>2, <2>4
    <3>5. CreateGood(st, ps, 0)
      BY <3>3, <3>4 DEF CreateGood
    <3> QED BY <3>5 DEF st
  <2> QED BY <2>3, <2>4
<1>2. ASSUME NEW n \in Nat, n \in S PROVE n + 1 \in S
  <2> SUFFICES ASSUME n + 1 <= m PROVE CreateGood(Creates(ps)[n + 1], ps, n + 1)
    OBVIOUS
  <2>1. n < Len(ps) /\ n + 1 \in 1 .. m /\ n <= m
    BY <1>0
  <2>2. ps[n + 1] \in Params
    BY <2>1
  <2>3. Creates(ps)[n + 1] = CreateStep(Creates(ps)[n], ps[n + 1])
    BY <1>0, <2>1, CreatesUnfold
  <2>4. CreateGood(Creates(ps)[n], ps, n)
    BY <1>2, <2>1
  <2>5. CreateGood(CreateStep(Creates(ps)[n], ps[n + 1]), ps, n + 1)
    BY <2>2, <2>4, CreateRound
  <2> QED BY <2>3, <2>5
<1>3. Nat \subseteq S
  <2> HIDE DEF S
  <2> QED BY <1>1, <1>2, SetInduction
<1>4. CreateGood(Creates(ps)[m], ps, m)
  BY <1>3
<1> QED BY <1>0, <1>4

(* af_rpc_create_buffer_with_params keeps the invariant *)
LEMMA CreateBufferKeeps ==
    ASSUME WireInv, NEW m \in Nat, NEW ps \in [1 .. m -> Params], CreateBuffer(ps)
    PROVE  WireInv'
<1> DEFINE end == Creates(ps)[Len(ps)]
<1>0. /\ role = "tx" /\ bufSize = BufSize /\ BufSize \in Nat /\ BufSize >= 1 /\ BufSize < 65536
      /\ buf \in Cells /\ TypeOK /\ starts' \in 0 .. MaxStarts
  BY SizeAssumption DEF WireInv, TypeOK, BuiltInv, CreateBuffer, Cells
<1>1. CreateGood(end, ps, Len(ps)) /\ Len(ps) = m
  BY <1>0, CreateLoop
<1>2. /\ buf' = IF end.ret = 0 THEN SetLen(end.b, end.pos) ELSE end.b
      /\ ret' = IF end.ret = 0 THEN end.pos ELSE end.ret
      /\ built' = IF end.ret = 0 THEN ps ELSE <<>>
      /\ ready' = (end.ret = 0)
      /\ cursor' = 0 /\ reads' = <<>> /\ UNCHANGED <<role, bufSize>>
  BY Zenon DEF CreateBuffer
<1> HIDE DEF end
<1>3. ready' \in BOOLEAN
  BY <1>2, Zenon
<1>4. ReadInv'
  BY <1>2, ReadAfresh
<1>5. cursor' \in 0 .. BufSize /\ \A k \in DOMAIN reads' : Len(reads'[k].value) <= BufSize
  BY <1>0, <1>2
<1>6. CASE end.ret # 0
  <2>1. buf' = end.b /\ ret' = end.ret
    BY <1>2, <1>6
  <2>2. ~ready'
    BY <1>2, <1>6, Zenon
  <2>3. buf' \in Cells /\ ret' \in -6 .. BufSize
    BY <1>0, <1>1, <1>6, <2>1 DEF CreateGood, ERR_BAD_PARAM, ERR_BAD_TYPE, ERR_BUFFER_OVERFLOW
  <2>4. TypeOK'
    BY <1>0, <1>2, <1>3, <1>5, <2>3 DEF TypeOK, Cells
  <2>5. BuiltInv'
    BY <1>0, <1>2, <2>2 DEF BuiltInv
  <2> QED BY <1>4, <2>4, <2>5 DEF WireInv
<1>7. CASE end.ret = 0
  <2>1. buf' = SetLen(end.b, end.pos) /\ ret' = end.pos /\ built' = ps
    BY <1>2, <1>7
  <2>2. end.b \in Cells /\ end.pos \in Nat
    BY <1>1 DEF CreateGood
  <2>3. PICK qs \in Seq(GoodParams) :
            /\ Len(qs) = Len(ps) /\ \A k \in 1 .. Len(ps) : qs[k] = ps[k]
            /\ end.pos = 2 + Len(Body(qs)) /\ end.pos <= BufSize
            /\ Carries(end.b, Body(qs))
    BY <1>1, <1>7 DEF CreateGood
  <2>4. ps = qs
    <3>1. Len(qs) = m /\ \A k \in 1 .. m : qs[k] = ps[k]
      BY <1>1, <2>3
    <3>2. qs = [k \in 1 .. m |-> qs[k]] /\ ps = [k \in 1 .. m |-> ps[k]]
      BY <3>1
    <3> QED BY <3>1, <3>2
  <2>5. Len(Body(ps)) \in Nat
    BY <2>3, <2>4, BodyBytes
  <2>6. /\ end.pos \in Type16 /\ BufSize >= 2
        /\ ps \in Seq(GoodParams) /\ end.pos = 2 + Len(Body(ps)) /\ end.pos <= BufSize
        /\ Carries(end.b, Body(ps))
    BY <1>0, <2>2, <2>3, <2>4, <2>5 DEF Type16
  <2>7. /\ buf' \in Cells /\ GetLen(buf)' = end.pos
        /\ \A i \in 2 .. BufSize - 1 : buf'[i] = end.b[i]
    BY <2>1, <2>2, <2>6, SetLenCells
  <2>8. Carries(buf', Body(ps))
    <3>1. ASSUME NEW i \in 1 .. Len(Body(ps)) PROVE buf'[i + 1] = Body(ps)[i]
      <4>1. i + 1 \in 2 .. BufSize - 1
        BY <1>0, <2>5, <2>6
      <4>2. end.b[i + 1] = Body(ps)[i]
        BY <2>6 DEF Carries
      <4> QED BY <2>7, <4>1, <4>2
    <3> QED BY <3>1 DEF Carries
  <2>9. TypeOK'
    <3>1. ret' \in -6 .. BufSize
      BY <1>0, <2>1, <2>2, <2>6
    <3> QED BY <1>0, <1>2, <1>3, <1>5, <2>7, <3>1 DEF TypeOK, Cells
  <2>10. BuiltInv'
    BY <1>0, <1>2, <2>1, <2>6, <2>7, <2>8 DEF BuiltInv
  <2> QED BY <1>4, <2>9, <2>10 DEF WireInv
<1> QED BY <1>6, <1>7

-----------------------------------------------------------------------------
(* Receiving, rewinding and reading                                        *)

(* The stored length is two bytes whatever it should state *)
LEMMA AnyWord == \A w \in Nat : Word(w) \in Seq(Byte)
<1> SUFFICES ASSUME NEW w \in Nat PROVE Word(w) \in Seq(Byte)
  OBVIOUS
<1>1. w \div 256 \in Nat
  BY SMT
<1>2. (w \div 256) % 256 \in Nat /\ (w \div 256) % 256 < 256 /\ w % 256 \in Nat /\ w % 256 < 256
  BY <1>1, LowByte
<1>3. (w \div 256) % 256 \in Byte /\ w % 256 \in Byte
  BY <1>2, ByteRange
<1> QED BY <1>3 DEF Word

(* A message that is received replaces what the buffer held *)
LEMMA ReceiveKeeps ==
    ASSUME WireInv, NEW n \in 1 .. RxMax, NEW len \in n - 1 .. n + 1,
           NEW payload \in [1 .. n - 2 -> RxBytes], Receive(n, len, payload)
    PROVE  WireInv'
<1>1. /\ role = "rx" /\ ready = FALSE /\ ready' = TRUE /\ bufSize' = n
      /\ buf' = Put(SetLen(buf, len), LENGTH_SIZE, payload)
      /\ UNCHANGED <<role, starts, built, cursor, reads, ret>>
  BY DEF Receive, WireInv, TypeOK
<1>2. TypeOK /\ ReadInv /\ buf \in Cells
  BY DEF WireInv, TypeOK, Cells
<1>3. SetLen(buf, len) \in Cells
  <2>1. len \in Nat
    BY SizeAssumption
  <2> QED BY <1>2, <2>1, AnyWord, PutCells DEF SetLen
<1>4. payload \in Seq(Byte)
  <2>1. \A k \in 1 .. n - 2 : payload[k] \in Byte
    BY BytesAssumption
  <2>2. CASE n = 1
    <3>1. payload \in [1 .. 0 -> Byte]
      <4>1. 1 .. n - 2 = {} /\ 1 .. 0 = {}
        BY <2>2
      <4> QED BY <4>1
    <3> QED BY <3>1, FunSeq, 0 \in Nat
  <2>3. CASE n >= 2
    <3>1. n - 2 \in Nat /\ payload \in [1 .. n - 2 -> Byte]
      BY <2>1, <2>3, SizeAssumption
    <3> QED BY <3>1, FunSeq
  <2> QED BY <2>2, <2>3, SizeAssumption
<1>5. buf' \in Cells
  BY <1>1, <1>3, <1>4, PutCells DEF LENGTH_SIZE
<1>6. TypeOK'
  <2>1. bufSize' \in 0 .. BufSize
    BY <1>1, SizeAssumption
  <2>2. ready' \in BOOLEAN
    BY <1>1, Zenon
  <2> QED BY <1>1, <1>2, <1>5, <2>1, <2>2 DEF TypeOK, Cells
<1>7. BuiltInv'
  BY <1>1 DEF BuiltInv
<1>8. ReadInv'
  <2>1. reads = <<>> /\ Len(reads) = 0
    <3>1. reads = <<>>
      BY <1>1, <1>2 DEF ReadInv
    <3> QED BY <3>1
  <2>2. ReadPos' = ReadPos /\ reads' = reads
    BY <1>1 DEF ReadPos
  <2>3. ReadPos = 2 + Len(Body(Taken(reads)))
    BY <1>2 DEF ReadInv
  <2> QED BY <2>1, <2>2, <2>3, NothingRead DEF ReadInv
<1> QED BY <1>6, <1>7, <1>8 DEF WireInv

(* Reading from the front again keeps the invariant *)
LEMMA RewindKeeps == ASSUME WireInv, Rewind PROVE WireInv'
<1>1. cursor' = 0 /\ reads' = <<>> /\ UNCHANGED <<role, buf, bufSize, ready, starts, built, ret>>
  BY DEF Rewind
<1>2. ReadInv'
  BY <1>1, ReadAfresh
<1>3. TypeOK'
  BY <1>1, SizeAssumption DEF WireInv, TypeOK
<1>4. BuiltInv'
  BY <1>1 DEF WireInv, BuiltInv
<1> QED BY <1>2, <1>3, <1>4 DEF WireInv

(* One more value that was read is one more parameter taken *)
LEMMA TakenAppend ==
    ASSUME NEW rs \in Seq([type : Type16, value : Seq(Byte)]), NEW r \in [type : Type16, value : Seq(Byte)],
           Taken(rs) \in Seq(GoodParams), TakenAs(r) \in GoodParams
    PROVE  Taken(Append(rs, r)) = Append(Taken(rs), TakenAs(r))
<1> DEFINE xs == Append(rs, r)
           p  == TakenAs(r)
           n  == Len(rs)
           ts == Taken(rs)
<1>1. n \in Nat /\ Len(xs) = n + 1 /\ xs[n + 1] = r /\ \A k \in 1 .. n : xs[k] = rs[k]
  OBVIOUS
<1> HIDE DEF xs
<1>2. Taken(xs) = [k \in 1 .. n + 1 |-> TakenAs(xs[k])]
  BY <1>1, Zenon DEF Taken
<1>3. ts = [k \in 1 .. n |-> TakenAs(rs[k])]
  BY DEF Taken
<1> HIDE DEF p, n, ts
<1>4. ts \in Seq(GoodParams) /\ Len(ts) = n
  BY <1>1, <1>3 DEF ts
<1>5. Append(ts, p) = [k \in 1 .. n + 1 |-> IF k = n + 1 THEN p ELSE ts[k]]
  <2> DEFINE as == Append(ts, p)
  <2>1. p \in GoodParams
    BY DEF p
  <2>2. /\ as \in Seq(GoodParams) /\ Len(as) = n + 1
        /\ as[n + 1] = p /\ \A k \in 1 .. n : as[k] = ts[k]
    BY <1>1, <1>4, <2>1
  <2> HIDE DEF as
  <2>3. as = [k \in 1 .. n + 1 |-> as[k]]
    <3>1. \A q \in Seq(GoodParams) : q = [k \in 1 .. Len(q) |-> q[k]]
      OBVIOUS
    <3>2. as = [k \in 1 .. Len(as) |-> as[k]]
      BY <2>2, <3>1
    <3> QED BY <2>2, <3>2, Zenon
  <2>4. ASSUME NEW k \in 1 .. n + 1 PROVE as[k] = IF k = n + 1 THEN p ELSE ts[k]
    <3>1. k = n + 1 \/ k \in 1 .. n
      BY <1>1
    <3>2. k \in 1 .. n => k # n + 1
      BY <1>1
    <3> QED BY <2>2, <3>1, <3>2
  <2>5. as = [k \in 1 .. n + 1 |-> IF k = n + 1 THEN p ELSE ts[k]]
    BY <2>3, <2>4
  <2> QED BY <2>5 DEF as
<1>6. ASSUME NEW k \in 1 .. n + 1 PROVE TakenAs(xs[k]) = IF k = n + 1 THEN p ELSE ts[k]
  <2>1. CASE k = n + 1
    BY <1>1, <2>1 DEF p
  <2>2. CASE k # n + 1
    <3>1. k \in 1 .. n
      BY <1>1, <2>2
    <3> QED BY <1>1, <1>3, <2>2, <3>1
  <2> QED BY <2>1, <2>2
<1>7. Taken(xs) = Append(ts, p)
  BY <1>2, <1>5, <1>6
<1> QED BY <1>7 DEF xs, ts, p

(* A reader that delivers a value *)
LEMMA GiveKeeps ==
    ASSUME WireInv, ready, ReadError = 0, NEW t \in Type16, NEW size \in Nat, size = SizeOfType(t),
           IsInteger(t) => t \in UintTypes \cup IntTypes,
           ReadPos + 2 + size <= GetLen(buf), WordAt(buf, ReadPos) = t,
           ReadGives(t, BytesAt(buf, ReadPos + 2, size)),
           UNCHANGED <<role, buf, bufSize, ready, starts, built>>
    PROVE  WireInv'
<1> DEFINE s == Body(Taken(reads))
           v == BytesAt(buf, 2 + Len(s) + 2, size)
           r == [type |-> t, value |-> v]
           p == TakenAs(r)
<1>1. /\ TypeOK /\ buf \in Cells /\ bufSize \in Nat /\ bufSize <= BufSize /\ BufSize \in Nat
      /\ Taken(reads) \in Seq(GoodParams) /\ reads \in Seq([type : Type16, value : Seq(Byte)])
      /\ \A k \in 1 .. Len(reads) : ValueOf(TakenAs(reads[k])) = reads[k].value
      /\ ReadPos = 2 + Len(s) /\ Carries(buf, s)
  BY SizeAssumption DEF WireInv, ReadInv, TypeOK, Cells
<1>2. s \in Seq(Byte) /\ Len(s) \in Nat
  BY <1>1, BodyBytes
<1>3. 2 < bufSize /\ ~(GetLen(buf) > bufSize)
  <2>1. ~(bufSize <= LENGTH_SIZE) /\ ~(GetLen(buf) > bufSize)
    BY DEF ReadError, ERR_BAD_PARAM, ERR_BAD_TLV
  <2> QED BY <1>1, <2>1 DEF LENGTH_SIZE
<1>4. GetLen(buf) \in Nat
  <2>1. WordAt(buf, 0) \in Type16
    BY <1>1, <1>3, WordAtBytes, 0 \in Nat
  <2> QED BY <2>1 DEF GetLen, Type16
<1>5. 2 + Len(s) + 2 + size <= GetLen(buf) /\ GetLen(buf) <= bufSize /\ 2 + Len(s) + 2 + size <= BufSize
  BY <1>1, <1>2, <1>3, <1>4
<1>6. WordAt(buf, 2 + Len(s)) = t /\ ReadPos + 2 = 2 + Len(s) + 2
  BY <1>1, <1>2
<1>7. v \in Seq(Byte) /\ Len(v) = size /\ Carries(buf, s \o Word(t) \o v)
  <2> HIDE DEF s
  <2>1. /\ BytesAt(buf, 2 + Len(s) + 2, size) \in Seq(Byte)
        /\ Len(BytesAt(buf, 2 + Len(s) + 2, size)) = size
        /\ Carries(buf, s \o Word(WordAt(buf, 2 + Len(s))) \o BytesAt(buf, 2 + Len(s) + 2, size))
    BY <1>1, <1>2, <1>5, ExtendCarries
  <2> QED BY <1>6, <2>1
<1>8. ret' = ReadPos + 2 + size /\ cursor' = ReadPos + 2 + size /\ reads' = Append(reads, r)
  <2>1. ReadGives(t, v)
    BY <1>6
  <2> HIDE DEF v
  <2> QED BY <1>7, <2>1 DEF ReadGives, TYPE_SIZE
<1> HIDE DEF v
<1>9. r \in [type : Type16, value : Seq(Byte)] /\ r.type = t /\ r.value = v
  BY <1>7
<1>10. p \in GoodParams /\ ValueOf(p) = v /\ p.type = t
  BY <1>7, TakenGood
<1> HIDE DEF r
<1>11. Taken(reads') = Append(Taken(reads), p)
  BY <1>1, <1>8, <1>9, <1>10, TakenAppend
<1> HIDE DEF p
<1>12. /\ Taken(reads') \in Seq(GoodParams) /\ Body(Taken(reads')) = s \o Word(t) \o v
       /\ Len(Body(Taken(reads'))) = Len(s) + 2 + size
  <2>1. /\ Append(Taken(reads), p) \in Seq(GoodParams)
        /\ Body(Append(Taken(reads), p)) = Body(Taken(reads)) \o Word(p.type) \o ValueOf(p)
        /\ Len(Body(Append(Taken(reads), p))) = Len(Body(Taken(reads))) + 2 + SizeOfType(p.type)
    BY <1>1, <1>10, BodyAppend
  <2> QED BY <1>10, <1>11, <2>1
<1>13. /\ reads' \in Seq([type : Type16, value : Seq(Byte)])
       /\ \A k \in 1 .. Len(reads') : ValueOf(TakenAs(reads'[k])) = reads'[k].value
       /\ \A k \in DOMAIN reads' : Len(reads'[k].value) <= BufSize
  <2>1. /\ reads' \in Seq([type : Type16, value : Seq(Byte)]) /\ Len(reads') = Len(reads) + 1
        /\ reads'[Len(reads) + 1] = r /\ \A k \in 1 .. Len(reads) : reads'[k] = reads[k]
    BY <1>1, <1>8, <1>9
  <2>2. \A k \in 1 .. Len(reads) : Len(reads[k].value) <= BufSize
    BY <1>1 DEF TypeOK
  <2>3. size <= BufSize
    BY <1>1, <1>2, <1>5
  <2>4. Len(r.value) <= BufSize /\ ValueOf(TakenAs(r)) = r.value
    BY <1>7, <1>9, <1>10, <2>3 DEF p
  <2>5. ASSUME NEW k \in 1 .. Len(reads') 
        PROVE  ValueOf(TakenAs(reads'[k])) = reads'[k].value /\ Len(reads'[k].value) <= BufSize
    <3>1. CASE k = Len(reads) + 1
      BY <2>1, <2>4, <3>1
    <3>2. CASE k # Len(reads) + 1
      <4>1. k \in 1 .. Len(reads)
        BY <1>1, <2>1, <3>2
      <4> QED BY <1>1, <2>1, <2>2, <4>1
    <3> QED BY <3>1, <3>2
  <2> QED BY <2>1, <2>5
<1>14. ReadPos' = 2 + Len(Body(Taken(reads'))) /\ ReadPos' <= GetLen(buf)
  <2>1. cursor' = 2 + Len(s) + 2 + size /\ cursor' # 0
    BY <1>1, <1>2, <1>8
  <2>2. ReadPos' = cursor'
    BY <2>1 DEF ReadPos
  <2> QED BY <1>2, <1>5, <1>12, <2>1, <2>2
<1>15. ReadInv'
  <2>1. ready' /\ 2 < bufSize' /\ GetLen(buf') = GetLen(buf) /\ buf' = buf /\ bufSize' = bufSize
    BY <1>3
  <2>2. Carries(buf', Body(Taken(reads')))
    BY <1>7, <1>12, <2>1
  <2> QED BY <1>5, <1>12, <1>13, <1>14, <2>1, <2>2 DEF ReadInv
<1>16. TypeOK'
  <2>1. cursor' \in 0 .. BufSize /\ ret' \in -6 .. BufSize
    BY <1>1, <1>2, <1>5, <1>8
  <2> QED BY <1>1, <1>13, <2>1 DEF TypeOK
<1>17. BuiltInv'
  BY DEF WireInv, BuiltInv
<1> QED BY <1>15, <1>16, <1>17 DEF WireInv

-----------------------------------------------------------------------------
(* The readers, and the invariant of every behaviour                       *)

(* A reader that fails keeps the invariant *)
LEMMA FailKeeps ==
    ASSUME WireInv, NEW e \in {ERR_BAD_PARAM, ERR_BAD_TLV, ERR_BAD_TYPE, ERR_BUFFER_OVERFLOW},
           ReadFails(e), UNCHANGED <<role, buf, bufSize, ready, starts, built>>
    PROVE  WireInv'
<1>1. ret' = e /\ UNCHANGED <<cursor, reads>>
  BY DEF ReadFails
<1>2. starts' \in 0 .. MaxStarts
  BY DEF WireInv, TypeOK
<1> QED BY <1>1, <1>2, RefuseKeeps

(* The errors of the checks that all readers begin with *)
LEMMA ErrorKinds == ReadError # 0 => ReadError \in {ERR_BAD_PARAM, ERR_BAD_TLV}
BY DEF ReadError

(* The readers of integers keep the invariant *)
LEMMA ReadIntegerKeeps ==
    ASSUME WireInv, NEW t \in UintTypes \cup IntTypes, ReadInteger(t)
    PROVE  WireInv'
<1> DEFINE size == SizeOfType(t)
<1>1. ready /\ UNCHANGED <<role, buf, bufSize, ready, starts, built>>
  BY DEF ReadInteger
<1>2. t \in Type16 /\ size \in Nat
  BY IntegerTypes
<1>3. CASE ReadError # 0
  <2>1. ReadFails(ReadError)
    BY <1>3 DEF ReadInteger
  <2>2. ReadError \in {ERR_BAD_PARAM, ERR_BAD_TLV, ERR_BAD_TYPE, ERR_BUFFER_OVERFLOW}
    BY <1>3, ErrorKinds
  <2> QED BY <1>1, <2>1, <2>2, FailKeeps
<1>4. CASE ReadError = 0 /\ ReadPos + TYPE_SIZE + size > GetLen(buf)
  <2>1. ReadFails(ERR_BAD_TLV)
    BY <1>4 DEF ReadInteger
  <2> QED BY <1>1, <2>1, FailKeeps
<1>5. CASE ReadError = 0 /\ ~(ReadPos + TYPE_SIZE + size > GetLen(buf)) /\ WordAt(buf, ReadPos) # t
  <2>1. ReadFails(ERR_BAD_TYPE)
    BY <1>5 DEF ReadInteger
  <2> QED BY <1>1, <2>1, FailKeeps
<1>6. CASE ReadError = 0 /\ ~(ReadPos + TYPE_SIZE + size > GetLen(buf)) /\ WordAt(buf, ReadPos) = t
  <2>1. ReadGives(t, BytesAt(buf, ReadPos + 2, size))
    BY <1>6 DEF ReadInteger, TYPE_SIZE
  <2>2. ReadPos + 2 + size <= GetLen(buf)
    <3>1. ReadPos \in Nat
      BY DEF WireInv, TypeOK, ReadPos, LENGTH_SIZE
    <3>2. GetLen(buf) \in Int
      <4>1. 2 < bufSize /\ bufSize <= BufSize /\ buf \in Cells
        BY <1>6, SizeAssumption DEF WireInv, TypeOK, ReadError, LENGTH_SIZE, ERR_BAD_PARAM, Cells
      <4>2. WordAt(buf, 0) \in Type16
        BY <4>1, WordAtBytes, SizeAssumption DEF WireInv, TypeOK
      <4> QED BY <4>2 DEF GetLen, Type16
    <3> QED BY <1>2, <1>6, <3>1, <3>2 DEF TYPE_SIZE
  <2> HIDE DEF size
  <2>3. size = SizeOfType(t)
    BY DEF size
  <2> QED BY <1>1, <1>2, <1>6, <2>1, <2>2, <2>3, GiveKeeps
<1> QED BY <1>3, <1>4, <1>5, <1>6

(* The reader of blobs keeps the invariant, whatever lies beyond the buffer *)
LEMMA ReadBlobKeeps ==
    ASSUME WireInv, NEW room \in Nat, NEW beyond \in Type16, ReadBlob(room, beyond)
    PROVE  WireInv'
<1> DEFINE type == IF ReadPos + TYPE_SIZE <= bufSize THEN WordAt(buf, ReadPos) ELSE beyond
           size == SizeOfType(type)
           from == ReadPos + TYPE_SIZE
<1>1. ready /\ UNCHANGED <<role, buf, bufSize, ready, starts, built>>
  BY DEF ReadBlob
<1>2. /\ ReadPos \in Nat /\ bufSize \in Nat /\ bufSize <= BufSize /\ buf \in Cells /\ BufSize \in Nat
  BY SizeAssumption DEF WireInv, TypeOK, ReadPos, LENGTH_SIZE, Cells
<1>3. type \in Type16
  <2>1. CASE ReadPos + TYPE_SIZE <= bufSize
    <3>1. ReadPos + 1 < BufSize
      BY <1>2, <2>1 DEF TYPE_SIZE
    <3> QED BY <1>2, <2>1, <3>1, WordAtBytes
  <2>2. CASE ~(ReadPos + TYPE_SIZE <= bufSize)
    BY <2>2
  <2> QED BY <2>1, <2>2
<1>4. CASE room <= 0 
  <2>1. ReadFails(ERR_BAD_PARAM)
    BY <1>4 DEF ReadBlob
  <2> QED BY <1>1, <2>1, FailKeeps
<1>5. CASE ~(room <= 0) /\ ReadError # 0
  <2>1. ReadFails(ReadError)
    BY <1>5 DEF ReadBlob
  <2>2. ReadError \in {ERR_BAD_PARAM, ERR_BAD_TLV, ERR_BAD_TYPE, ERR_BUFFER_OVERFLOW}
    BY <1>5, ErrorKinds
  <2> QED BY <1>1, <2>1, <2>2, FailKeeps
<1>6. CASE ~(room <= 0) /\ ReadError = 0 /\ IsInteger(type)
  <2>1. ReadFails(ERR_BAD_TYPE)
    BY <1>6, Zenon DEF ReadBlob
  <2> QED BY <1>1, <2>1, FailKeeps
<1>7. CASE ~(room <= 0) /\ ReadError = 0 /\ ~IsInteger(type) /\ from + size > GetLen(buf)
  <2>1. ReadFails(ERR_BAD_TLV)
    BY <1>7, Zenon DEF ReadBlob
  <2> QED BY <1>1, <2>1, FailKeeps
<1>8. CASE ~(room <= 0) /\ ReadError = 0 /\ ~IsInteger(type) /\ ~(from + size > GetLen(buf)) /\ size > room
  <2>1. ReadFails(ERR_BUFFER_OVERFLOW)
    BY <1>8, Zenon DEF ReadBlob
  <2> QED BY <1>1, <2>1, FailKeeps
<1>9. CASE ~(room <= 0) /\ ReadError = 0 /\ ~IsInteger(type) /\ ~(from + size > GetLen(buf)) /\ ~(size > room)
  <2>1. ReadGives(type, BytesAt(buf, from, size))
    BY <1>9, Zenon DEF ReadBlob
  <2>2. size \in Nat
    <3> HIDE DEF type
    <3> QED BY <1>3, <1>9, Sizes
  <2>3. 2 < bufSize /\ ~(GetLen(buf) > bufSize)
    BY <1>2, <1>9 DEF ReadError, LENGTH_SIZE, ERR_BAD_PARAM, ERR_BAD_TLV
  <2>4. GetLen(buf) \in Nat
    <3>1. WordAt(buf, 0) \in Type16
      BY <1>2, <2>3, WordAtBytes, 0 \in Nat
    <3> QED BY <3>1 DEF GetLen, Type16
  <2>5. ReadPos + 2 + size <= GetLen(buf) /\ ReadPos + 2 <= bufSize /\ from = ReadPos + 2
    <3> HIDE DEF size, type
    <3> QED BY <1>2, <1>9, <2>2, <2>3, <2>4 DEF TYPE_SIZE
  <2>6. type = WordAt(buf, ReadPos)
    BY <2>5 DEF TYPE_SIZE
  <2> DEFINE t == type
  <2>7. ReadGives(t, BytesAt(buf, ReadPos + 2, size)) /\ size = SizeOfType(t) /\ ~IsInteger(t) /\ t \in Type16
    BY <1>3, <1>9, <2>1, <2>5, Zenon
  <2>8. WordAt(buf, ReadPos) = t
    BY <2>6
  <2> HIDE DEF size, type, t, from
  <2> QED BY <1>1, <1>9, <2>2, <2>5, <2>7, <2>8, GiveKeeps
<1> QED BY <1>4, <1>5, <1>6, <1>7, <1>8, <1>9, Zenon

(* Every step keeps the invariant *)
LEMMA WireInvNext == WireInv /\ [Next]_vars => WireInv'
<1> SUFFICES ASSUME WireInv, [Next]_vars PROVE WireInv'
  OBVIOUS
<1>1. CASE InitBuffer
  BY <1>1, InitBufferKeeps
<1>2. ASSUME NEW p \in ValidIntegers, AddInteger(p.type, p.base) PROVE WireInv'
  <2>1. p \in GoodParams
    BY ValidIsGood
  <2>2. p.type \in UintTypes \cup IntTypes
    BY DEF ValidIntegers, IntegerParams
  <2>3. p = [type |-> p.type, base |-> p.base] /\ IsInteger(p.type)
    BY <2>1, <2>2, GoodValue, IntegerTypes
  <2>4. ValueOf(p) = Narrow(p.base, SizeOfType(p.type))
    BY <2>3 DEF ValueOf
  <2>5. /\ role = "tx" /\ ready /\ AddParam(p.type, ValueOf(p))
        /\ Remember([type |-> p.type, base |-> p.base])
        /\ UNCHANGED <<role, bufSize, ready, starts, cursor, reads>>
    BY <1>2, <2>4, Zenon DEF AddInteger
  <2>6. Remember(p)
    BY <2>3, <2>5, Zenon
  <2> QED BY <2>1, <2>5, <2>6, AddKeeps
<1>3. ASSUME NEW blob \in Blobs, AddBlob(blob, Len(blob)) PROVE WireInv'
  <2> DEFINE p == [type |-> AF_RPC_TYPE_BLOB(Len(blob)), base |-> blob]
  <2>1. p \in GoodParams /\ ValueOf(p) = blob /\ p.type = AF_RPC_TYPE_BLOB(Len(blob))
    BY BlobIsGood
  <2>2. Len(blob) \in Nat /\ Len(blob) <= 16383
    BY BytesAssumption, SizeAssumption
  <2>3. ~((Len(blob) = 0 /\ Len(blob) > 0) \/ Len(blob) > AF_RPC_MAX_BLOB_SIZE)
    BY <2>2 DEF AF_RPC_MAX_BLOB_SIZE
  <2>4. /\ role = "tx" /\ ready /\ AddParam(AF_RPC_TYPE_BLOB(Len(blob)), blob) /\ Remember(p)
        /\ UNCHANGED <<role, bufSize, ready, starts, cursor, reads>>
    BY <1>3, <2>3, Zenon DEF AddBlob
  <2> HIDE DEF p
  <2>5. AddParam(p.type, ValueOf(p))
    BY <2>1, <2>4, Zenon
  <2> QED BY <2>1, <2>4, <2>5, AddKeeps
<1>4. CASE AddBlob(<<>>, 1)
  <2>1. Len(<<>>) = 0 /\ 1 > 0
    OBVIOUS
  <2>2. /\ ret' = ERR_BAD_PARAM /\ UNCHANGED buf
        /\ Remember([type |-> AF_RPC_TYPE_BLOB(1), base |-> <<>>])
        /\ UNCHANGED <<role, bufSize, ready, starts, cursor, reads>>
    BY <1>4, <2>1, Zenon DEF AddBlob
  <2>3. built' = built
    BY <2>2 DEF Remember, ERR_BAD_PARAM
  <2>4. starts' \in 0 .. MaxStarts
    BY <2>2 DEF WireInv, TypeOK
  <2> QED BY <2>2, <2>3, <2>4, RefuseKeeps
<1>5. ASSUME NEW n \in 0 .. MaxParams, NEW params \in [1 .. n -> Params], CreateBuffer(params) PROVE WireInv'
  <2>1. n \in Nat
    BY SizeAssumption
  <2> QED BY <1>5, <2>1, CreateBufferKeeps
<1>6. ASSUME NEW n \in 1 .. RxMax, NEW len \in n - 1 .. n + 1, NEW payload \in [1 .. n - 2 -> RxBytes],
             Receive(n, len, payload)
      PROVE  WireInv'
  BY <1>6, ReceiveKeeps
<1>7. ASSUME NEW type \in UintTypes \cup IntTypes, ReadInteger(type) PROVE WireInv'
  BY <1>7, ReadIntegerKeeps
<1>8. ASSUME NEW room \in 0 .. MaxBlob, NEW beyond \in {0, AF_RPC_TYPE_UINT8}, ReadBlob(room, beyond) PROVE WireInv'
  <2>1. room \in Nat /\ beyond \in Type16
    BY SizeAssumption DEF AF_RPC_TYPE_UINT8, Type16
  <2> QED BY <1>8, <2>1, ReadBlobKeeps
<1>9. CASE Rewind
  BY <1>9, RewindKeeps
<1>10. CASE UNCHANGED vars
  <2>1. UNCHANGED <<role, buf, bufSize, ready, starts, built, cursor, reads, ret>>
    BY <1>10 DEF vars
  <2>2. TypeOK'
    BY <2>1 DEF WireInv, TypeOK
  <2>3. BuiltInv'
    BY <2>1 DEF WireInv, BuiltInv
  <2>4. ReadInv'
    BY <2>1 DEF WireInv, ReadInv, ReadPos
  <2> QED BY <2>2, <2>3, <2>4 DEF WireInv
<1> QED BY <1>1, <1>2, <1>3, <1>4, <1>5, <1>6, <1>7, <1>8, <1>9, <1>10 DEF Next

(* The invariant holds in every behaviour *)
LEMMA WireInvAlways == Spec => []WireInv
BY WireInvInit, WireInvNext, PTL DEF Spec

(* Every variable of the codec keeps its type, whatever is added, created, *)
(* received or read: the position that an af_rpc_get_*_from_buffer_at_pos  *)
(* function leaves with its caller, and what any function returns, stay    *)
(* within the size of the buffer (TypeOK).                                 *)
THEOREM WireTypes == Spec => []TypeOK
<1>1. WireInv => TypeOK
  BY DEF WireInv
<1> QED BY <1>1, WireInvAlways, PTL

(* A message is its length, and the bodies of its parameters *)
LEMMA WireBytes ==
    ASSUME NEW b \in Cells, NEW ps \in Seq(GoodParams), BufSize >= 2,
           GetLen(b) = 2 + Len(Body(ps)), GetLen(b) <= BufSize, Carries(b, Body(ps))
    PROVE  BytesAt(b, 0, GetLen(b)) = Encoded(ps)
<1> DEFINE s == Body(ps)
           len == GetLen(b)
<1>1. b \in Cells /\ BufSize >= 2 /\ ps \in Seq(GoodParams) /\ len = 2 + Len(s) /\ len <= BufSize /\ Carries(b, s)
  OBVIOUS
<1>2. s \in Seq(Byte) /\ Len(s) \in Nat
  BY <1>1, BodyBytes
<1>3. Word(len) = <<b[0], b[1]>>
  <2>1. Word(WordAt(b, 0)) = <<b[0], b[0 + 1]>>
    BY <1>1, WordAtBytes, SizeAssumption, 0 \in Nat
  <2> QED BY <2>1 DEF GetLen
<1>4. Encoded(ps) = Word(len) \o s
  BY <1>1, Zenon DEF Encoded, Body, LENGTH_SIZE
<1> HIDE DEF s, len
<1>5. Word(len) \in Seq(Byte) /\ Len(Word(len)) = 2
  <2>1. len \in Type16
    BY <1>1, <1>2, SizeAssumption DEF Type16
  <2> QED BY <2>1, WordBytes
<1>6. Word(len)[1] = b[0] /\ Word(len)[2] = b[1]
  <2>1. \A x, y : <<x, y>>[1] = x /\ <<x, y>>[2] = y
    OBVIOUS
  <2> QED BY <1>3, <2>1
<1> DEFINE w == Word(len)
           whole == w \o s
<1> HIDE DEF w
<1>7. w \in Seq(Byte)
  BY <1>5 DEF w
<1>8. /\ whole \in Seq(Byte) /\ Len(whole) = Len(w) + Len(s)
      /\ \A i \in 1 .. Len(w) : whole[i] = w[i]
      /\ \A k \in 1 .. Len(s) : \A i \in Nat : i = Len(w) + k => whole[i] = s[k]
  BY <1>2, <1>7, Joins
<1> HIDE DEF whole
<1>9. Len(w) = 2 /\ Len(whole) = len /\ len \in Nat
  BY <1>1, <1>2, <1>5, <1>8 DEF w
<1>10. ASSUME NEW i \in 1 .. len PROVE whole[i] = b[0 + i - 1]
  <2>0. i \in Nat /\ 1 <= i /\ i <= 2 + Len(s)
    BY <1>1, <1>2
  <2>1. CASE i = 1
    <3>1. whole[1] = w[1]
      BY <1>8, <1>9
    <3> QED BY <1>6, <2>1, <3>1 DEF w
  <2>2. CASE i = 2
    <3>1. whole[2] = w[2]
      BY <1>8, <1>9
    <3> QED BY <1>6, <2>2, <3>1 DEF w
  <2>3. CASE i > 2
    <3>1. PICK k \in 1 .. Len(s) : i = 2 + k
      <4>1. i - 2 \in 1 .. Len(s) /\ i = 2 + (i - 2)
        BY <1>2, <2>0, <2>3
      <4> QED BY <4>1
    <3>2. i = Len(w) + k /\ 0 + i - 1 = k + 1
      BY <1>9, <3>1
    <3>3. whole[i] = s[k]
      BY <1>8, <2>0, <3>1, <3>2
    <3>4. b[k + 1] = s[k]
      BY <1>1, <3>1 DEF Carries
    <3> QED BY <3>2, <3>3, <3>4
  <2> QED BY <2>0, <2>1, <2>2, <2>3
<1>11. BytesAt(b, 0, len) = whole
  <2>1. whole = [i \in 1 .. len |-> whole[i]]
    <3>1. \A q \in Seq(Byte) : q = [k \in 1 .. Len(q) |-> q[k]]
      OBVIOUS
    <3>2. whole = [k \in 1 .. Len(whole) |-> whole[k]]
      BY <1>8, <3>1
    <3> QED BY <1>9, <3>2, Zenon
  <2> QED BY <1>10, <2>1 DEF BytesAt
<1>12. whole = Encoded(ps)
  BY <1>4 DEF whole, w
<1> QED BY <1>11, <1>12 DEF len

(* The invariant says that a buffer under construction is the wire form *)
LEMMA EncodingHere == WireInv => BufferIsEncoding
<1> SUFFICES ASSUME WireInv, role = "tx", ready
             PROVE  GetLen(buf) <= bufSize /\ BytesAt(buf, 0, GetLen(buf)) = Encoded(built)
  BY DEF BufferIsEncoding
<1>1. /\ buf \in Cells /\ bufSize = BufSize /\ BufSize >= 2 /\ built \in Seq(GoodParams)
      /\ GetLen(buf) = 2 + Len(Body(built)) /\ GetLen(buf) <= BufSize /\ Carries(buf, Body(built))
  BY DEF WireInv, BuiltInv, TypeOK, Cells
<1> QED BY <1>1, WireBytes

(* The add functions and af_rpc_create_buffer_with_params leave the wire   *)
(* form of exactly the accepted parameters in the buffer, in their order,  *)
(* also behind calls that failed (BufferIsEncoding).                       *)
THEOREM MessageAsBuilt == Spec => []BufferIsEncoding
BY WireInvAlways, EncodingHere, PTL

-----------------------------------------------------------------------------
(* Taking a message apart                                                  *)

(* What is found behind the bytes in front of it *)
LEMMA SplitCarries ==
    ASSUME NEW b, NEW s \in Seq(Byte), NEW t \in Type16, NEW v \in Seq(Byte),
           Carries(b, s \o Word(t) \o v)
    PROVE  /\ Carries(b, s) /\ WordAt(b, 2 + Len(s)) = t
           /\ BytesAt(b, 2 + Len(s) + 2, Len(v)) = v
<1> DEFINE n == Len(s)
           w == Word(t)
           whole == s \o w \o v
<1>1. w \in Seq(Byte) /\ Len(w) = 2 /\ 256 * w[1] + w[2] = t
  BY WordBytes
<1> HIDE DEF w
<1>1a. w \in Seq(Byte)
  BY <1>1
<1>2. /\ Len(whole) = n + Len(w) + Len(v)
      /\ \A i \in 1 .. n : whole[i] = s[i]
      /\ \A k \in 1 .. Len(w) : \A i \in Nat : i = n + k => whole[i] = w[k]
      /\ \A k \in 1 .. Len(v) : \A i \in Nat : i = n + Len(w) + k => whole[i] = v[k]
  BY <1>1a, Joined
<1>3. \A i \in 1 .. Len(whole) : b[i + 1] = whole[i]
  BY DEF Carries, w
<1> HIDE DEF whole
<1>4. n \in Nat /\ Len(v) \in Nat
  OBVIOUS
<1> HIDE DEF n
<1>5. Carries(b, s)
  <2>1. \A i \in 1 .. n : i \in 1 .. Len(whole)
    BY <1>1, <1>2, <1>4
  <2>2. \A i \in 1 .. n : b[i + 1] = s[i]
    BY <1>2, <1>3, <2>1
  <2> QED BY <2>2 DEF Carries, n
<1>6. WordAt(b, 2 + n) = t
  <2>1. whole[n + 1] = w[1] /\ whole[n + 2] = w[2]
    <3>1. 1 \in 1 .. Len(w) /\ 2 \in 1 .. Len(w) /\ n + 1 \in Nat /\ n + 2 \in Nat
      BY <1>1, <1>4
    <3> QED BY <1>2, <3>1
  <2>2. n + 1 \in 1 .. Len(whole) /\ n + 2 \in 1 .. Len(whole)
    BY <1>1, <1>2, <1>4
  <2>3. b[n + 1 + 1] = w[1] /\ b[n + 2 + 1] = w[2]
    BY <1>3, <2>1, <2>2
  <2>4. n + 1 + 1 = 2 + n /\ n + 2 + 1 = 2 + n + 1
    BY <1>4
  <2> QED BY <1>1, <2>3, <2>4 DEF WordAt
<1>7. ASSUME NEW i \in 1 .. Len(v) PROVE b[2 + n + 2 + i - 1] = v[i]
  <2>1. n + Len(w) + i \in Nat /\ n + Len(w) + i \in 1 .. Len(whole) /\ n + Len(w) + i + 1 = 2 + n + 2 + i - 1
    BY <1>1, <1>2, <1>4
  <2>2. whole[n + Len(w) + i] = v[i]
    BY <1>2, <2>1
  <2>3. b[n + Len(w) + i + 1] = whole[n + Len(w) + i]
    BY <1>3, <2>1
  <2> QED BY <2>1, <2>2, <2>3
<1>8. BytesAt(b, 2 + n + 2, Len(v)) = v
  <2>1. v = [i \in 1 .. Len(v) |-> v[i]]
    OBVIOUS
  <2> QED BY <1>7, <2>1 DEF BytesAt
<1> QED BY <1>5, <1>6, <1>8 DEF n

(* Every front part of a message is a message *)
LEMMA FrontCarries ==
    ASSUME NEW b, NEW ps \in Seq(GoodParams), Carries(b, Body(ps))
    PROVE  \A n \in 0 .. Len(ps) :
              Carries(b, Bodies(ps)[n]) /\ Len(Bodies(ps)[n]) <= Len(Body(ps))
<1> DEFINE Front(n) == Carries(b, Bodies(ps)[n]) /\ Len(Bodies(ps)[n]) <= Len(Body(ps))
           S == {j \in Nat : \A n \in 0 .. Len(ps) : n + j = Len(ps) => Front(n)}
<1>1. 0 \in S
  <2>1. Bodies(ps)[Len(ps)] = Body(ps) /\ Body(ps) \in Seq(Byte)
    BY BodyBytes DEF Body
  <2>2. Len(Body(ps)) <= Len(Body(ps))
    BY <2>1
  <2>3. Front(Len(ps))
    BY <2>1, <2>2
  <2> HIDE DEF Front
  <2>4. \A n \in 0 .. Len(ps) : n + 0 = Len(ps) => n = Len(ps)
    OBVIOUS
  <2> QED BY <2>3, <2>4
<1>2. ASSUME NEW j \in Nat, j \in S PROVE j + 1 \in S
  <2> SUFFICES ASSUME NEW n \in 0 .. Len(ps), n + (j + 1) = Len(ps) PROVE Front(n)
    OBVIOUS
  <2>1. n \in Nat /\ n < Len(ps) /\ n + 1 \in 0 .. Len(ps) /\ n + 1 \in 1 .. Len(ps) /\ (n + 1) + j = Len(ps)
    OBVIOUS
  <2>2. Front(n + 1)
    <3> HIDE DEF Front
    <3> QED BY <1>2, <2>1
  <2>3. ps[n + 1] \in GoodParams
    BY <2>1
  <2>4. Bodies(ps)[n + 1] = Bodies(ps)[n] \o Word(ps[n + 1].type) \o ValueOf(ps[n + 1])
    BY <2>1, BodiesUnfold, Zenon
  <2>5. ps[n + 1].type \in Type16 /\ ValueOf(ps[n + 1]) \in Seq(Byte) /\ Bodies(ps)[n] \in Seq(Byte)
    BY <2>3, GoodValue, BodiesBytes
  <2>6. Carries(b, Bodies(ps)[n] \o Word(ps[n + 1].type) \o ValueOf(ps[n + 1]))
    BY <2>2, <2>4
  <2>7. Carries(b, Bodies(ps)[n])
    BY <2>5, <2>6, SplitCarries
  <2>8. Word(ps[n + 1].type) \in Seq(Byte)
    BY <2>5, WordBytes
  <2>9. Len(Bodies(ps)[n + 1]) = Len(Bodies(ps)[n]) + Len(Word(ps[n + 1].type)) + Len(ValueOf(ps[n + 1]))
    BY <2>4, <2>5, <2>8, Joined
  <2>10. /\ Len(Word(ps[n + 1].type)) \in Nat /\ Len(ValueOf(ps[n + 1])) \in Nat
         /\ Len(Bodies(ps)[n]) \in Nat /\ Len(Body(ps)) \in Nat
    BY <2>5, <2>8, BodyBytes
  <2>11. Len(Bodies(ps)[n]) <= Len(Body(ps))
    <3>1. Len(Bodies(ps)[n + 1]) <= Len(Body(ps))
      BY <2>2
    <3> DEFINE x == Len(Bodies(ps)[n])
               y == Len(Word(ps[n + 1].type))
               z == Len(ValueOf(ps[n + 1]))
               k == Len(Body(ps))
    <3>2. x \in Nat /\ y \in Nat /\ z \in Nat /\ k \in Nat
      BY <2>10
    <3>3. x + y + z <= k
      BY <2>9, <3>1, Zenon
    <3> HIDE DEF x, y, z, k
    <3>4. x <= k
      BY <3>2, <3>3
    <3> QED BY <3>4 DEF x, k
  <2> QED BY <2>7, <2>11
<1>3. Nat \subseteq S
  <2> HIDE DEF S
  <2> QED BY <1>1, <1>2, SetInduction
<1>4. ASSUME NEW n \in 0 .. Len(ps) PROVE Front(n)
  <2>1. Len(ps) - n \in Nat /\ n + (Len(ps) - n) = Len(ps)
    OBVIOUS
  <2> HIDE DEF Front
  <2> QED BY <1>3, <2>1
<1> QED BY <1>4

-----------------------------------------------------------------------------
(* The loop of af_rpc_get_params_from_buffer: its states, and what a round *)
(* makes of one.                                                           *)
ParseStates ==
    {st \in [pos : Nat, params : Seq(GoodParams), stopped : BOOLEAN, ret : {0, ERR_BAD_TYPE, ERR_BAD_TLV}] :
        ~st.stopped => st.ret = 0}

Stopped(st, e) == [pos |-> st.pos, params |-> st.params, stopped |-> TRUE, ret |-> e]

Took(st, size, p) ==
    [pos |-> st.pos + TYPE_SIZE + size, params |-> Append(st.params, p), stopped |-> FALSE, ret |-> 0]

(* The states of the loop, and what the EXCEPTs of ParseStep make of them *)
LEMMA ParseUpdates ==
    ASSUME NEW st \in ParseStates
    PROVE  /\ st.pos \in Nat /\ st.params \in Seq(GoodParams) /\ st.stopped \in BOOLEAN
           /\ st.ret \in {0, ERR_BAD_TYPE, ERR_BAD_TLV} /\ (~st.stopped => st.ret = 0)
           /\ st = [pos |-> st.pos, params |-> st.params, stopped |-> st.stopped, ret |-> st.ret]
           /\ \A e : [st EXCEPT !.stopped = TRUE, !.ret = e] = Stopped(st, e)
           /\ \A x, y : [st EXCEPT !.pos = x, !.params = y]
                          = [pos |-> x, params |-> y, stopped |-> st.stopped, ret |-> st.ret]
<1>1. st \in [pos : Nat, params : Seq(GoodParams), stopped : BOOLEAN, ret : {0, ERR_BAD_TYPE, ERR_BAD_TLV}]
  BY DEF ParseStates
<1>2. st.stopped \in BOOLEAN
  BY <1>1, Zenon
<1>3. ~st.stopped => st.ret = 0
  BY Zenon DEF ParseStates
<1>4. /\ st.pos \in Nat /\ st.params \in Seq(GoodParams) /\ st.ret \in {0, ERR_BAD_TYPE, ERR_BAD_TLV}
  BY <1>1
<1>5. st = [pos |-> st.pos, params |-> st.params, stopped |-> st.stopped, ret |-> st.ret]
  BY <1>1
<1>6. ASSUME NEW e PROVE [st EXCEPT !.stopped = TRUE, !.ret = e] = Stopped(st, e)
  <2> DEFINE r == [st EXCEPT !.stopped = TRUE]
  <2>1. /\ r \in [pos : Nat, params : Seq(GoodParams), stopped : {TRUE}, ret : {0, ERR_BAD_TYPE, ERR_BAD_TLV}]
        /\ r.pos = st.pos /\ r.params = st.params
    BY <1>1
  <2>1a. r.stopped = TRUE
    BY <2>1, Zenon
  <2>2. [st EXCEPT !.stopped = TRUE, !.ret = e] = [r EXCEPT !.ret = e]
    OBVIOUS
  <2> HIDE DEF r
  <2>3. [r EXCEPT !.ret = e] = [pos |-> r.pos, params |-> r.params, stopped |-> r.stopped, ret |-> e]
    BY <2>1
  <2> QED BY <2>1, <2>1a, <2>2, <2>3, Zenon DEF Stopped
<1>7. ASSUME NEW x, NEW y
      PROVE [st EXCEPT !.pos = x, !.params = y]
              = [pos |-> x, params |-> y, stopped |-> st.stopped, ret |-> st.ret]
  <2> DEFINE r == [st EXCEPT !.pos = x]
  <2>1. /\ r \in [pos : {x}, params : Seq(GoodParams), stopped : BOOLEAN, ret : {0, ERR_BAD_TYPE, ERR_BAD_TLV}]
        /\ r.stopped = st.stopped /\ r.ret = st.ret
    BY <1>1
  <2>2. [st EXCEPT !.pos = x, !.params = y] = [r EXCEPT !.params = y]
    OBVIOUS
  <2> HIDE DEF r
  <2>3. [r EXCEPT !.params = y] = [pos |-> x, params |-> y, stopped |-> r.stopped, ret |-> r.ret]
    BY <2>1
  <2> QED BY <2>1, <2>2, <2>3
<1> QED BY <1>2, <1>3, <1>4, <1>5, <1>6, <1>7, Zenon

(* A round that takes a parameter *)
LEMMA ParseTakes ==
    ASSUME NEW st \in ParseStates, NEW b, NEW len, NEW exp, NEW permissive, NEW t, t = WordAt(b, st.pos),
           ~st.stopped, ~(st.pos >= len), ~(Len(st.params) + 1 > Len(exp)),
           ~(st.pos + TYPE_SIZE > len), ~(st.pos + TYPE_SIZE + SizeOfType(t) > len),
           IsInteger(t) => ~HasExtraBits(t) /\ ~(SizeOfType(t) < 0),
           permissive \/ (IsInteger(exp[Len(st.params) + 1]) <=> IsInteger(t)),
           permissive \/ ~IsInteger(t) \/ exp[Len(st.params) + 1] = t
    PROVE  ParseStep(st, b, len, exp, permissive)
             = Took(st, SizeOfType(t),
                    TakenAs([type |-> t, value |-> BytesAt(b, st.pos + TYPE_SIZE, SizeOfType(t))]))
<1> DEFINE size == SizeOfType(t)
           v == BytesAt(b, st.pos + TYPE_SIZE, size)
           next == ParseStep(st, b, len, exp, permissive)
           taken(base) == [st EXCEPT !.pos = st.pos + TYPE_SIZE + size,
                                     !.params = Append(st.params, [type |-> t, base |-> base])]
<1>1. ASSUME NEW base PROVE taken(base) = Took(st, size, [type |-> t, base |-> base])
  <2> DEFINE x == st.pos + TYPE_SIZE + size
             y == Append(st.params, [type |-> t, base |-> base])
  <2>1. taken(base) = [pos |-> x, params |-> y, stopped |-> st.stopped, ret |-> st.ret]
    <3>1. \A u, w : [st EXCEPT !.pos = u, !.params = w]
                       = [pos |-> u, params |-> w, stopped |-> st.stopped, ret |-> st.ret]
      BY ParseUpdates, Zenon
    <3>2. [st EXCEPT !.pos = x, !.params = y]
            = [pos |-> x, params |-> y, stopped |-> st.stopped, ret |-> st.ret]
      <4> HIDE DEF x, y
      <4> QED BY <3>1, Zenon
    <3> QED BY <3>2
  <2>2. st.stopped = FALSE /\ st.ret = 0
    BY ParseUpdates, Zenon
  <2> QED BY <2>1, <2>2, Zenon DEF Took
<1>2. CASE IsInteger(t)
  <2>1. next = taken(Widen(t, v))
    BY <1>2, Zenon DEF ParseStep
  <2>2. TakenAs([type |-> t, value |-> v]) = [type |-> t, base |-> Widen(t, v)]
    <3> HIDE DEF v
    <3> QED BY <1>2 DEF TakenAs
  <2> HIDE DEF next, taken, v, size
  <2>3. next = Took(st, size, TakenAs([type |-> t, value |-> v]))
    BY <1>1, <2>1, <2>2, Zenon
  <2> QED BY <2>3 DEF next, size, v
<1>3. CASE ~IsInteger(t)
  <2>1. next = taken(v)
    BY <1>3, Zenon DEF ParseStep
  <2>2. TakenAs([type |-> t, value |-> v]) = [type |-> t, base |-> v]
    <3> HIDE DEF v
    <3> QED BY <1>3 DEF TakenAs
  <2> HIDE DEF next, taken, v, size
  <2>3. next = Took(st, size, TakenAs([type |-> t, value |-> v]))
    BY <1>1, <2>1, <2>2, Zenon
  <2> QED BY <2>3 DEF next, size, v
<1> QED BY <1>2, <1>3

(* All that a round can do *)
LEMMA ParseOutcome ==
    ASSUME NEW st \in ParseStates, NEW b, NEW len, NEW exp, NEW permissive, NEW t, t = WordAt(b, st.pos)
    PROVE  LET next == ParseStep(st, b, len, exp, permissive)
           IN  \/ next = st /\ (st.stopped \/ st.pos >= len)
               \/ next = Stopped(st, 0) /\ Len(st.params) + 1 > Len(exp)
               \/ next \in {Stopped(st, ERR_BAD_TYPE), Stopped(st, ERR_BAD_TLV)}
               \/ /\ ~st.stopped /\ ~(st.pos >= len) /\ ~(Len(st.params) + 1 > Len(exp))
                  /\ ~(st.pos + TYPE_SIZE > len) /\ ~(st.pos + TYPE_SIZE + SizeOfType(t) > len)
                  /\ IsInteger(t) => ~HasExtraBits(t) /\ ~(SizeOfType(t) < 0)
                  /\ next = Took(st, SizeOfType(t),
                        TakenAs([type |-> t, value |-> BytesAt(b, st.pos + TYPE_SIZE, SizeOfType(t))]))
<1> DEFINE size == SizeOfType(t)
           next == ParseStep(st, b, len, exp, permissive)
           Goal == \/ next = st /\ (st.stopped \/ st.pos >= len)
                   \/ next = Stopped(st, 0) /\ Len(st.params) + 1 > Len(exp)
                   \/ next \in {Stopped(st, ERR_BAD_TYPE), Stopped(st, ERR_BAD_TLV)}
                   \/ /\ ~st.stopped /\ ~(st.pos >= len) /\ ~(Len(st.params) + 1 > Len(exp))
                      /\ ~(st.pos + TYPE_SIZE > len) /\ ~(st.pos + TYPE_SIZE + size > len)
                      /\ IsInteger(t) => ~HasExtraBits(t) /\ ~(size < 0)
                      /\ next = Took(st, size,
                            TakenAs([type |-> t, value |-> BytesAt(b, st.pos + TYPE_SIZE, size)]))
<1> SUFFICES Goal
  OBVIOUS
<1>1. CASE st.stopped \/ st.pos >= len
  BY <1>1, Zenon DEF ParseStep
<1> DEFINE Runs == ~st.stopped /\ ~(st.pos >= len)
<1>2. CASE Runs /\ Len(st.params) + 1 > Len(exp)
  <2>1. next = [st EXCEPT !.stopped = TRUE, !.ret = 0]
    BY <1>2, Zenon DEF ParseStep
  <2>2. next = Stopped(st, 0)
    BY <2>1, ParseUpdates, Zenon
  <2> HIDE DEF next
  <2> QED BY <1>2, <2>2, Zenon
<1> DEFINE Room == Runs /\ ~(Len(st.params) + 1 > Len(exp))
<1>3. CASE Room /\ (st.pos + TYPE_SIZE > len \/ st.pos + TYPE_SIZE + size > len)
  <2>1. next = [st EXCEPT !.stopped = TRUE, !.ret = ERR_BAD_TLV]
    BY <1>3, Zenon DEF ParseStep
  <2>2. next = Stopped(st, ERR_BAD_TLV)
    BY <2>1, ParseUpdates, Zenon
  <2> HIDE DEF next
  <2> QED BY <2>2, Zenon
<1> DEFINE Fits == Room /\ ~(st.pos + TYPE_SIZE > len) /\ ~(st.pos + TYPE_SIZE + size > len)
           other == exp[Len(st.params) + 1]
           Bad == \/ IsInteger(t) /\ (HasExtraBits(t) \/ (~permissive /\ other # t) \/ size < 0)
                  \/ ~IsInteger(t) /\ ~permissive /\ IsInteger(other)
<1>4. CASE Fits /\ Bad
  <2>1. next = [st EXCEPT !.stopped = TRUE, !.ret = ERR_BAD_TYPE]
    <3>1. CASE IsInteger(t)
      BY <1>4, <3>1, Zenon DEF ParseStep
    <3>2. CASE ~IsInteger(t)
      BY <1>4, <3>2, Zenon DEF ParseStep
    <3> QED BY <3>1, <3>2
  <2>2. next = Stopped(st, ERR_BAD_TYPE)
    BY <2>1, ParseUpdates, Zenon
  <2> HIDE DEF next
  <2> QED BY <2>2, Zenon
<1>5. CASE Fits /\ ~Bad
  <2>1. /\ permissive \/ (IsInteger(other) <=> IsInteger(t))
        /\ permissive \/ ~IsInteger(t) \/ other = t
    BY <1>5, Zenon
  <2>2. IsInteger(t) => ~HasExtraBits(t) /\ ~(size < 0)
    BY <1>5, Zenon
  <2>3. next = Took(st, size, TakenAs([type |-> t, value |-> BytesAt(b, st.pos + TYPE_SIZE, size)]))
    BY <1>5, <2>1, <2>2, ParseTakes, Zenon
  <2> HIDE DEF next
  <2> QED BY <1>5, <2>2, <2>3, Zenon
<1> HIDE DEF Goal
<1> QED BY <1>1, <1>2, <1>3, <1>4, <1>5, Zenon

-----------------------------------------------------------------------------
(* What was built is read back                                             *)

(* A good parameter is what is taken from its wire form *)
LEMMA TakenIsIt ==
    ASSUME NEW p \in GoodParams
    PROVE  TakenAs([type |-> p.type, value |-> ValueOf(p)]) = p
<1> DEFINE r == [type |-> p.type, value |-> ValueOf(p)]
<1>1. r.type = p.type /\ r.value = ValueOf(p)
  OBVIOUS
<1> HIDE DEF r
<1>2. /\ p = [type |-> p.type, base |-> p.base]
      /\ IsInteger(p.type) => Widen(p.type, ValueOf(p)) = p.base
      /\ ~IsInteger(p.type) => ValueOf(p) = p.base
  BY GoodValue
<1>3. (IF IsInteger(r.type) THEN Widen(r.type, r.value) ELSE r.value) = p.base
  BY <1>1, <1>2
<1>4. TakenAs(r) = [type |-> p.type, base |-> p.base]
  BY <1>1, <1>3, Zenon DEF TakenAs
<1> QED BY <1>2, <1>4 DEF r

(* The state after a parameter was taken *)
LEMMA TookState ==
    ASSUME NEW st \in ParseStates, NEW size \in Nat, NEW p \in GoodParams
    PROVE  /\ Took(st, size, p) \in ParseStates /\ ~Took(st, size, p).stopped
           /\ Took(st, size, p).pos = st.pos + 2 + size
           /\ Took(st, size, p).params = Append(st.params, p)
<1> DEFINE next == Took(st, size, p)
<1> DEFINE all == Append(st.params, p)
<1>1. st.pos \in Nat /\ st.params \in Seq(GoodParams)
  BY ParseUpdates
<1>2. all \in Seq(GoodParams)
  BY <1>1
<1>3. next = [pos |-> st.pos + TYPE_SIZE + size, params |-> all, stopped |-> FALSE, ret |-> 0]
  BY DEF Took
<1> HIDE DEF all, next
<1>4. ~next.stopped
  BY <1>3, Zenon
<1>5. next.pos = st.pos + 2 + size /\ next.params = all
  BY <1>3 DEF TYPE_SIZE
<1>6. next \in ParseStates
  <2>1. st.pos + TYPE_SIZE + size \in Nat
    BY <1>1 DEF TYPE_SIZE
  <2>2. next \in [pos : Nat, params : Seq(GoodParams), stopped : BOOLEAN, ret : {0, ERR_BAD_TYPE, ERR_BAD_TLV}]
    BY <1>2, <1>3, <2>1
  <2>3. next.ret = 0
    BY <1>3
  <2> QED BY <2>2, <2>3, Zenon DEF ParseStates
<1>7. next.params = Append(st.params, p)
  BY <1>5 DEF all
<1> QED BY <1>4, <1>5, <1>6, <1>7, Zenon DEF next

-----------------------------------------------------------------------------
(* The loop has found the first n parameters of ps *)
Follows(st, ps, n) ==
    /\ st \in ParseStates /\ ~st.stopped
    /\ Len(st.params) = n /\ \A k \in 1 .. n : st.params[k] = ps[k]
    /\ st.pos = 2 + Len(Bodies(ps)[n])

(* A round finds the next parameter *)
LEMMA FollowStep ==
    ASSUME NEW b, NEW ps \in Seq(GoodParams), Carries(b, Body(ps)),
           NEW len \in Nat, 2 + Len(Body(ps)) <= len,
           NEW exp, Len(exp) \in Nat, Len(ps) <= Len(exp),
           NEW permissive, permissive \/ \A k \in 1 .. Len(ps) : exp[k] = ps[k].type,
           NEW n \in Nat, n < Len(ps), NEW st, Follows(st, ps, n)
    PROVE  Follows(ParseStep(st, b, len, exp, permissive), ps, n + 1)
<1> DEFINE p == ps[n + 1]
           t == p.type
           size == SizeOfType(t)
           s == Bodies(ps)[n]
           next == ParseStep(st, b, len, exp, permissive)
<1>1. n + 1 \in 1 .. Len(ps) /\ n + 1 \in 0 .. Len(ps) /\ n \in 0 .. Len(ps) /\ p \in GoodParams
  OBVIOUS
<1>2. /\ t \in Type16 /\ ValueOf(p) \in Seq(Byte) /\ Len(ValueOf(p)) = size /\ size \in Nat
      /\ IsInteger(t) => ~HasExtraBits(t)
  BY <1>1, GoodValue
<1>3. Bodies(ps)[n + 1] = s \o Word(t) \o ValueOf(p)
  BY <1>1, BodiesUnfold, Zenon
<1>4. s \in Seq(Byte) /\ Len(s) \in Nat
  BY <1>1, BodiesBytes
<1>5. Carries(b, s \o Word(t) \o ValueOf(p)) /\ Len(Bodies(ps)[n + 1]) <= Len(Body(ps))
  BY <1>1, <1>3, FrontCarries
<1> HIDE DEF p, size, s, t, next
<1>6. WordAt(b, 2 + Len(s)) = t /\ BytesAt(b, 2 + Len(s) + 2, size) = ValueOf(p)
  BY <1>2, <1>4, <1>5, SplitCarries
<1>7. Len(Bodies(ps)[n + 1]) = Len(s) + 2 + size
  <2>1. Word(t) \in Seq(Byte) /\ Len(Word(t)) = 2
    BY <1>2, WordBytes
  <2> DEFINE w == Word(t)
             v == ValueOf(p)
  <2>1a. w \in Seq(Byte) /\ v \in Seq(Byte)
    BY <1>2, <2>1
  <2> HIDE DEF w, v
  <2>1b. Len(s \o w \o v) = Len(s) + Len(w) + Len(v)
    BY <1>4, <2>1a, Joined
  <2>2. Len(s \o Word(t) \o ValueOf(p)) = Len(s) + Len(Word(t)) + Len(ValueOf(p))
    BY <2>1b DEF w, v
  <2> QED BY <1>2, <1>3, <2>1, <2>2
<1>8. st \in ParseStates /\ ~st.stopped /\ Len(st.params) = n /\ st.pos = 2 + Len(s)
  BY Zenon DEF Follows, s
<1>9. Len(Body(ps)) \in Nat
  BY BodyBytes
<1>10. /\ ~(st.pos >= len) /\ ~(Len(st.params) + 1 > Len(exp))
       /\ ~(st.pos + TYPE_SIZE > len) /\ ~(st.pos + TYPE_SIZE + size > len) /\ ~(size < 0)
       /\ st.pos + TYPE_SIZE = 2 + Len(s) + 2
  <2>1. Len(s) + 2 + size <= Len(Body(ps))
    BY <1>5, <1>7
  <2> DEFINE whole == Len(Body(ps))
             front == Len(s)
  <2>2. /\ whole \in Nat /\ front \in Nat /\ front + 2 + size <= whole /\ 2 + whole <= len
        /\ st.pos = 2 + front
    BY <1>4, <1>8, <1>9, <2>1
  <2> HIDE DEF whole, front
  <2>3. /\ ~(st.pos >= len) /\ ~(st.pos + TYPE_SIZE > len) /\ ~(st.pos + TYPE_SIZE + size > len) /\ ~(size < 0)
        /\ st.pos + TYPE_SIZE = 2 + front + 2
    BY <1>2, <2>2 DEF TYPE_SIZE
  <2>4. ~(Len(st.params) + 1 > Len(exp))
    BY <1>8
  <2> QED BY <2>3, <2>4, Zenon DEF front
<1>11. permissive \/ exp[Len(st.params) + 1] = t
  BY <1>1, <1>8, Zenon DEF t, p
<1>12. t = WordAt(b, st.pos) /\ BytesAt(b, st.pos + TYPE_SIZE, size) = ValueOf(p)
  BY <1>6, <1>8, <1>10, Zenon
<1>13. next = Took(st, size, TakenAs([type |-> t, value |-> BytesAt(b, st.pos + TYPE_SIZE, size)]))
  <2>1. permissive \/ (IsInteger(exp[Len(st.params) + 1]) <=> IsInteger(t))
    BY <1>11, Zenon
  <2>2. permissive \/ ~IsInteger(t) \/ exp[Len(st.params) + 1] = t
    BY <1>11, Zenon
  <2>3. IsInteger(t) => ~HasExtraBits(t) /\ ~(size < 0)
    BY <1>2, <1>10, Zenon
  <2> QED BY <1>8, <1>10, <1>12, <2>1, <2>2, <2>3, ParseTakes, Zenon DEF size, next
<1>14. next = Took(st, size, p)
  <2>1. TakenAs([type |-> t, value |-> ValueOf(p)]) = p
    BY <1>1, TakenIsIt DEF t
  <2> QED BY <1>12, <1>13, <2>1, Zenon
<1>15. /\ next \in ParseStates /\ ~next.stopped /\ next.pos = st.pos + 2 + size
       /\ Len(next.params) = n + 1 /\ next.params[n + 1] = p
       /\ \A k \in 1 .. n : next.params[k] = st.params[k]
  <2>1. p \in GoodParams /\ size \in Nat /\ st \in ParseStates /\ n = Len(st.params)
    BY <1>1, <1>2, <1>8 DEF p
  <2>2. next \in ParseStates /\ ~next.stopped
    BY <1>14, <2>1, TookState, Zenon
  <2>3. next.pos = st.pos + 2 + size
    BY <1>14, <2>1, TookState
  <2>4. next.params = Append(st.params, p)
    BY <1>14, <2>1, TookState
  <2> DEFINE old == st.params
             all == Append(old, p)
  <2>5. old \in Seq(GoodParams) /\ Len(old) = n
    BY <2>1, ParseUpdates
  <2> HIDE DEF old
  <2>6. Len(all) = n + 1 /\ all[n + 1] = p /\ \A k \in 1 .. n : all[k] = old[k]
    BY <2>1, <2>5
  <2> HIDE DEF all
  <2>7. next.params = all
    BY <2>4 DEF all, old
  <2>8. Len(next.params) = n + 1 /\ next.params[n + 1] = p /\ \A k \in 1 .. n : next.params[k] = old[k]
    BY <2>6, <2>7
  <2> QED BY <2>2, <2>3, <2>8, Zenon DEF old
<1>16. \A k \in 1 .. n + 1 : next.params[k] = ps[k]
  <2>1. \A k \in 1 .. n : st.params[k] = ps[k]
    BY Zenon DEF Follows
  <2>2. \A k \in 1 .. n + 1 : k = n + 1 \/ k \in 1 .. n
    OBVIOUS
  <2> QED BY <1>15, <2>1, <2>2, Zenon DEF p
<1>17. next.pos = 2 + Len(Bodies(ps)[n + 1])
  BY <1>2, <1>4, <1>7, <1>8, <1>15
<1> QED BY <1>15, <1>16, <1>17, Zenon DEF Follows, next

(* Before the first round the loop has found no parameter *)
LEMMA FollowStart ==
    ASSUME NEW ps \in Seq(GoodParams)
    PROVE  Follows([pos |-> LENGTH_SIZE, params |-> <<>>, stopped |-> FALSE, ret |-> 0], ps, 0)
<1> DEFINE st == [pos |-> LENGTH_SIZE, params |-> <<>>, stopped |-> FALSE, ret |-> 0]
<1>1. st.pos = 2 /\ st.params = <<>> /\ st.ret = 0
  BY DEF LENGTH_SIZE
<1>2. ~st.stopped
  BY Zenon
<1>3. st \in [pos : Nat, params : Seq(GoodParams), stopped : BOOLEAN, ret : {0, ERR_BAD_TYPE, ERR_BAD_TLV}]
  BY DEF LENGTH_SIZE
<1> HIDE DEF st
<1>4. st \in ParseStates
  BY <1>1, <1>3, Zenon DEF ParseStates
<1>5. Bodies(ps)[0] = <<>>
  BY BodiesUnfold
<1>6. Len(st.params) = 0 /\ st.pos = 2 + Len(Bodies(ps)[0]) /\ \A k \in 1 .. 0 : st.params[k] = ps[k]
  BY <1>1, <1>5
<1> QED BY <1>2, <1>4, <1>6, Zenon DEF Follows, st

(* Read with room for them all, the parameters of a message are found in   *)
(* order, whatever follows them.                                           *)
LEMMA RoundsFollow ==
    ASSUME NEW b, NEW ps \in Seq(GoodParams), Carries(b, Body(ps)),
           GetLen(b) \in Nat, 2 + Len(Body(ps)) <= GetLen(b),
           NEW exp, Len(exp) \in Nat, Len(ps) <= Len(exp),
           NEW permissive, permissive \/ \A k \in 1 .. Len(ps) : exp[k] = ps[k].type
    PROVE  Len(ps) <= GetLen(b) /\ Follows(Rounds(b, exp, permissive)[Len(ps)], ps, Len(ps))
<1> DEFINE round == Rounds(b, exp, permissive)
           S == {n \in Nat : n <= Len(ps) => Follows(round[n], ps, n)}
<1>1. Len(ps) \in Nat /\ Len(ps) <= GetLen(b)
  BY BodyBytes
<1>2. /\ round[0] = [pos |-> LENGTH_SIZE, params |-> <<>>, stopped |-> FALSE, ret |-> 0]
      /\ \A n \in Nat : n < GetLen(b) => round[n + 1] = ParseStep(round[n], b, GetLen(b), exp, permissive)
  BY RoundsUnfold, Zenon
<1> HIDE DEF round
<1>3. 0 \in S
  BY <1>2, FollowStart
<1>4. ASSUME NEW n \in Nat, n \in S PROVE n + 1 \in S
  <2> SUFFICES ASSUME n + 1 <= Len(ps) PROVE Follows(round[n + 1], ps, n + 1)
    OBVIOUS
  <2>1. n < Len(ps) /\ n < GetLen(b) /\ Follows(round[n], ps, n)
    BY <1>1, <1>4
  <2>2. round[n + 1] = ParseStep(round[n], b, GetLen(b), exp, permissive)
    BY <1>2, <2>1
  <2>3. Follows(ParseStep(round[n], b, GetLen(b), exp, permissive), ps, n + 1)
    BY <2>1, FollowStep, Zenon
  <2> QED BY <2>2, <2>3
<1>5. Nat \subseteq S
  <2> HIDE DEF S
  <2> QED BY <1>3, <1>4, SetInduction
<1>6. Follows(round[Len(ps)], ps, Len(ps))
  BY <1>1, <1>5
<1> QED BY <1>1, <1>6 DEF round

(* Once it has come to the end the loop stays there *)
LEMMA RoundsRest ==
    ASSUME NEW b, GetLen(b) \in Nat, NEW exp, NEW permissive, NEW m \in Nat, m <= GetLen(b),
           \/ Rounds(b, exp, permissive)[m].stopped
           \/ Rounds(b, exp, permissive)[m].pos >= GetLen(b)
    PROVE  Rounds(b, exp, permissive)[GetLen(b)] = Rounds(b, exp, permissive)[m]
<1> DEFINE round == Rounds(b, exp, permissive)
           S == {n \in Nat : m + n <= GetLen(b) => round[m + n] = round[m]}
<1>1. \A n \in Nat : n < GetLen(b) => round[n + 1] = ParseStep(round[n], b, GetLen(b), exp, permissive)
  BY RoundsUnfold, Zenon
<1>2. round[m].stopped \/ round[m].pos >= GetLen(b)
  OBVIOUS
<1> HIDE DEF round
<1>3. 0 \in S
  OBVIOUS
<1>4. ASSUME NEW n \in Nat, n \in S PROVE n + 1 \in S
  <2> SUFFICES ASSUME m + (n + 1) <= GetLen(b) PROVE round[m + (n + 1)] = round[m]
    OBVIOUS
  <2>1. m + n \in Nat /\ m + n < GetLen(b) /\ m + (n + 1) = (m + n) + 1 /\ round[m + n] = round[m]
    BY <1>4
  <2>2. round[m + (n + 1)] = ParseStep(round[m], b, GetLen(b), exp, permissive)
    BY <1>1, <2>1
  <2>3. ParseStep(round[m], b, GetLen(b), exp, permissive) = round[m]
    BY <1>2, Zenon DEF ParseStep
  <2> QED BY <2>2, <2>3
<1>5. Nat \subseteq S
  <2> HIDE DEF S
  <2> QED BY <1>3, <1>4, SetInduction
<1>6. GetLen(b) - m \in Nat /\ m + (GetLen(b) - m) = GetLen(b)
  OBVIOUS
<1>7. round[m + (GetLen(b) - m)] = round[m]
  BY <1>5, <1>6
<1> QED BY <1>6, <1>7 DEF round

(* The invariant makes a message parse to what was built *)
LEMMA RoundTripHere == WireInv => RoundTrip
<1> SUFFICES ASSUME WireInv, role = "tx", ready, NEW permissive \in BOOLEAN
             PROVE  GetParams(buf, GetLen(buf), [k \in DOMAIN built |-> built[k].type], permissive)
                      = [ret |-> Len(built), params |-> built]
  BY Zenon DEF RoundTrip
<1> DEFINE exp == [k \in DOMAIN built |-> built[k].type]
           len == GetLen(buf)
           end == Rounds(buf, exp, permissive)[len]
           m == Len(built)
<1>1. /\ built \in Seq(GoodParams) /\ len = 2 + Len(Body(built)) /\ Carries(buf, Body(built))
  BY DEF WireInv, BuiltInv
<1>2. Len(Body(built)) \in Nat /\ m \in Nat
  BY <1>1, BodyBytes
<1>3. Len(exp) = m /\ \A k \in 1 .. m : exp[k] = built[k].type
  <2>1. \A k \in 1 .. m : built[k] \in GoodParams
    BY <1>1
  <2>2. DOMAIN built = 1 .. m
    BY <1>1
  <2>3. exp = [k \in 1 .. m |-> built[k].type]
    BY <2>2
  <2>4. \A k \in 1 .. m : built[k].type \in Type16
    BY <2>1, GoodValue
  <2>5. exp \in [1 .. m -> Type16]
    BY <2>3, <2>4
  <2>6. \A k \in 1 .. m : exp[k] = built[k].type
    BY <2>3
  <2> HIDE DEF exp, m
  <2> QED BY <1>2, <2>5, <2>6
<1>4. len \in Nat /\ 2 + Len(Body(built)) <= GetLen(buf) /\ GetLen(buf) \in Nat /\ len >= 2
  BY <1>1, <1>2
<1> HIDE DEF exp
<1>5. m <= len /\ Follows(Rounds(buf, exp, permissive)[m], built, m)
  <2>1. Len(exp) \in Nat /\ Len(built) <= Len(exp) /\ \A k \in 1 .. Len(built) : exp[k] = built[k].type
    BY <1>2, <1>3
  <2> QED BY <1>1, <1>4, <2>1, RoundsFollow
<1>6. Rounds(buf, exp, permissive)[m].pos = len
  BY <1>1, <1>5 DEF Follows, Body
<1>7. end = Rounds(buf, exp, permissive)[m]
  <2>1. Rounds(buf, exp, permissive)[m].pos >= GetLen(buf)
    BY <1>4, <1>6
  <2> HIDE DEF m
  <2> QED BY <1>2, <1>4, <1>5, <2>1, RoundsRest
<1> HIDE DEF end
<1>8. end \in ParseStates /\ ~end.stopped /\ Len(end.params) = m /\ end.pos = len
      /\ \A k \in 1 .. m : end.params[k] = built[k]
  BY <1>5, <1>6, <1>7, Zenon DEF Follows
<1>9. end.params = built
  <2>1. end.params \in Seq(GoodParams)
    BY <1>8, ParseUpdates
  <2>2. \A q \in Seq(GoodParams) : q = [k \in 1 .. Len(q) |-> q[k]]
    OBVIOUS
  <2>3. end.params = [k \in 1 .. m |-> end.params[k]] /\ built = [k \in 1 .. m |-> built[k]]
    BY <1>1, <1>8, <2>1, <2>2
  <2> HIDE DEF m
  <2> QED BY <1>8, <2>3
<1>10. ParseResult(end, len, exp, permissive) = m
  BY <1>3, <1>8, Zenon DEF ParseResult
<1>11. ~(len < LENGTH_SIZE \/ len > len)
  BY <1>4 DEF LENGTH_SIZE
<1>12. GetParams(buf, len, exp, permissive)
         = [ret |-> ParseResult(end, len, exp, permissive), params |-> end.params]
  BY <1>11, Zenon DEF GetParams, end
<1> QED BY <1>9, <1>10, <1>12, Zenon DEF exp

(* af_rpc_get_params_from_buffer, strict or permissive, returns every      *)
(* parameter of a message that was built, with its value and its sign, and *)
(* reports their number (RoundTrip).                                       *)
THEOREM BuiltIsParsed == Spec => []RoundTrip
BY WireInvAlways, RoundTripHere, PTL

-----------------------------------------------------------------------------
(* What is accepted stands in the message                                  *)

(* One list of parameters begins with the other *)
Begins(ps, qs) == Len(ps) <= Len(qs) /\ \A k \in 1 .. Len(ps) : qs[k] = ps[k]

(* What the loop has found stands in the message, and nothing between *)
ParseExact(st, b, len, exp) ==
    /\ st \in ParseStates
    /\ st.pos = 2 + Len(Body(st.params)) /\ Carries(b, Body(st.params))
    /\ st.pos <= len \/ st.params = <<>>
    /\ Len(st.params) <= Len(exp)
    /\ st.stopped /\ st.ret = 0 => Len(st.params) = Len(exp)

(* A round that stops has found what was found before it *)
LEMMA StopsExact ==
    ASSUME NEW b, NEW len, NEW exp, Len(exp) \in Nat, NEW st, ParseExact(st, b, len, exp),
           NEW e \in {0, ERR_BAD_TYPE, ERR_BAD_TLV}, e = 0 => Len(st.params) = Len(exp)
    PROVE  /\ ParseExact(Stopped(st, e), b, len, exp)
           /\ Stopped(st, e).params = st.params
<1> DEFINE next == Stopped(st, e)
<1>1. st \in ParseStates
  BY Zenon DEF ParseExact
<1>2. st.pos \in Nat /\ st.params \in Seq(GoodParams)
  BY <1>1, ParseUpdates
<1>3. next = [pos |-> st.pos, params |-> st.params, stopped |-> TRUE, ret |-> e]
  BY DEF Stopped
<1> HIDE DEF next
<1>4. next.stopped
  BY <1>3, Zenon
<1>5. next.pos = st.pos /\ next.params = st.params /\ next.ret = e
  BY <1>3
<1>6. next \in ParseStates
  <2>1. next \in [pos : Nat, params : Seq(GoodParams), stopped : BOOLEAN, ret : {0, ERR_BAD_TYPE, ERR_BAD_TLV}]
    BY <1>2, <1>3
  <2> QED BY <1>4, <2>1, Zenon DEF ParseStates
<1>7. ParseExact(next, b, len, exp)
  BY <1>5, <1>6, Zenon DEF ParseExact
<1> QED BY <1>5, <1>7 DEF next

(* A round that takes a parameter has found one that stands in the message *)
LEMMA TakesExact ==
    ASSUME NEW b \in Cells, NEW len \in Nat, len <= BufSize, NEW exp, Len(exp) \in Nat,
           NEW st, ParseExact(st, b, len, exp), NEW t, t = WordAt(b, st.pos),
           ~(Len(st.params) + 1 > Len(exp)),
           ~(st.pos + TYPE_SIZE > len), ~(st.pos + TYPE_SIZE + SizeOfType(t) > len),
           IsInteger(t) => ~HasExtraBits(t) /\ ~(SizeOfType(t) < 0),
           NEW next,
           next = Took(st, SizeOfType(t),
                       TakenAs([type |-> t, value |-> BytesAt(b, st.pos + TYPE_SIZE, SizeOfType(t))]))
    PROVE  ParseExact(next, b, len, exp) /\ Begins(st.params, next.params)
<1> DEFINE size == SizeOfType(t)
           ps == st.params
           s == Body(ps)
           v == BytesAt(b, 2 + Len(s) + 2, size)
           p == TakenAs([type |-> t, value |-> v])
<1>1. st \in ParseStates /\ st.pos = 2 + Len(s) /\ Carries(b, s)
  BY Zenon DEF ParseExact
<1>2. st.pos \in Nat /\ ps \in Seq(GoodParams) /\ Len(ps) \in Nat
  <2>1. st.pos \in Nat /\ ps \in Seq(GoodParams)
    BY <1>1, ParseUpdates
  <2> HIDE DEF ps
  <2> QED BY <2>1
<1>3. s \in Seq(Byte) /\ Len(s) \in Nat /\ BufSize \in Nat
  BY <1>2, BodyBytes, SizeAssumption
<1> HIDE DEF s
<1>4. 2 + Len(s) + 2 <= len /\ 2 + Len(s) + 1 < BufSize /\ 2 + Len(s) \in Nat
  BY <1>1, <1>3 DEF TYPE_SIZE
<1>5. t \in Type16
  BY <1>1, <1>4, WordAtBytes
<1>6. size \in Nat /\ (IsInteger(t) => t \in UintTypes \cup IntTypes)
  <2>1. CASE IsInteger(t)
    <3>1. size \in {-1, 1, 2, 4} /\ ~(size < 0) /\ ~HasExtraBits(t)
      BY <1>5, <2>1, Sizes
    <3>2. size \in Nat /\ size >= 0
      BY <3>1
    <3> QED BY <1>5, <2>1, <3>1, <3>2, IntegerTypes
  <2>2. CASE ~IsInteger(t)
    BY <1>5, <2>2, Sizes
  <2> QED BY <2>1, <2>2
<1>7. 2 + Len(s) + 2 + size <= len /\ 2 + Len(s) + 2 + size <= BufSize
  <2> HIDE DEF size
  <2>1. ~(st.pos + TYPE_SIZE + size > len)
    BY DEF size
  <2> QED BY <1>1, <1>3, <1>6, <2>1 DEF TYPE_SIZE
<1>8. v \in Seq(Byte) /\ Len(v) = size /\ Carries(b, s \o Word(t) \o v)
  <2> HIDE DEF size
  <2>1. /\ BytesAt(b, 2 + Len(s) + 2, size) \in Seq(Byte)
        /\ Len(BytesAt(b, 2 + Len(s) + 2, size)) = size
        /\ Carries(b, s \o Word(WordAt(b, 2 + Len(s))) \o BytesAt(b, 2 + Len(s) + 2, size))
    BY <1>1, <1>3, <1>6, <1>7, ExtendCarries
  <2>2. WordAt(b, 2 + Len(s)) = t
    BY <1>1
  <2> QED BY <2>1, <2>2
<1>9. st.pos + TYPE_SIZE = 2 + Len(s) + 2
  BY <1>1, <1>3 DEF TYPE_SIZE
<1>10. next = Took(st, size, p)
  BY <1>9
<1> HIDE DEF v
<1>11. p \in GoodParams /\ ValueOf(p) = v /\ p.type = t
  BY <1>5, <1>6, <1>8, TakenGood
<1> HIDE DEF p, size
<1>11a. st \in ParseStates /\ size \in Nat /\ p \in GoodParams
  BY <1>1, <1>6, <1>11
<1>12. /\ next \in ParseStates /\ ~next.stopped
  BY <1>10, <1>11a, TookState, Zenon
<1>13. next.pos = st.pos + 2 + size
  <2>1. Took(st, size, p).pos = st.pos + 2 + size
    BY <1>11a, TookState
  <2> QED BY <1>10, <2>1, Zenon
<1>14. next.params = Append(ps, p)
  BY <1>10, <1>11a, TookState
<1> DEFINE all == Append(ps, p)
<1> HIDE DEF ps
<1>15. /\ all \in Seq(GoodParams) /\ Body(all) = Body(ps) \o Word(p.type) \o ValueOf(p)
       /\ Len(Body(all)) = Len(Body(ps)) + 2 + SizeOfType(p.type)
  BY <1>2, <1>11, BodyAppend
<1>16. Len(all) = Len(ps) + 1 /\ \A k \in 1 .. Len(ps) : all[k] = ps[k]
  BY <1>2, <1>11
<1> HIDE DEF all
<1>17. next.params = all
  BY <1>14 DEF all
<1>18. Body(all) = s \o Word(t) \o v /\ Len(Body(all)) = Len(s) + 2 + size
  BY <1>11, <1>15 DEF s, size
<1>19. next.pos = 2 + Len(Body(all)) /\ next.pos <= len
  BY <1>1, <1>3, <1>6, <1>7, <1>13, <1>18
<1>20. Carries(b, Body(next.params)) /\ next.pos = 2 + Len(Body(next.params))
  BY <1>8, <1>17, <1>18, <1>19
<1>21. Len(next.params) <= Len(exp)
  <2>1. ~(Len(ps) + 1 > Len(exp))
    BY DEF ps
  <2> QED BY <1>2, <1>16, <1>17, <2>1 DEF ps
<1>22. Begins(ps, next.params)
  <2>1. Len(ps) \in Nat
    BY <1>2 DEF ps
  <2> QED BY <1>16, <1>17, <2>1 DEF Begins
<1>23. ParseExact(next, b, len, exp)
  BY <1>12, <1>19, <1>20, <1>21, Zenon DEF ParseExact
<1> QED BY <1>22, <1>23 DEF ps

(* No round skips a byte or takes one twice *)
LEMMA ExactStep ==
    ASSUME NEW b \in Cells, NEW len \in Nat, len <= BufSize, NEW exp, Len(exp) \in Nat,
           NEW permissive, NEW st, ParseExact(st, b, len, exp)
    PROVE  LET next == ParseStep(st, b, len, exp, permissive)
           IN  ParseExact(next, b, len, exp) /\ Begins(st.params, next.params)
<1> DEFINE next == ParseStep(st, b, len, exp, permissive)
           t == WordAt(b, st.pos)
           Takes ==
              /\ ~st.stopped /\ ~(st.pos >= len) /\ ~(Len(st.params) + 1 > Len(exp))
              /\ ~(st.pos + TYPE_SIZE > len) /\ ~(st.pos + TYPE_SIZE + SizeOfType(t) > len)
              /\ IsInteger(t) => ~HasExtraBits(t) /\ ~(SizeOfType(t) < 0)
              /\ next = Took(st, SizeOfType(t),
                    TakenAs([type |-> t, value |-> BytesAt(b, st.pos + TYPE_SIZE, SizeOfType(t))]))
           Goal == ParseExact(next, b, len, exp) /\ Begins(st.params, next.params)
<1> SUFFICES Goal
  OBVIOUS
<1>1. st \in ParseStates /\ Len(st.params) <= Len(exp)
  BY Zenon DEF ParseExact
<1>2. Len(st.params) \in Nat
  <2> DEFINE ps == st.params
  <2>1. ps \in Seq(GoodParams)
    BY <1>1, ParseUpdates
  <2> HIDE DEF ps
  <2>2. Len(ps) \in Nat
    BY <2>1
  <2> QED BY <2>2 DEF ps
<1>3. \/ next = st
      \/ next = Stopped(st, 0) /\ Len(st.params) + 1 > Len(exp)
      \/ next \in {Stopped(st, ERR_BAD_TYPE), Stopped(st, ERR_BAD_TLV)}
      \/ Takes
  BY <1>1, ParseOutcome, Zenon
<1> HIDE DEF next
<1>4. Begins(st.params, st.params)
  BY <1>2 DEF Begins
<1>5. CASE next = st
  BY <1>4, <1>5
<1>6. CASE \E e \in {0, ERR_BAD_TYPE, ERR_BAD_TLV} : next = Stopped(st, e) /\ (e = 0 => Len(st.params) = Len(exp))
  <2>1. PICK e \in {0, ERR_BAD_TYPE, ERR_BAD_TLV} : next = Stopped(st, e) /\ (e = 0 => Len(st.params) = Len(exp))
    BY <1>6
  <2>2. ParseExact(Stopped(st, e), b, len, exp) /\ Stopped(st, e).params = st.params
    BY <2>1, StopsExact
  <2> QED BY <1>4, <2>1, <2>2
<1>7. CASE next = Stopped(st, 0) /\ Len(st.params) + 1 > Len(exp)
  <2>1. Len(st.params) = Len(exp)
    BY <1>1, <1>2, <1>7
  <2> HIDE DEF Goal
  <2> QED BY <1>6, <1>7, <2>1
<1>8. CASE next \in {Stopped(st, ERR_BAD_TYPE), Stopped(st, ERR_BAD_TLV)}
  <2>1. ERR_BAD_TYPE # 0 /\ ERR_BAD_TLV # 0
    BY DEF ERR_BAD_TYPE, ERR_BAD_TLV
  <2> HIDE DEF Goal
  <2> QED BY <1>6, <1>8, <2>1
<1>9. CASE Takes
  <2>1. ParseExact(next, b, len, exp) /\ Begins(st.params, next.params)
    BY <1>9, TakesExact, Zenon
  <2> QED BY <2>1
<1> HIDE DEF Goal, Takes
<1> QED BY <1>3, <1>5, <1>7, <1>8, <1>9

(* Before the first round nothing is found *)
LEMMA ExactStart ==
    ASSUME NEW b, NEW len, NEW exp, Len(exp) \in Nat
    PROVE  ParseExact([pos |-> LENGTH_SIZE, params |-> <<>>, stopped |-> FALSE, ret |-> 0], b, len, exp)
<1> DEFINE st == [pos |-> LENGTH_SIZE, params |-> <<>>, stopped |-> FALSE, ret |-> 0]
<1>1. <<>> \in Seq(GoodParams) /\ Len(<<>>) = 0
  OBVIOUS
<1>2. Follows(st, <<>>, 0)
  BY <1>1, FollowStart
<1>3. st.pos = 2 /\ st.params = <<>>
  BY DEF LENGTH_SIZE
<1>4. ~st.stopped
  BY Zenon
<1> HIDE DEF st
<1>5. st \in ParseStates
  BY <1>2, Zenon DEF Follows
<1>6. Body(<<>>) = <<>>
  BY BodyEmpty
<1>7. st.pos = 2 + Len(Body(st.params)) /\ Carries(b, Body(st.params)) /\ Len(st.params) <= Len(exp)
  BY <1>1, <1>3, <1>6 DEF Carries
<1> QED BY <1>3, <1>4, <1>5, <1>7, Zenon DEF ParseExact, st

(* In every round, whatever the bytes *)
LEMMA RoundsExact ==
    ASSUME NEW b \in Cells, GetLen(b) \in Nat, GetLen(b) <= BufSize,
           NEW exp, Len(exp) \in Nat, NEW permissive, NEW n \in 0 .. GetLen(b)
    PROVE  ParseExact(Rounds(b, exp, permissive)[n], b, GetLen(b), exp)
<1> DEFINE round == Rounds(b, exp, permissive)
           S == {k \in Nat : k <= GetLen(b) => ParseExact(round[k], b, GetLen(b), exp)}
<1>1. /\ round[0] = [pos |-> LENGTH_SIZE, params |-> <<>>, stopped |-> FALSE, ret |-> 0]
      /\ \A k \in Nat : k < GetLen(b) => round[k + 1] = ParseStep(round[k], b, GetLen(b), exp, permissive)
  BY RoundsUnfold, Zenon
<1> HIDE DEF round
<1>2. 0 \in S
  BY <1>1, ExactStart
<1>3. ASSUME NEW k \in Nat, k \in S PROVE k + 1 \in S
  <2> SUFFICES ASSUME k + 1 <= GetLen(b) PROVE ParseExact(round[k + 1], b, GetLen(b), exp)
    OBVIOUS
  <2>1. k < GetLen(b) /\ ParseExact(round[k], b, GetLen(b), exp)
    BY <1>3
  <2>2. round[k + 1] = ParseStep(round[k], b, GetLen(b), exp, permissive)
    BY <1>1, <2>1
  <2>3. ParseExact(ParseStep(round[k], b, GetLen(b), exp, permissive), b, GetLen(b), exp)
    BY <2>1, ExactStep, Zenon
  <2> QED BY <2>2, <2>3
<1>4. Nat \subseteq S
  <2> HIDE DEF S
  <2> QED BY <1>2, <1>3, SetInduction
<1>5. ParseExact(round[n], b, GetLen(b), exp)
  BY <1>4
<1> QED BY <1>5 DEF round

(* A round never gives back what an earlier one has found *)
LEMMA RoundsGrow ==
    ASSUME NEW b \in Cells, GetLen(b) \in Nat, GetLen(b) <= BufSize,
           NEW exp, Len(exp) \in Nat, NEW permissive, NEW m \in 0 .. GetLen(b)
    PROVE  Begins(Rounds(b, exp, permissive)[m].params, Rounds(b, exp, permissive)[GetLen(b)].params)
<1> DEFINE round == Rounds(b, exp, permissive)
           S == {k \in Nat : m + k <= GetLen(b) => Begins(round[m].params, round[m + k].params)}
<1>1. \A k \in Nat : k < GetLen(b) => round[k + 1] = ParseStep(round[k], b, GetLen(b), exp, permissive)
  BY RoundsUnfold, Zenon
<1>2. \A k \in 0 .. GetLen(b) : ParseExact(round[k], b, GetLen(b), exp)
  BY RoundsExact
<1>3. \A k \in 0 .. GetLen(b) : Len(round[k].params) \in Nat
  <2> TAKE k \in 0 .. GetLen(b)
  <2>1. round[k] \in ParseStates
    BY <1>2, Zenon DEF ParseExact
  <2> HIDE DEF round
  <2>2. round[k].params \in Seq(GoodParams)
    BY <2>1, ParseUpdates
  <2> QED BY <2>2
<1> HIDE DEF round
<1>4. 0 \in S
  <2>1. Len(round[m].params) \in Nat
    BY <1>3
  <2>2. Begins(round[m].params, round[m].params)
    BY <2>1 DEF Begins
  <2>3. m + 0 = m
    OBVIOUS
  <2> QED BY <2>2, <2>3
<1>5. ASSUME NEW k \in Nat, k \in S PROVE k + 1 \in S
  <2> SUFFICES ASSUME m + (k + 1) <= GetLen(b) PROVE Begins(round[m].params, round[m + (k + 1)].params)
    OBVIOUS
  <2>1. /\ m + k \in Nat /\ m + k < GetLen(b) /\ m + (k + 1) = (m + k) + 1
        /\ m + k \in 0 .. GetLen(b) /\ m + (k + 1) \in 0 .. GetLen(b)
    OBVIOUS
  <2>1a. Begins(round[m].params, round[m + k].params)
    BY <1>5, <2>1
  <2>2. round[m + (k + 1)] = ParseStep(round[m + k], b, GetLen(b), exp, permissive)
    BY <1>1, <2>1
  <2>3. ParseExact(round[m + k], b, GetLen(b), exp)
    BY <1>2, <2>1
  <2>4. Begins(round[m + k].params, ParseStep(round[m + k], b, GetLen(b), exp, permissive).params)
    BY <2>3, ExactStep, Zenon
  <2> DEFINE x == round[m].params
             y == round[m + k].params
             z == round[m + (k + 1)].params
  <2>5. Begins(x, y) /\ Begins(y, z) /\ Len(x) \in Nat /\ Len(y) \in Nat /\ Len(z) \in Nat
    BY <1>3, <2>1, <2>1a, <2>2, <2>4
  <2> HIDE DEF x, y, z
  <2>6. Begins(x, z)
    BY <2>5 DEF Begins
  <2> QED BY <2>6 DEF x, z
<1>6. Nat \subseteq S
  <2> HIDE DEF S
  <2> QED BY <1>4, <1>5, SetInduction
<1>7. GetLen(b) - m \in Nat /\ m + (GetLen(b) - m) = GetLen(b)
  OBVIOUS
<1>8. Begins(round[m].params, round[m + (GetLen(b) - m)].params)
  BY <1>6, <1>7
<1> QED BY <1>7, <1>8 DEF round

-----------------------------------------------------------------------------
(* The theorems about reading                                              *)

(* A buffer of two bytes or more states a length *)
LEMMA LengthInBuffer ==
    ASSUME WireInv, 2 <= bufSize
    PROVE  /\ buf \in Cells /\ bufSize \in Nat /\ bufSize <= BufSize /\ BufSize \in Nat /\ BufSize >= 2
           /\ GetLen(buf) \in Nat
<1>1. buf \in Cells /\ bufSize \in Nat /\ bufSize <= BufSize /\ BufSize \in Nat
  BY SizeAssumption DEF WireInv, TypeOK, Cells
<1>2. BufSize >= 2 /\ 0 + 1 < BufSize
  BY <1>1
<1>3. WordAt(buf, 0) \in Type16
  BY <1>1, <1>2, WordAtBytes, 0 \in Nat
<1> QED BY <1>1, <1>2, <1>3 DEF GetLen, Type16

(* The invariant makes what is accepted the wire form of what is returned *)
LEMMA ExactHere == WireInv => ParseIsExact
<1> DEFINE Types == {AF_RPC_TYPE_UINT8, AF_RPC_TYPE_INT16, AF_RPC_TYPE_BLOB(0)}
<1> SUFFICES ASSUME WireInv, NEW n \in 1 .. MaxParams, NEW permissive \in BOOLEAN, NEW exp \in [1 .. n -> Types],
                    NEW p, p = GetParams(buf, bufSize, exp, permissive),
                    p.ret >= 0, p.ret = Len(p.params)
             PROVE  \/ BytesAt(buf, 0, bufSize) = Encoded(p.params)
                    \/ bufSize = LENGTH_SIZE /\ p.params = <<>>
  BY Zenon DEF ParseIsExact
<1> DEFINE len == GetLen(buf)
           end == Rounds(buf, exp, permissive)[len]
<1>1. ~(bufSize < LENGTH_SIZE \/ len > bufSize)
  <2> SUFFICES ASSUME bufSize < LENGTH_SIZE \/ len > bufSize PROVE FALSE
    OBVIOUS
  <2>1. p = [ret |-> ERR_BAD_TLV, params |-> <<>>]
    BY Zenon DEF GetParams
  <2>2. p.ret = ERR_BAD_TLV
    BY <2>1
  <2> QED BY <2>2 DEF ERR_BAD_TLV
<1>2. p = [ret |-> ParseResult(end, bufSize, exp, permissive), params |-> end.params]
  BY <1>1, Zenon DEF GetParams
<1> HIDE DEF end
<1>3. p.ret = ParseResult(end, bufSize, exp, permissive) /\ p.params = end.params
  BY <1>2
<1>4. Len(exp) = n /\ n \in Nat /\ n >= 1
  <2>1. n \in Nat /\ n >= 1
    BY SizeAssumption
  <2> HIDE DEF Types
  <2>2. Len(exp) = n
    BY <2>1
  <2> QED BY <2>1, <2>2
<1>5. bufSize >= 2 /\ bufSize \in Nat
  <2>1. bufSize \in Nat
    BY SizeAssumption DEF WireInv, TypeOK
  <2> QED BY <1>1, <2>1 DEF LENGTH_SIZE
<1>6. /\ buf \in Cells /\ bufSize \in Nat /\ bufSize <= BufSize /\ BufSize \in Nat /\ BufSize >= 2
      /\ len \in Nat /\ len <= bufSize
  <2>1. 2 <= bufSize
    BY <1>5
  <2>2. /\ buf \in Cells /\ bufSize \in Nat /\ bufSize <= BufSize /\ BufSize \in Nat /\ BufSize >= 2
        /\ GetLen(buf) \in Nat
    BY <2>1, LengthInBuffer
  <2> QED BY <1>1, <2>2
<1>7. ParseExact(end, buf, len, exp)
  <2>1. len \in 0 .. len /\ GetLen(buf) <= BufSize /\ Len(exp) \in Nat /\ GetLen(buf) \in Nat
    BY <1>4, <1>6
  <2>2. ParseExact(Rounds(buf, exp, permissive)[len], buf, GetLen(buf), exp)
    BY <1>6, <2>1, RoundsExact
  <2> QED BY <2>2 DEF end
<1>8. /\ end \in ParseStates /\ end.pos = 2 + Len(Body(end.params)) /\ Carries(buf, Body(end.params))
      /\ end.pos <= len \/ end.params = <<>>
      /\ end.stopped /\ end.ret = 0 => Len(end.params) = Len(exp)
  BY <1>7, Zenon DEF ParseExact
<1>9. end.params \in Seq(GoodParams) /\ end.ret \in {0, ERR_BAD_TYPE, ERR_BAD_TLV} /\ end.pos \in Nat
  BY <1>8, ParseUpdates
<1>10. ~end.stopped
  <2> SUFFICES ASSUME end.stopped PROVE FALSE
    OBVIOUS
  <2>1. p.ret = end.ret
    BY <1>3, Zenon DEF ParseResult
  <2>2. end.ret = 0
    BY <1>9, <2>1 DEF ERR_BAD_TYPE, ERR_BAD_TLV
  <2>3. Len(end.params) = Len(exp)
    BY <1>8, <2>2, Zenon
  <2>4. p.ret = Len(end.params)
    BY <1>3, Zenon
  <2>5. n = 0
    BY <1>4, <2>1, <2>2, <2>3, <2>4, Zenon
  <2> QED BY <1>4, <2>5
<1>11. end.pos = bufSize
  <2> SUFFICES ASSUME end.pos # bufSize PROVE FALSE
    OBVIOUS
  <2>1. p.ret = ERR_WRONG_NUM_PARAMS \/ p.ret = ERR_BAD_TLV
    BY <1>3, <1>10, Zenon DEF ParseResult
  <2> QED BY <2>1 DEF ERR_WRONG_NUM_PARAMS, ERR_BAD_TLV
<1>12. CASE end.pos <= len
  <2>1. bufSize = len /\ len = 2 + Len(Body(end.params)) /\ len <= BufSize
    BY <1>6, <1>8, <1>11, <1>12
  <2>2. BytesAt(buf, 0, GetLen(buf)) = Encoded(end.params)
    BY <1>6, <1>8, <1>9, <2>1, WireBytes
  <2> QED BY <1>3, <2>1, <2>2
<1>13. CASE end.params = <<>>
  <2>1. end.pos = 2
    BY <1>8, <1>13, BodyEmpty
  <2> QED BY <1>3, <1>11, <1>13, <2>1 DEF LENGTH_SIZE
<1> QED BY <1>8, <1>12, <1>13

(* A received message that af_rpc_get_params_from_buffer accepts is the    *)
(* wire form of what it returns, to the last byte (ParseIsExact).          *)
THEOREM AcceptedIsExact == Spec => []ParseIsExact
BY WireInvAlways, ExactHere, PTL

(* The invariant makes the readers agree with a permissive parser *)
LEMMA AgreeHere == WireInv => ReadersAgree
<1> DEFINE exp == [k \in 1 .. BufSize |-> 0]
           len == GetLen(buf)
           found == GetParams(buf, bufSize, exp, TRUE).params
           ts == Taken(reads)
           m == Len(reads)
<1> SUFFICES ASSUME WireInv, ready, reads # <<>>
             PROVE  /\ m <= Len(found)
                    /\ \A k \in DOMAIN reads :
                          reads[k].type = found[k].type /\ reads[k].value = ValueOf(found[k])
  BY Zenon DEF ReadersAgree
<1>1. /\ reads \in Seq([type : Type16, value : Seq(Byte)]) /\ ts \in Seq(GoodParams)
      /\ \A k \in 1 .. Len(reads) : ValueOf(TakenAs(reads[k])) = reads[k].value
      /\ ReadPos = 2 + Len(Body(ts)) /\ Carries(buf, Body(ts))
      /\ 2 < bufSize /\ ReadPos <= len /\ len <= bufSize
  BY DEF WireInv, ReadInv
<1>2. /\ buf \in Cells /\ bufSize \in Nat /\ bufSize <= BufSize /\ BufSize \in Nat /\ len \in Nat
  <2>1. bufSize \in Nat
    BY SizeAssumption DEF WireInv, TypeOK
  <2>2. 2 <= bufSize
    BY <1>1, <2>1
  <2> QED BY <2>2, LengthInBuffer
<1>3. m \in Nat /\ DOMAIN reads = 1 .. m
  BY <1>1
<1>4. Len(ts) = m /\ \A k \in 1 .. m : ts[k] = TakenAs(reads[k])
  <2>1. ts = [k \in 1 .. m |-> TakenAs(reads[k])]
    BY DEF Taken
  <2> HIDE DEF ts, m
  <2> QED BY <1>1, <1>3, <2>1
<1>5. Len(exp) = BufSize
  BY <1>2
<1> HIDE DEF exp
<1>6. Len(Body(ts)) \in Nat /\ Len(Body(ts)) >= 2 * m /\ 2 + Len(Body(ts)) <= len /\ m <= BufSize
  <2>1. Len(Body(ts)) \in Nat /\ Len(Body(ts)) >= 2 * Len(ts)
    BY <1>1, BodyBytes
  <2>2. Len(Body(ts)) >= 2 * m
    BY <1>4, <2>1
  <2> DEFINE whole == Len(Body(ts))
  <2>3. whole \in Nat /\ whole >= 2 * m /\ 2 + whole <= len
    BY <1>1, <2>1, <2>2
  <2> HIDE DEF whole, m, len
  <2>4. m <= BufSize
    BY <1>1, <1>2, <1>3, <2>3
  <2> QED BY <2>3, <2>4 DEF whole
<1>7. found = Rounds(buf, exp, TRUE)[len].params
  <2>1. ~(bufSize < LENGTH_SIZE \/ len > bufSize)
    BY <1>1, <1>2 DEF LENGTH_SIZE
  <2> DEFINE end == Rounds(buf, exp, TRUE)[len]
             r == GetParams(buf, bufSize, exp, TRUE)
  <2>2. r = [ret |-> ParseResult(end, bufSize, exp, TRUE), params |-> end.params]
    BY <2>1, Zenon DEF GetParams
  <2> HIDE DEF end, r
  <2>3. r.params = end.params
    BY <2>2
  <2> QED BY <2>3 DEF end, r
<1>8. m <= len /\ Follows(Rounds(buf, exp, TRUE)[m], ts, m)
  <2>1. Len(exp) \in Nat /\ Len(ts) <= Len(exp) /\ GetLen(buf) \in Nat /\ 2 + Len(Body(ts)) <= GetLen(buf)
    BY <1>2, <1>4, <1>5, <1>6
  <2>2. Len(ts) <= GetLen(buf) /\ Follows(Rounds(buf, exp, TRUE)[Len(ts)], ts, Len(ts))
    <3> HIDE DEF ts
    <3> QED BY <1>1, <2>1, RoundsFollow
  <2> QED BY <1>4, <2>2
<1>9. Begins(Rounds(buf, exp, TRUE)[m].params, Rounds(buf, exp, TRUE)[len].params)
  <2>1. m \in 0 .. GetLen(buf) /\ GetLen(buf) <= BufSize /\ GetLen(buf) \in Nat /\ Len(exp) \in Nat
    BY <1>1, <1>2, <1>3, <1>5, <1>8
  <2> HIDE DEF m
  <2> QED BY <1>2, <2>1, RoundsGrow
<1> DEFINE early == Rounds(buf, exp, TRUE)[m].params
<1>10. Len(early) = m /\ \A k \in 1 .. m : early[k] = ts[k]
  BY <1>8, Zenon DEF Follows
<1> HIDE DEF found, ts, m
<1>11. m <= Len(found) /\ \A k \in 1 .. m : found[k] = early[k]
  <2>1. Len(early) <= Len(found) /\ \A k \in 1 .. Len(early) : found[k] = early[k]
    BY <1>7, <1>9, Zenon DEF Begins
  <2> QED BY <1>10, <2>1, Zenon
<1>12. ASSUME NEW k \in 1 .. m PROVE reads[k].type = found[k].type /\ reads[k].value = ValueOf(found[k])
  <2>1. found[k] = TakenAs(reads[k])
    BY <1>4, <1>10, <1>11, Zenon
  <2>2. TakenAs(reads[k]).type = reads[k].type
    BY DEF TakenAs
  <2>3. ValueOf(TakenAs(reads[k])) = reads[k].value
    BY <1>1 DEF m
  <2> QED BY <2>1, <2>2, <2>3
<1> QED BY <1>3, <1>11, <1>12

(* What the af_rpc_get_*_from_buffer_at_pos functions return one after the *)
(* other is what a permissive af_rpc_get_params_from_buffer finds          *)
(* (ReadersAgree).                                                         *)
THEOREM ReadersAreParser == Spec => []ReadersAgree
BY WireInvAlways, AgreeHere, PTL

=============================================================================
